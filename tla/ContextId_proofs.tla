---------------------------- MODULE ContextId_proofs ----------------------------
(***************************************************************************)
(* The context ids of module ContextId are right, for any processes,       *)
(* communicators, calls and number of bits.  Four results, each from an    *)
(* inductive invariant that is added to the ones before:                   *)
(*   - the mask of a process is lent to one thread at a time (LendInv);    *)
(*   - the members of a new communicator agree on its ids: every member of *)
(*     c has the results of the same collective calls, and every id it     *)
(*     holds or sent is the one they found (AgreeInv);                     *)
(*   - a process receives on an id for one communicator only, as a bit is  *)
(*     in one place of the process at a time (DistinctInv);                *)
(*   - ids are allocated as ContextAlloc says.                             *)
(***************************************************************************)
EXTENDS ContextId, FiniteSetTheorems, WellFoundedInduction, TLAPS

(***************************************************************************)
(* Sets of numbers have a least element, bounded ones a greatest.          *)
(***************************************************************************)
LEMMA LeastExists ==
  ASSUME NEW S \in SUBSET Nat, S # {}
  PROVE  \E x \in S : \A y \in S : x <= y
<1> DEFINE R == OpToRel(<, Nat)
<1>1. \A x, y \in Nat : <<y, x>> \in R <=> y < x
  BY DEF OpToRel
<1>2. IsWellFoundedOn(R, Nat)
  BY NatLessThanWellFounded
<1> HIDE DEF R
<1>3. PICK x \in S : \A y \in S : ~(<<y, x>> \in R)
  BY <1>2, WFMin
<1>4. ASSUME NEW y \in S PROVE x <= y
  <2>1. x \in Nat /\ y \in Nat
    OBVIOUS
  <2>2. <<y, x>> \notin R
    BY <1>3
  <2>3. ~(y < x)
    BY <1>1, <2>1, <2>2
  <2>4. QED
    BY <2>1, <2>3
<1>5. QED
  BY <1>4

LEMMA GreatestExists ==
  ASSUME NEW n \in Nat, NEW S \in SUBSET (0..n), S # {}
  PROVE  \E x \in S : \A y \in S : y <= x
<1> DEFINE D == {n - x : x \in S}
<1>1. D \in SUBSET Nat /\ D # {}
  <2>1. \A x \in S : n - x \in Nat
    OBVIOUS
  <2>2. PICK x : x \in S
    OBVIOUS
  <2>3. n - x \in D
    BY <2>2
  <2>4. QED
    BY <2>1, <2>3
<1>2. PICK d \in D : \A e \in D : d <= e
  BY <1>1, LeastExists
<1>3. PICK x \in S : d = n - x
  OBVIOUS
<1>4. \A y \in S : n - y \in D
  OBVIOUS
<1>5. QED
  BY <1>2, <1>3, <1>4

(***************************************************************************)
(* MPIR_Find_context_bit returns a bit of the mask.                        *)
(***************************************************************************)
LEMMA FindBit ==
  ASSUME NEW p, NEW mask \in SUBSET Bit, mask # {}
  PROVE  Find_context_bit(p, mask) \in mask
<1>1. \A b \in Bit : Word(b) \in Nat
  BY ContextIdAssumption DEF Bit, Word
<1>2. PICK b \in mask : \A d \in mask : Word(b) <= Word(d)
  <2>1. {Word(d) : d \in mask} \in SUBSET Nat /\ {Word(d) : d \in mask} # {}
    BY <1>1
  <2>2. PICK w \in {Word(d) : d \in mask} : \A x \in {Word(d) : d \in mask} : w <= x
    BY <2>1, LeastExists
  <2>3. QED
    BY <2>2
<1>3. PICK g \in {d \in mask : Word(d) = Word(b)} :
        \A d \in {d \in mask : Word(d) = Word(b)} : d <= g
  <2>1. Bits \in Nat \ {0} /\ Bits - 1 \in Nat
    BY ContextIdAssumption DEF Bit
  <2>2. {d \in mask : Word(d) = Word(b)} \in SUBSET (0..(Bits - 1))
    BY DEF Bit
  <2>3. QED
    BY <2>1, <2>2, GreatestExists
<1>4. \A d \in mask : Word(g) < Word(d) \/ (Word(g) = Word(d) /\ g >= d)
  BY <1>1, <1>2, <1>3 DEF Bit
<1>5. QED
  BY <1>4 DEF Find_context_bit

(***************************************************************************)
(* An id stands for one bit.                                               *)
(***************************************************************************)
LEMMA IdBits ==
  /\ \A b \in Bit : IdOf(b) \in Id /\ BitOf(IdOf(b)) = b
  /\ \A i \in Id : BitOf(i) \in Bit /\ IdOf(BitOf(i)) = i
<1>1. \A b \in Bit : BitOf(IdOf(b)) = b
  BY ContextIdAssumption DEF Bit, BitOf, IdOf
<1>2. QED
  BY <1>1 DEF Id

LEMMA ThreadPairs ==
  /\ \A p, c : <<p, c>> \in Thread <=> c \in Comm /\ p \in Members[c]
  /\ \A t \in Thread : t = <<t[1], t[2]>> /\ t[2] \in Comm /\ t[1] \in Members[t[2]]
  /\ \A c \in Comm : Members[c] \subseteq Proc
  /\ \A c : \A p \in Proc : c \in Own[p] <=> <<p, c>> \in Thread
<1>1. \A p, c : <<p, c>> \in Thread <=> c \in Comm /\ p \in Members[c]
  BY DEF Thread
<1>2. \A t \in Thread : t = <<t[1], t[2]>> /\ t[2] \in Comm /\ t[1] \in Members[t[2]]
  BY DEF Thread
<1>3. QED
  BY <1>1, <1>2, ContextIdAssumption DEF Own

(***************************************************************************)
(* Types.                                                                  *)
(***************************************************************************)
PC == {"idle", "reduce", "evaluate", "yield", "exchange"}
Rec(B) == [pc : PC, n : Nat, own : B, mask : SUBSET Bit, id : Id]
ThreadRec == Rec(BOOLEAN)
Calls(c) == 1..Len(program[c])

TypeInv ==
  /\ program \in Programs
  /\ context_mask \in [Proc -> SUBSET Bit]
  /\ mask_in_use \in [Proc -> BOOLEAN]
  /\ lowestContextId \in [Proc -> {MAXID} \cup {context_id(c) : c \in Comm}]
  /\ thread \in [Thread -> ThreadRec]
  /\ offered = [c \in Comm |-> offered[c]] /\ told = [c \in Comm |-> told[c]]
  /\ \A c \in Comm : offered[c] \in [Calls(c) -> Id] /\ told[c] \in [Calls(c) -> Id]
  /\ comms \in [Proc -> SUBSET CommType]

(***************************************************************************)
(* A thread has bits only of a mask that its process lent to it, and the   *)
(* mask of a process is lent to one thread at a time.                      *)
(***************************************************************************)
ThreadInv(p, c) ==
  LET t == thread[<<p, c>>] IN
  /\ t.n <= Len(program[c])
  /\ t.pc # "idle" => t.n < Len(program[c])
  /\ t.pc \in {"idle", "exchange"} => ~t.own
  /\ t.pc = "exchange" => Inter(c)
  /\ ~t.own => t.mask = {}
  /\ t.mask \subseteq context_mask[p]

OwnInv(p) ==
  /\ mask_in_use[p] <=> \E c \in Own[p] : thread[<<p, c>>].own
  /\ \A c, d \in Own[p] : thread[<<p, c>>].own /\ thread[<<p, d>>].own => c = d

LendInv == /\ TypeInv
           /\ \A p \in Proc : \A c \in Own[p] : ThreadInv(p, c)
           /\ \A p \in Proc : OwnInv(p)

(***************************************************************************)
(* A field of a thread's record may be set to anything of its type.        *)
(***************************************************************************)
LEMMA SetField ==
  ASSUME NEW B, NEW t \in Rec(B)
  PROVE  /\ \A s \in PC : [t EXCEPT !.pc = s] \in Rec(B)
         /\ \A o \in B : [t EXCEPT !.own = o] \in Rec(B)
         /\ \A m \in SUBSET Bit : [t EXCEPT !.mask = m] \in Rec(B)
         /\ \A i \in Id : [t EXCEPT !.id = i] \in Rec(B)
BY SMT DEF Rec

Lent(t, lend, m) == [t EXCEPT !.pc = "reduce", !.own = lend, !.mask = m]
Reduced(t, m) == [t EXCEPT !.pc = "evaluate", !.mask = m]
Chosen(t, i) == [t EXCEPT !.pc = "exchange", !.id = i, !.own = FALSE, !.mask = {}]

LEMMA Records ==
  ASSUME NEW t \in ThreadRec, NEW lend \in BOOLEAN, NEW m \in SUBSET Bit, NEW i \in Id
  PROVE  /\ Lent(t, lend, m) \in ThreadRec /\ Reduced(t, m) \in ThreadRec
         /\ Chosen(t, i) \in ThreadRec /\ [t EXCEPT !.pc = "yield"] \in ThreadRec
<1> DEFINE l1 == [t EXCEPT !.pc = "reduce"]
           l2 == [l1 EXCEPT !.own = lend]
           r1 == [t EXCEPT !.pc = "evaluate"]
           c1 == [t EXCEPT !.pc = "exchange"]
           c2 == [c1 EXCEPT !.id = i]
           c3 == [c2 EXCEPT !.own = FALSE]
<1>1. /\ l1 \in ThreadRec /\ r1 \in ThreadRec /\ c1 \in ThreadRec
      /\ [t EXCEPT !.pc = "yield"] \in ThreadRec
  BY SetField DEF ThreadRec, PC
<1>2. l2 \in ThreadRec /\ c2 \in ThreadRec /\ [r1 EXCEPT !.mask = m] \in ThreadRec
  <2> HIDE DEF l1, r1, c1
  <2>1. l2 \in ThreadRec
    BY <1>1, SetField, Zenon DEF ThreadRec
  <2>2. QED
    BY <1>1, <2>1, SetField DEF ThreadRec
<1>3. c3 \in ThreadRec /\ [l2 EXCEPT !.mask = m] \in ThreadRec
  <2> HIDE DEF l2, c2
  <2>1. FALSE \in BOOLEAN
    OBVIOUS
  <2>2. c3 \in ThreadRec
    BY <1>2, <2>1, SetField, Zenon DEF ThreadRec
  <2>3. QED
    BY <1>2, <2>2, SetField DEF ThreadRec
<1>4. [c3 EXCEPT !.mask = {}] \in ThreadRec
  <2> HIDE DEF c3
  <2>1. QED
    BY <1>3, SetField DEF ThreadRec
<1>5. QED
  BY <1>1, <1>2, <1>3, <1>4 DEF Lent, Reduced, Chosen

LEMMA ProgramFacts ==
  ASSUME TypeInv, NEW c \in Comm
  PROVE  /\ Len(program[c]) \in Nat /\ program[Peer[c]] = program[c] /\ Peer[c] \in Comm
         /\ \A n \in Calls(c) : /\ program[c][n].op \in {"split", "copy"}
                                /\ program[c][n].classes \in SUBSET SUBSET Proc
<1> DEFINE C == [op : {"split", "copy"}, classes : SUBSET SUBSET Proc]
<1>1. program \in [Comm -> Seq(C)] /\ program[Peer[c]] = program[c]
  BY ProgramsAssumption DEF TypeInv
<1> HIDE DEF C
<1>2. program[c] \in Seq(C)
  BY <1>1
<1>3. Len(program[c]) \in Nat /\ \A n \in Calls(c) : program[c][n] \in C
  BY <1>2 DEF Calls
<1>4. Peer[c] \in Comm
  BY ContextIdAssumption
<1>5. QED
  BY <1>1, <1>3, <1>4 DEF C

(***************************************************************************)
(* What the actions do, field by field.  The step of one thread leaves the *)
(* other threads and the other processes alone.                            *)
(***************************************************************************)
Others(p, c) == \A x \in Thread \ {<<p, c>>} : thread'[x] = thread[x]
Elsewhere(p) == \A q \in Proc \ {p} : /\ context_mask'[q] = context_mask[q]
                                      /\ mask_in_use'[q] = mask_in_use[q]
                                      /\ comms'[q] = comms[q]
SideSame == program' = program /\ offered' = offered /\ told' = told

LEMMA Put ==
  ASSUME TypeInv, NEW p, NEW c, <<p, c>> \in Thread, NEW r \in ThreadRec,
         thread' = [thread EXCEPT ![<<p, c>>] = r]
  PROVE  thread' \in [Thread -> ThreadRec] /\ thread'[<<p, c>>] = r /\ Others(p, c)
BY DEF TypeInv, Others

LEMMA Ids ==
  ASSUME TypeInv
  PROVE  /\ MAXID \in Nat /\ \A c \in Comm : context_id(c) \in Nat
         /\ \A p \in Proc : lowestContextId[p] \in Nat
<1>1. MAXID \in Nat
  BY ContextIdAssumption DEF MAXID
<1>2. \A c \in Comm : context_id(c) \in Nat
  <2>1. \A c \in Comm : RecvBit[c] \in Nat
    BY ContextIdAssumption
  <2>2. QED
    BY <2>1 DEF context_id, IdOf
<1>3. QED
  BY <1>1, <1>2 DEF TypeInv

LEMMA ContributeEffect ==
  ASSUME LendInv, NEW p \in Proc, NEW c \in Own[p], Enter(p, c) \/ Retry(p, c)
  PROVE  LET t == thread[<<p, c>>]  u == thread'[<<p, c>>] IN
         /\ TypeInv' /\ Others(p, c) /\ SideSame /\ Elsewhere(p)
         /\ context_mask' = context_mask /\ comms' = comms
         /\ t.pc \in {"idle", "yield"} /\ t.n < Len(program[c])
         /\ u.pc = "reduce" /\ u.n = t.n
         /\ u.own => u.mask = context_mask[p] /\ (mask_in_use[p] => t.own)
         /\ ~u.own => u.mask = {}
         /\ mask_in_use'[p] <=> u.own \/ (mask_in_use[p] /\ ~t.own)
<1> DEFINE t == thread[<<p, c>>]
           x == <<p, c>>
<1>1. x \in Thread /\ c \in Comm /\ TypeInv /\ ThreadInv(p, c) /\ t \in ThreadRec
  BY ThreadPairs DEF LendInv, TypeInv
<1>2. PICK inuse \in BOOLEAN : /\ Contribute(p, c, inuse)
                               /\ inuse <=> mask_in_use[p] /\ ~t.own
  <2>1. CASE Enter(p, c)
    BY <1>1, <2>1 DEF Enter, ThreadInv, TypeInv
  <2>2. CASE Retry(p, c)
    BY <1>1, <2>2 DEF Retry, TypeInv
  <2>3. QED
    BY <2>1, <2>2
<1>3. /\ SideSame /\ context_mask' = context_mask /\ comms' = comms
      /\ t.pc \in {"idle", "yield"} /\ t.n < Len(program[c])
  BY <1>1 DEF Enter, Retry, SideSame, ThreadInv
<1> DEFINE lend == ~inuse /\ context_id(c) <= lowestContextId[p]
           m == IF lend THEN context_mask[p] ELSE {}
<1>4. m \in SUBSET Bit /\ lend \in BOOLEAN
  BY <1>1 DEF TypeInv
<1>5. /\ thread' = [thread EXCEPT ![x] = Lent(t, lend, m)]
      /\ mask_in_use' = [mask_in_use EXCEPT ![p] = inuse \/ lend]
      /\ lowestContextId' = [lowestContextId EXCEPT
                               ![p] = Min({lowestContextId[p], context_id(c)})]
  BY <1>2 DEF Contribute, Lent
<1>6. Min({lowestContextId[p], context_id(c)}) \in {lowestContextId[p], context_id(c)}
  <2>1. lowestContextId[p] \in Nat /\ context_id(c) \in Nat
    BY <1>1, Ids
  <2>2. QED
    BY <2>1 DEF Min
<1>7. /\ mask_in_use' \in [Proc -> BOOLEAN] /\ (mask_in_use'[p] <=> inuse \/ lend)
      /\ \A q \in Proc \ {p} : mask_in_use'[q] = mask_in_use[q]
      /\ lowestContextId' \in [Proc -> {MAXID} \cup {context_id(d) : d \in Comm}]
  <2>1. mask_in_use' \in [Proc -> BOOLEAN] /\ (mask_in_use'[p] <=> inuse \/ lend)
        /\ \A q \in Proc \ {p} : mask_in_use'[q] = mask_in_use[q]
    BY <1>1, <1>4, <1>5 DEF TypeInv
  <2>2. lowestContextId' \in [Proc -> {MAXID} \cup {context_id(d) : d \in Comm}]
    BY <1>1, <1>5, <1>6 DEF TypeInv
  <2>3. QED
    BY <2>1, <2>2
<1> HIDE DEF lend, m, t
<1>8. Lent(t, lend, m) \in ThreadRec
  BY <1>1, <1>4, Records, IdBits DEF ThreadRec, Rec
<1>9. /\ thread' \in [Thread -> ThreadRec] /\ thread'[x] = Lent(t, lend, m)
      /\ Others(p, c)
  BY <1>1, <1>5, <1>8, Put
<1>10. LET u == thread'[x] IN
       u.pc = "reduce" /\ u.n = t.n /\ u.mask = m /\ (u.own <=> lend)
  BY <1>1, <1>4, <1>9 DEF Lent, ThreadRec, Rec
<1>11. TypeInv'
  BY <1>1, <1>3, <1>7, <1>9 DEF TypeInv, SideSame, Calls, CommType
<1>12. Elsewhere(p)
  BY <1>3, <1>7 DEF Elsewhere
<1>13. QED
  BY <1>2, <1>3, <1>7, <1>9, <1>10, <1>11, <1>12 DEF lend, m, t

LEMMA NotFoundEffect ==
  ASSUME LendInv, NEW p \in Proc, NEW c \in Own[p], NotFound(p, c)
  PROVE  LET t == thread[<<p, c>>]  u == thread'[<<p, c>>] IN
         /\ TypeInv' /\ Others(p, c) /\ SideSame /\ Elsewhere(p)
         /\ context_mask' = context_mask /\ comms' = comms
         /\ t.pc = "evaluate" /\ t.mask = {}
         /\ u.pc = "yield" /\ u.n = t.n /\ u.mask = t.mask /\ (u.own <=> t.own)
         /\ mask_in_use' = mask_in_use
<1> DEFINE t == thread[<<p, c>>]
           x == <<p, c>>
<1>1. x \in Thread /\ c \in Comm /\ TypeInv /\ ThreadInv(p, c) /\ t \in ThreadRec
  BY ThreadPairs DEF LendInv, TypeInv
<1>2. /\ SideSame /\ Elsewhere(p) /\ context_mask' = context_mask /\ comms' = comms
      /\ mask_in_use' = mask_in_use /\ lowestContextId' = lowestContextId
      /\ t.pc = "evaluate" /\ t.mask = {}
  BY <1>1 DEF NotFound, SideSame, ThreadInv, Elsewhere
<1>3. thread' = [thread EXCEPT ![x] = [t EXCEPT !.pc = "yield"]]
  BY DEF NotFound
<1> HIDE DEF t
<1>4. [t EXCEPT !.pc = "yield"] \in ThreadRec
  BY <1>1, SetField DEF ThreadRec, PC
<1>5. /\ thread' \in [Thread -> ThreadRec] /\ thread'[x] = [t EXCEPT !.pc = "yield"]
      /\ Others(p, c)
  BY <1>1, <1>3, <1>4, Put
<1>6. LET u == thread'[x] IN
      u.pc = "yield" /\ u.n = t.n /\ u.mask = t.mask /\ (u.own <=> t.own)
  BY <1>1, <1>5 DEF ThreadRec, Rec
<1>7. TypeInv'
  BY <1>1, <1>2, <1>5 DEF TypeInv, SideSame, Calls, CommType
<1>8. QED
  BY <1>2, <1>5, <1>6, <1>7 DEF t

LEMMA TakeBackEffect ==
  ASSUME TypeInv, NEW p \in Proc, NEW c \in Comm, TakeBack(p, c)
  PROVE  /\ mask_in_use' \in [Proc -> BOOLEAN] /\ ~mask_in_use'[p]
         /\ \A q \in Proc \ {p} : mask_in_use'[q] = mask_in_use[q]
         /\ lowestContextId' \in [Proc -> {MAXID} \cup {context_id(d) : d \in Comm}]
<1>1. /\ mask_in_use' \in [Proc -> BOOLEAN] /\ ~mask_in_use'[p]
      /\ \A q \in Proc \ {p} : mask_in_use'[q] = mask_in_use[q]
  BY DEF TypeInv, TakeBack
<1>2. lowestContextId' \in [Proc -> {MAXID} \cup {context_id(d) : d \in Comm}]
  BY DEF TypeInv, TakeBack
<1>3. QED
  BY <1>1, <1>2

Returned(t) == [pc |-> "idle", n |-> t.n + 1, own |-> FALSE, mask |-> {}, id |-> 0]

LEMMA ReturnEffect ==
  ASSUME TypeInv, NEW p \in Proc, NEW c \in Own[p], Return(p, c)
  PROVE  LET t == thread[<<p, c>>]  u == thread'[<<p, c>>] IN
         /\ thread' \in [Thread -> ThreadRec] /\ Others(p, c)
         /\ u.pc = "idle" /\ u.n = t.n + 1 /\ ~u.own /\ u.mask = {}
<1> DEFINE t == thread[<<p, c>>]
           x == <<p, c>>
<1>1. x \in Thread /\ c \in Comm /\ t \in ThreadRec
  BY ThreadPairs DEF TypeInv
<1>2. thread' = [thread EXCEPT ![x] = Returned(t)]
  BY DEF Return, Returned
<1>3. 0 \in Id
  <2>1. 0 \in Bit
    BY <1>1, ContextIdAssumption DEF Bit
  <2>2. QED
    BY <2>1 DEF Id, IdOf
<1> HIDE DEF t
<1>4. t.n + 1 \in Nat
  BY <1>1 DEF ThreadRec, Rec
<1>5. Returned(t) \in ThreadRec
  BY <1>3, <1>4 DEF Returned, ThreadRec, Rec, PC
<1>6. thread' \in [Thread -> ThreadRec] /\ thread'[x] = Returned(t) /\ Others(p, c)
  BY <1>1, <1>2, <1>5, Put
<1>7. QED
  BY <1>6 DEF Returned, t

LEMMA NewCommEffect ==
  ASSUME TypeInv, NEW p \in Proc, NEW c \in Own[p], ThreadInv(p, c),
         thread[<<p, c>>].pc # "idle", NEW send \in Id, NEW recv \in Id
  PROVE  LET k == NewComm(p, c, send, recv) IN
         /\ k \in CommType /\ k.from = <<c, thread[<<p, c>>].n + 1>>
         /\ k.context_id = send /\ k.recvcontext_id = recv
         /\ thread[<<p, c>>].n + 1 \in Calls(c)
         /\ Build(p, c, send, recv) =>
              /\ comms' \in [Proc -> SUBSET CommType] /\ comms'[p] = comms[p] \cup {k}
              /\ \A q \in Proc \ {p} : comms'[q] = comms[q]
<1> DEFINE n == thread[<<p, c>>].n + 1
           cl == UNION Class(p, Call(p, c))
           k == NewComm(p, c, send, recv)
<1>1. n \in Calls(c) /\ c \in Comm
  BY ThreadPairs, ProgramFacts DEF ThreadInv, TypeInv, ThreadRec, Rec, Calls
<1>2. cl \in SUBSET Proc
  BY <1>1, ProgramFacts DEF Class, Call
<1>3. k = [from |-> <<c, n>>, class |-> cl, context_id |-> send, recvcontext_id |-> recv]
  BY DEF NewComm
<1> HIDE DEF k, cl
<1>4. k \in CommType
  <2>1. <<c, n>> \in UNION {{d} \X (1..Len(program[d])) : d \in Comm}
    BY <1>1 DEF Calls
  <2>2. QED
    BY <1>2, <1>3, <2>1 DEF CommType
<1>5. Build(p, c, send, recv) => comms' = [comms EXCEPT ![p] = @ \cup {k}]
  BY DEF Build, k
<1>6. Build(p, c, send, recv) =>
              /\ comms' \in [Proc -> SUBSET CommType] /\ comms'[p] = comms[p] \cup {k}
              /\ \A q \in Proc \ {p} : comms'[q] = comms[q]
  BY <1>4, <1>5 DEF TypeInv
<1>7. QED
  BY <1>1, <1>3, <1>4, <1>6 DEF k

LEMMA FoundIntraEffect ==
  ASSUME LendInv, NEW p \in Proc, NEW c \in Own[p], FoundIntra(p, c)
  PROVE  LET t == thread[<<p, c>>]  u == thread'[<<p, c>>]
             bit == Find_context_bit(p, t.mask)
             k == NewComm(p, c, IdOf(bit), IdOf(bit)) IN
         /\ TypeInv' /\ Others(p, c) /\ SideSame /\ Elsewhere(p)
         /\ ~Inter(c) /\ t.pc = "evaluate" /\ t.own /\ t.mask # {} /\ bit \in t.mask
         /\ u.pc = "idle" /\ u.n = t.n + 1 /\ ~u.own /\ u.mask = {} /\ ~mask_in_use'[p]
         /\ \/ /\ Class(p, Call(p, c)) # {}
               /\ context_mask'[p] = context_mask[p] \ {bit}
               /\ comms'[p] = comms[p] \cup {k}
            \/ /\ Class(p, Call(p, c)) = {}
               /\ context_mask'[p] = context_mask[p] /\ comms'[p] = comms[p]
<1> DEFINE t == thread[<<p, c>>]
           x == <<p, c>>
           bit == Find_context_bit(p, t.mask)
           k == NewComm(p, c, IdOf(bit), IdOf(bit))
<1>1. x \in Thread /\ c \in Comm /\ TypeInv /\ ThreadInv(p, c) /\ t \in ThreadRec
  BY ThreadPairs DEF LendInv, TypeInv
<1>2. /\ SideSame /\ ~Inter(c) /\ t.pc = "evaluate" /\ t.own /\ t.mask # {}
      /\ TakeBack(p, c) /\ Return(p, c)
  BY DEF FoundIntra, SideSame
<1>3. bit \in t.mask /\ bit \in context_mask[p] /\ bit \in Bit /\ IdOf(bit) \in Id
  <2>1. t.mask \in SUBSET Bit
    BY <1>1 DEF ThreadRec, Rec
  <2>2. QED
    BY <1>1, <1>2, <2>1, FindBit, IdBits DEF ThreadInv
<1>4. /\ mask_in_use' \in [Proc -> BOOLEAN] /\ ~mask_in_use'[p]
      /\ \A q \in Proc \ {p} : mask_in_use'[q] = mask_in_use[q]
      /\ lowestContextId' \in [Proc -> {MAXID} \cup {context_id(d) : d \in Comm}]
  BY <1>1, <1>2, TakeBackEffect
<1>5. LET u == thread'[x] IN
      /\ thread' \in [Thread -> ThreadRec] /\ Others(p, c)
      /\ u.pc = "idle" /\ u.n = t.n + 1 /\ ~u.own /\ u.mask = {}
  BY <1>1, <1>2, ReturnEffect
<1>6. /\ context_mask' \in [Proc -> SUBSET Bit] /\ comms' \in [Proc -> SUBSET CommType]
      /\ \A q \in Proc \ {p} : context_mask'[q] = context_mask[q] /\ comms'[q] = comms[q]
      /\ \/ /\ Class(p, Call(p, c)) # {}
            /\ context_mask'[p] = context_mask[p] \ {bit}
            /\ comms'[p] = comms[p] \cup {k}
         \/ /\ Class(p, Call(p, c)) = {}
            /\ context_mask'[p] = context_mask[p] /\ comms'[p] = comms[p]
  <2>1. CASE /\ Class(p, Call(p, c)) # {}
             /\ context_mask' = [context_mask EXCEPT ![p] = @ \ {bit}]
             /\ Build(p, c, IdOf(bit), IdOf(bit))
    <3>1. t.pc # "idle"
      BY <1>2
    <3>2. /\ comms' \in [Proc -> SUBSET CommType] /\ comms'[p] = comms[p] \cup {k}
          /\ \A q \in Proc \ {p} : comms'[q] = comms[q]
      BY <1>1, <1>3, <2>1, <3>1, NewCommEffect
    <3>3. /\ context_mask' \in [Proc -> SUBSET Bit]
          /\ context_mask'[p] = context_mask[p] \ {bit}
          /\ \A q \in Proc \ {p} : context_mask'[q] = context_mask[q]
      BY <1>1, <2>1 DEF TypeInv
    <3>4. QED
      BY <2>1, <3>2, <3>3
  <2>2. CASE /\ Class(p, Call(p, c)) = {}
             /\ context_mask' = [context_mask EXCEPT ![p] = @ \cup {bit}]
             /\ comms' = comms
    <3>1. context_mask[p] \cup {bit} = context_mask[p]
      BY <1>3
    <3>2. context_mask' = context_mask
      BY <1>1, <2>2, <3>1 DEF TypeInv
    <3>3. QED
      BY <1>1, <2>2, <3>2 DEF TypeInv
  <2>3. QED
    BY <2>1, <2>2 DEF FoundIntra
<1>7. TypeInv'
  <2>1. CommType' = CommType /\ (\A d : Calls(d)' = Calls(d)) /\ offered' = offered /\ told' = told
    BY <1>2 DEF SideSame, CommType, Calls
  <2>2. QED
    BY <1>1, <1>2, <1>4, <1>5, <1>6, <2>1 DEF TypeInv, SideSame
<1>8. Elsewhere(p)
  BY <1>4, <1>6 DEF Elsewhere
<1>9. QED
  BY <1>2, <1>3, <1>4, <1>5, <1>6, <1>7, <1>8

LEMMA FoundInterEffect ==
  ASSUME LendInv, NEW p \in Proc, NEW c \in Own[p], FoundInter(p, c)
  PROVE  LET t == thread[<<p, c>>]  u == thread'[<<p, c>>]
             bit == Find_context_bit(p, t.mask) IN
         /\ TypeInv' /\ Others(p, c) /\ program' = program /\ told' = told
         /\ Elsewhere(p) /\ comms' = comms
         /\ Inter(c) /\ t.pc = "evaluate" /\ t.own /\ t.mask # {} /\ bit \in t.mask
         /\ u.pc = "exchange" /\ u.n = t.n /\ ~u.own /\ u.mask = {} /\ u.id = IdOf(bit)
         /\ ~mask_in_use'[p] /\ context_mask'[p] = context_mask[p] \ {bit}
         /\ \A d \in Comm : \A n \in Calls(d) :
              \/ offered'[d][n] = offered[d][n]
              \/ d = c /\ n = t.n + 1 /\ offered'[d][n] = IdOf(bit)
<1> DEFINE t == thread[<<p, c>>]
           x == <<p, c>>
           bit == Find_context_bit(p, t.mask)
           n == t.n + 1
<1>1. x \in Thread /\ c \in Comm /\ TypeInv /\ ThreadInv(p, c) /\ t \in ThreadRec
  BY ThreadPairs DEF LendInv, TypeInv
<1>2. /\ program' = program /\ told' = told /\ comms' = comms
      /\ Inter(c) /\ t.pc = "evaluate" /\ t.own /\ t.mask # {} /\ TakeBack(p, c)
      /\ context_mask' = [context_mask EXCEPT ![p] = @ \ {bit}]
  BY DEF FoundInter
<1>3. bit \in t.mask /\ bit \in Bit /\ IdOf(bit) \in Id
  <2>1. t.mask \in SUBSET Bit
    BY <1>1 DEF ThreadRec, Rec
  <2>2. QED
    BY <1>1, <1>2, <2>1, FindBit, IdBits
<1>4. /\ mask_in_use' \in [Proc -> BOOLEAN] /\ ~mask_in_use'[p]
      /\ \A q \in Proc \ {p} : mask_in_use'[q] = mask_in_use[q]
      /\ lowestContextId' \in [Proc -> {MAXID} \cup {context_id(d) : d \in Comm}]
  BY <1>1, <1>2, TakeBackEffect
<1>5. LET u == thread'[x] IN
      /\ thread' \in [Thread -> ThreadRec] /\ Others(p, c)
      /\ u.pc = "exchange" /\ u.n = t.n /\ ~u.own /\ u.mask = {} /\ u.id = IdOf(bit)
  <2>1. thread' = [thread EXCEPT ![x] = Chosen(t, IdOf(bit))]
    BY DEF FoundInter, Chosen
  <2> HIDE DEF t, bit
  <2>2. Chosen(t, IdOf(bit)) \in ThreadRec
    BY <1>1, <1>3, Records
  <2>3. /\ thread' \in [Thread -> ThreadRec] /\ thread'[x] = Chosen(t, IdOf(bit))
        /\ Others(p, c)
    BY <1>1, <2>1, <2>2, Put
  <2>4. QED
    BY <1>1, <2>3 DEF Chosen, ThreadRec, Rec
<1>6. /\ context_mask' \in [Proc -> SUBSET Bit] /\ context_mask'[p] = context_mask[p] \ {bit}
      /\ \A q \in Proc \ {p} : context_mask'[q] = context_mask[q]
  BY <1>1, <1>2 DEF TypeInv
<1>7. /\ offered' = [d \in Comm |-> offered'[d]]
      /\ \A d \in Comm : offered'[d] \in [Calls(d) -> Id]
      /\ \A d \in Comm : \A m \in Calls(d) :
           \/ offered'[d][m] = offered[d][m]
           \/ d = c /\ m = n /\ offered'[d][m] = IdOf(bit)
  <2>1. n \in Calls(c) /\ IdOf(bit) \in Id
    BY <1>1, <1>2, <1>3, ProgramFacts DEF ThreadInv, ThreadRec, Rec, Calls
  <2> DEFINE i == IdOf(bit)
             row == [offered[c] EXCEPT ![n] = i]
  <2>2. offered' = offered \/ offered' = [offered EXCEPT ![c] = row]
    BY DEF FoundInter
  <2>3. offered = [d \in Comm |-> offered[d]] /\ \A d \in Comm : offered[d] \in [Calls(d) -> Id]
    BY <1>1 DEF TypeInv
  <2> HIDE DEF n, i, bit
  <2>4. i \in Id
    BY <2>1 DEF i
  <2>5. row \in [Calls(c) -> Id] /\ \A m \in Calls(c) : row[m] = offered[c][m] \/ (m = n /\ row[m] = i)
    BY <1>1, <2>1, <2>3, <2>4
  <2> HIDE DEF row
  <2>6. CASE offered' = [offered EXCEPT ![c] = row]
    <3>1. /\ offered'[c] = row /\ \A d \in Comm \ {c} : offered'[d] = offered[d]
          /\ offered' = [d \in Comm |-> offered'[d]]
      BY <1>1, <2>3, <2>6
    <3>2. QED
      BY <2>3, <2>5, <3>1 DEF i
  <2>7. QED
    BY <2>2, <2>3, <2>6
<1>8. TypeInv'
  <2>1. CommType' = CommType /\ (\A d : Calls(d)' = Calls(d))
    BY <1>2 DEF CommType, Calls
  <2>2. QED
    BY <1>1, <1>2, <1>4, <1>5, <1>6, <1>7, <2>1 DEF TypeInv
<1>9. Elsewhere(p)
  BY <1>2, <1>4, <1>6 DEF Elsewhere
<1>10. QED
  BY <1>2, <1>3, <1>4, <1>5, <1>6, <1>7, <1>8, <1>9

LEMMA ExchangeEffect ==
  ASSUME LendInv, NEW p \in Proc, NEW c \in Own[p], Exchange(p, c)
  PROVE  LET n == thread[<<p, c>>].n + 1 IN
         /\ TypeInv' /\ thread' = thread /\ program' = program /\ offered' = offered
         /\ context_mask' = context_mask /\ mask_in_use' = mask_in_use /\ comms' = comms
         /\ told[c][n] = 0 /\ told'[c][n] = offered[Peer[c]][n] /\ told'[c][n] # 0
         /\ n \in Calls(c)
         /\ \A d \in Comm : \A m \in Calls(d) : told'[d][m] = told[d][m] \/ (d = c /\ m = n)
<1> DEFINE t == thread[<<p, c>>]
           n == t.n + 1
           i == offered[Peer[c]][n]
           row == [told[c] EXCEPT ![n] = i]
<1>1. <<p, c>> \in Thread /\ c \in Comm /\ TypeInv /\ ThreadInv(p, c) /\ t \in ThreadRec
  BY ThreadPairs DEF LendInv, TypeInv
<1>2. /\ thread' = thread /\ program' = program /\ offered' = offered
      /\ context_mask' = context_mask /\ mask_in_use' = mask_in_use /\ comms' = comms
      /\ lowestContextId' = lowestContextId
      /\ told[c][n] = 0 /\ i # 0 /\ told' = [told EXCEPT ![c] = row] /\ t.pc = "exchange"
  BY DEF Exchange
<1>3. n \in Calls(c) /\ Calls(Peer[c]) = Calls(c) /\ Peer[c] \in Comm
  BY <1>1, <1>2, ProgramFacts DEF ThreadInv, ThreadRec, Rec, Calls
<1>4. i \in Id
  BY <1>1, <1>3 DEF TypeInv
<1>5. told = [d \in Comm |-> told[d]] /\ \A d \in Comm : told[d] \in [Calls(d) -> Id]
  BY <1>1 DEF TypeInv
<1> HIDE DEF t, n, i
<1>6. /\ row \in [Calls(c) -> Id] /\ row[n] = i
      /\ \A m \in Calls(c) : row[m] = told[c][m] \/ m = n
  BY <1>1, <1>3, <1>4, <1>5
<1> HIDE DEF row
<1>7. /\ told'[c] = row /\ \A d \in Comm \ {c} : told'[d] = told[d]
      /\ told' = [d \in Comm |-> told'[d]]
  BY <1>1, <1>2, <1>5
<1>8. /\ \A d \in Comm : told'[d] \in [Calls(d) -> Id]
      /\ \A d \in Comm : \A m \in Calls(d) : told'[d][m] = told[d][m] \/ (d = c /\ m = n)
      /\ told'[c][n] = i
  BY <1>5, <1>6, <1>7
<1>9. TypeInv'
  <2>1. CommType' = CommType /\ (\A d : Calls(d)' = Calls(d))
    BY <1>2 DEF CommType, Calls
  <2>2. QED
    BY <1>1, <1>2, <1>7, <1>8, <2>1 DEF TypeInv
<1>10. QED
  BY <1>2, <1>3, <1>8, <1>9 DEF n, t, i

(***************************************************************************)
(* The intercommunicator is for a class that has processes on both sides.  *)
(***************************************************************************)
Matched(p, c) == \E k \in Class(p, Call(p, c)) : k \cap Members[Peer[c]] # {}

LEMMA CreateInterEffect ==
  ASSUME LendInv, NEW p \in Proc, NEW c \in Own[p], CreateInter(p, c)
  PROVE  LET t == thread[<<p, c>>]  u == thread'[<<p, c>>]
             theirs == told[c][t.n + 1] IN
         /\ TypeInv' /\ Others(p, c) /\ SideSame /\ Elsewhere(p)
         /\ t.pc = "exchange" /\ theirs # 0 /\ mask_in_use' = mask_in_use
         /\ u.pc = "idle" /\ u.n = t.n + 1 /\ ~u.own /\ u.mask = {}
         /\ \/ /\ Call(p, c).op = "copy" /\ context_mask'[p] = context_mask[p]
               /\ comms'[p] = comms[p] \cup {NewComm(p, c, theirs, t.id)}
            \/ /\ Call(p, c).op = "split" /\ Matched(p, c) /\ context_mask'[p] = context_mask[p]
               /\ comms'[p] = comms[p] \cup {NewComm(p, c, t.id, theirs)}
            \/ /\ Call(p, c).op = "split" /\ ~Matched(p, c) /\ comms'[p] = comms[p]
               /\ context_mask'[p] = context_mask[p] \cup {BitOf(t.id)}
<1> DEFINE t == thread[<<p, c>>]
           theirs == told[c][t.n + 1]
           x == <<p, c>>
           copy == NewComm(p, c, theirs, t.id)
           split == NewComm(p, c, t.id, theirs)
<1>1. x \in Thread /\ c \in Comm /\ TypeInv /\ ThreadInv(p, c) /\ t \in ThreadRec
  BY ThreadPairs DEF LendInv, TypeInv
<1>2. /\ SideSame /\ t.pc = "exchange" /\ theirs # 0 /\ Return(p, c)
      /\ mask_in_use' = mask_in_use /\ lowestContextId' = lowestContextId
  BY DEF CreateInter, SideSame
<1>3. t.n + 1 \in Calls(c) /\ theirs \in Id /\ t.id \in Id
  <2>1. t.n + 1 \in Calls(c) /\ t.id \in Id
    BY <1>1, <1>2, ProgramFacts DEF ThreadInv, ThreadRec, Rec, Calls
  <2>2. QED
    BY <1>1, <2>1 DEF TypeInv
<1>4. LET u == thread'[x] IN
      /\ thread' \in [Thread -> ThreadRec] /\ Others(p, c)
      /\ u.pc = "idle" /\ u.n = t.n + 1 /\ ~u.own /\ u.mask = {}
  BY <1>1, <1>2, ReturnEffect
<1>5. /\ context_mask' \in [Proc -> SUBSET Bit] /\ comms' \in [Proc -> SUBSET CommType]
      /\ \A q \in Proc \ {p} : context_mask'[q] = context_mask[q] /\ comms'[q] = comms[q]
      /\ \/ /\ Call(p, c).op = "copy" /\ context_mask'[p] = context_mask[p]
            /\ comms'[p] = comms[p] \cup {copy}
         \/ /\ Call(p, c).op = "split" /\ Matched(p, c) /\ context_mask'[p] = context_mask[p]
            /\ comms'[p] = comms[p] \cup {split}
         \/ /\ Call(p, c).op = "split" /\ ~Matched(p, c) /\ comms'[p] = comms[p]
            /\ context_mask'[p] = context_mask[p] \cup {BitOf(t.id)}
  <2>1. t.pc # "idle"
    BY <1>2
  <2>2. CASE Call(p, c).op = "copy" /\ Build(p, c, theirs, t.id) /\ context_mask' = context_mask
    <3>1. /\ comms' \in [Proc -> SUBSET CommType] /\ comms'[p] = comms[p] \cup {copy}
          /\ \A q \in Proc \ {p} : comms'[q] = comms[q]
      BY <1>1, <1>3, <2>1, <2>2, NewCommEffect
    <3>2. QED
      BY <1>1, <2>2, <3>1 DEF TypeInv
  <2>3. CASE /\ Call(p, c).op = "split" /\ Matched(p, c) /\ Build(p, c, t.id, theirs)
             /\ context_mask' = context_mask
    <3>1. /\ comms' \in [Proc -> SUBSET CommType] /\ comms'[p] = comms[p] \cup {split}
          /\ \A q \in Proc \ {p} : comms'[q] = comms[q]
      BY <1>1, <1>3, <2>1, <2>3, NewCommEffect
    <3>2. QED
      BY <1>1, <2>3, <3>1 DEF TypeInv
  <2>4. CASE /\ Call(p, c).op = "split" /\ ~Matched(p, c) /\ comms' = comms
             /\ context_mask' = [context_mask EXCEPT ![p] = @ \cup {BitOf(t.id)}]
    <3>1. BitOf(t.id) \in Bit
      BY <1>3, IdBits
    <3>2. /\ context_mask' \in [Proc -> SUBSET Bit]
          /\ context_mask'[p] = context_mask[p] \cup {BitOf(t.id)}
          /\ \A q \in Proc \ {p} : context_mask'[q] = context_mask[q]
      BY <1>1, <2>4, <3>1 DEF TypeInv
    <3>3. QED
      BY <1>1, <2>4, <3>2 DEF TypeInv
  <2>5. QED
    BY <2>2, <2>3, <2>4 DEF CreateInter, Matched
<1>6. TypeInv'
  <2>1. CommType' = CommType /\ (\A d : Calls(d)' = Calls(d)) /\ offered' = offered /\ told' = told
    BY <1>2 DEF SideSame, CommType, Calls
  <2>2. QED
    BY <1>1, <1>2, <1>4, <1>5, <2>1 DEF TypeInv, SideSame
<1>7. Elsewhere(p)
  BY <1>2, <1>5 DEF Elsewhere
<1>8. QED
  BY <1>2, <1>4, <1>5, <1>6, <1>7

(***************************************************************************)
(* The and of the masks.                                                   *)
(***************************************************************************)
And(c) == {b \in Bit : \A p \in Members[c] : b \in thread[<<p, c>>].mask}

LEMMA AllreduceEffect ==
  ASSUME LendInv, NEW c \in Comm, Allreduce(c)
  PROVE  /\ TypeInv' /\ SideSame /\ context_mask' = context_mask /\ comms' = comms
         /\ mask_in_use' = mask_in_use
         /\ \A x \in Thread : x[2] # c => thread'[x] = thread[x]
         /\ \A p \in Members[c] :
              LET t == thread[<<p, c>>]  u == thread'[<<p, c>>] IN
              /\ t.pc = "reduce" /\ u.pc = "evaluate" /\ u.n = t.n /\ (u.own <=> t.own)
              /\ u.mask = And(c) /\ And(c) \subseteq t.mask
<1> DEFINE m(x) == {b \in thread[x].mask : \A p \in Members[c] : b \in thread[<<p, c>>].mask}
<1>1. /\ SideSame /\ context_mask' = context_mask /\ comms' = comms
      /\ mask_in_use' = mask_in_use /\ lowestContextId' = lowestContextId
      /\ \A p \in Members[c] : thread[<<p, c>>].pc = "reduce"
      /\ thread' = [x \in Thread |-> IF x[2] # c THEN thread[x] ELSE Reduced(thread[x], m(x))]
  BY DEF Allreduce, SideSame, Reduced
<1>2. TypeInv /\ \A x \in Thread : thread[x] \in ThreadRec
  BY DEF LendInv, TypeInv
<1>3. \A p \in Members[c] : <<p, c>> \in Thread /\ m(<<p, c>>) = And(c) /\ And(c) \subseteq thread[<<p, c>>].mask
  <2> SUFFICES ASSUME NEW p \in Members[c]
      PROVE <<p, c>> \in Thread /\ m(<<p, c>>) = And(c) /\ And(c) \subseteq thread[<<p, c>>].mask
    OBVIOUS
  <2>1. <<p, c>> \in Thread
    BY ThreadPairs
  <2>2. thread[<<p, c>>].mask \in SUBSET Bit
    BY <1>2, <2>1 DEF ThreadRec, Rec
  <2>3. QED
    BY <2>1, <2>2 DEF And
<1>4. \A x \in Thread : Reduced(thread[x], m(x)) \in ThreadRec
  <2> SUFFICES ASSUME NEW x \in Thread PROVE Reduced(thread[x], m(x)) \in ThreadRec
    OBVIOUS
  <2> DEFINE t == thread[x]
             s == m(x)
  <2>1. t \in ThreadRec
    BY <1>2
  <2>2. s \in SUBSET Bit
    BY <2>1 DEF ThreadRec, Rec
  <2> HIDE DEF t, s
  <2>3. Reduced(t, s) \in ThreadRec
    <3>1. t.id \in Id
      BY <2>1 DEF ThreadRec, Rec
    <3>2. FALSE \in BOOLEAN
      OBVIOUS
    <3>3. QED
      BY <2>1, <2>2, <3>1, <3>2, Records
  <2>4. QED
    BY <2>3 DEF t, s
<1> HIDE DEF m
<1>5. /\ \A x \in Thread : x[2] # c => thread'[x] = thread[x]
      /\ \A p \in Members[c] : thread'[<<p, c>>] = Reduced(thread[<<p, c>>], And(c))
  BY <1>1, <1>3
<1>6. thread' \in [Thread -> ThreadRec]
  BY <1>1, <1>2, <1>4
<1>7. \A p \in Members[c] :
        LET t == thread[<<p, c>>]  u == thread'[<<p, c>>] IN
        u.pc = "evaluate" /\ u.n = t.n /\ (u.own <=> t.own) /\ u.mask = And(c)
  BY <1>2, <1>3, <1>5 DEF Reduced, ThreadRec, Rec
<1>8. TypeInv'
  BY <1>1, <1>2, <1>6 DEF TypeInv, SideSame, Calls, CommType
<1>9. QED
  BY <1>1, <1>3, <1>5, <1>7, <1>8

LEMMA FreeEffect ==
  ASSUME LendInv, NEW p \in Proc, NEW k \in comms[p], Comm_free(p, k)
  PROVE  /\ TypeInv' /\ SideSame /\ thread' = thread /\ mask_in_use' = mask_in_use
         /\ Elsewhere(p) /\ comms'[p] = comms[p] \ {k}
         /\ context_mask'[p] = context_mask[p] \cup {BitOf(k.recvcontext_id)}
<1>1. /\ SideSame /\ thread' = thread /\ mask_in_use' = mask_in_use
      /\ lowestContextId' = lowestContextId
  BY DEF Comm_free, SideSame
<1>2. TypeInv /\ k \in CommType /\ k.recvcontext_id \in Id
  <2>1. TypeInv /\ k \in CommType
    BY DEF LendInv, TypeInv
  <2>2. QED
    BY <2>1 DEF CommType
<1>3. BitOf(k.recvcontext_id) \in Bit
  BY <1>2, IdBits
<1>4. /\ context_mask' \in [Proc -> SUBSET Bit]
      /\ context_mask'[p] = context_mask[p] \cup {BitOf(k.recvcontext_id)}
      /\ \A q \in Proc \ {p} : context_mask'[q] = context_mask[q]
  BY <1>2, <1>3 DEF TypeInv, Comm_free
<1>5. /\ comms' \in [Proc -> SUBSET CommType] /\ comms'[p] = comms[p] \ {k}
      /\ \A q \in Proc \ {p} : comms'[q] = comms[q]
  BY <1>2 DEF TypeInv, Comm_free
<1>6. TypeInv'
  <2>1. CommType' = CommType /\ (\A d : Calls(d)' = Calls(d)) /\ offered' = offered /\ told' = told
    BY <1>1 DEF SideSame, CommType, Calls
  <2>2. QED
    BY <1>1, <1>2, <1>4, <1>5, <2>1 DEF TypeInv, SideSame
<1>7. QED
  BY <1>1, <1>4, <1>5, <1>6 DEF Elsewhere

-----------------------------------------------------------------------------
(***************************************************************************)
(* LendInv is inductive.                                                   *)
(***************************************************************************)
LEMMA LendInit == Init => LendInv
<1> SUFFICES ASSUME Init PROVE LendInv
  OBVIOUS
<1>1. \A c \in Comm : 0 \in Id
  <2>1. \A c \in Comm : 0 \in Bit
    BY ContextIdAssumption DEF Bit
  <2>2. QED
    BY <2>1 DEF Id, IdOf
<1>2. thread \in [Thread -> ThreadRec]
  <2> DEFINE r == [pc |-> "idle", n |-> 0, own |-> FALSE, mask |-> {}, id |-> 0]
  <2>1. \A x \in Thread : r \in ThreadRec
    BY <1>1, ThreadPairs DEF ThreadRec, Rec, PC
  <2> HIDE DEF r
  <2>2. thread = [x \in Thread |-> r]
    BY DEF Init, r
  <2>3. QED
    BY <2>1, <2>2
<1>3. /\ offered = [c \in Comm |-> offered[c]] /\ told = [c \in Comm |-> told[c]]
      /\ \A c \in Comm : offered[c] \in [Calls(c) -> Id] /\ told[c] \in [Calls(c) -> Id]
  BY <1>1 DEF Init, Calls
<1>4. TypeInv
  <2>1. context_mask \in [Proc -> SUBSET Bit] /\ mask_in_use \in [Proc -> BOOLEAN]
    BY DEF Init
  <2>2. lowestContextId \in [Proc -> {MAXID} \cup {context_id(c) : c \in Comm}]
    BY DEF Init
  <2>3. program \in Programs /\ comms \in [Proc -> SUBSET CommType]
    BY DEF Init
  <2>4. QED
    BY <1>2, <1>3, <2>1, <2>2, <2>3 DEF TypeInv
<1>5. \A x \in Thread : LET t == thread[x] IN t.pc = "idle" /\ t.n = 0 /\ ~t.own /\ t.mask = {}
  BY DEF Init
<1>6. ASSUME NEW p \in Proc, NEW c \in Own[p] PROVE ThreadInv(p, c)
  <2>1. <<p, c>> \in Thread /\ c \in Comm
    BY ThreadPairs
  <2>2. Len(program[c]) \in Nat
    BY <1>4, <2>1, ProgramFacts
  <2>3. QED
    BY <1>5, <2>1, <2>2 DEF ThreadInv
<1>7. ASSUME NEW p \in Proc PROVE OwnInv(p)
  <2>1. \A c \in Own[p] : ~thread[<<p, c>>].own
    BY <1>5, ThreadPairs
  <2>2. ~mask_in_use[p]
    BY DEF Init
  <2>3. QED
    BY <2>1, <2>2 DEF OwnInv
<1>8. QED
  BY <1>4, <1>6, <1>7 DEF LendInv

LEMMA OneThread ==
  ASSUME LendInv, NEW p \in Proc, NEW c \in Own[p],
         TypeInv', Others(p, c), Elsewhere(p), program' = program,
         ThreadInv(p, c)', OwnInv(p)',
         \A d \in Own[p] \ {c} : thread[<<p, d>>].mask \subseteq context_mask'[p]
  PROVE  LendInv'
<1>1. ASSUME NEW q \in Proc, NEW d \in Own[q] PROVE ThreadInv(q, d)'
  <2>1. CASE <<q, d>> = <<p, c>>
    BY <2>1
  <2>2. CASE <<q, d>> # <<p, c>>
    <3>1. thread'[<<q, d>>] = thread[<<q, d>>]
      BY <2>2, ThreadPairs DEF Others
    <3>2. ThreadInv(q, d)
      BY DEF LendInv
    <3>3. thread[<<q, d>>].mask \subseteq context_mask'[q]
      BY <2>2, <3>2 DEF ThreadInv, Elsewhere
    <3>4. QED
      BY <3>1, <3>2, <3>3 DEF ThreadInv
  <2>3. QED
    BY <2>1, <2>2
<1>2. ASSUME NEW q \in Proc \ {p} PROVE OwnInv(q)'
  <2>1. \A d \in Own[q] : thread'[<<q, d>>] = thread[<<q, d>>]
    BY ThreadPairs DEF Others
  <2>2. OwnInv(q) /\ mask_in_use'[q] = mask_in_use[q]
    BY DEF LendInv, Elsewhere
  <2>3. QED
    BY <2>1, <2>2 DEF OwnInv
<1>3. QED
  BY <1>1, <1>2 DEF LendInv

LEMMA LendStep == LendInv /\ [Next]_vars => LendInv'
<1> SUFFICES ASSUME LendInv, [Next]_vars PROVE LendInv'
  OBVIOUS
<1>1. TypeInv
  BY DEF LendInv
<1>2. ASSUME NEW p \in Proc, NEW c \in Own[p], Step(p, c) PROVE LendInv'
  <2> DEFINE t == thread[<<p, c>>]
             u == thread'[<<p, c>>]
  <2>1. /\ ThreadInv(p, c) /\ OwnInv(p) /\ t \in ThreadRec /\ <<p, c>> \in Thread /\ c \in Comm
        /\ \A d \in Own[p] : ThreadInv(p, d)
    BY ThreadPairs DEF LendInv, TypeInv
  <2>2. /\ t.n \in Nat /\ Len(program[c]) \in Nat
        /\ \A d \in Own[p] \ {c} : t.own => ~thread[<<p, d>>].own
        /\ \A d \in Own[p] : ~thread[<<p, d>>].own => thread[<<p, d>>].mask = {}
    BY <2>1, <1>1, ProgramFacts DEF ThreadRec, Rec, OwnInv, ThreadInv
  <2>3. ASSUME Others(p, c)
        PROVE \A d \in Own[p] \ {c} : thread'[<<p, d>>] = thread[<<p, d>>]
    BY <2>3, ThreadPairs DEF Others
  <2>4. CASE Enter(p, c) \/ Retry(p, c)
    <3>1. /\ TypeInv' /\ Others(p, c) /\ SideSame /\ Elsewhere(p) /\ context_mask' = context_mask
          /\ t.n < Len(program[c]) /\ u.pc = "reduce" /\ u.n = t.n
          /\ u.own => u.mask = context_mask[p] /\ (mask_in_use[p] => t.own)
          /\ ~u.own => u.mask = {}
          /\ mask_in_use'[p] <=> u.own \/ (mask_in_use[p] /\ ~t.own)
      BY <2>4, ContributeEffect
    <3>2. ThreadInv(p, c)'
      BY <2>2, <3>1 DEF ThreadInv, SideSame
    <3>3. OwnInv(p)'
      BY <2>1, <2>2, <2>3, <3>1 DEF OwnInv
    <3>4. \A d \in Own[p] \ {c} : thread[<<p, d>>].mask \subseteq context_mask'[p]
      BY <2>1, <3>1 DEF ThreadInv
    <3>5. QED
      BY <3>1, <3>2, <3>3, <3>4, OneThread DEF SideSame
  <2>5. CASE NotFound(p, c)
    <3>1. /\ TypeInv' /\ Others(p, c) /\ SideSame /\ Elsewhere(p) /\ context_mask' = context_mask
          /\ t.pc = "evaluate" /\ u.pc = "yield" /\ u.n = t.n /\ u.mask = t.mask
          /\ (u.own <=> t.own) /\ mask_in_use' = mask_in_use
      BY <2>5, NotFoundEffect
    <3>2. ThreadInv(p, c)'
      BY <2>1, <2>2, <3>1 DEF ThreadInv, SideSame
    <3>3. OwnInv(p)'
      BY <2>1, <2>3, <3>1 DEF OwnInv
    <3>4. \A d \in Own[p] \ {c} : thread[<<p, d>>].mask \subseteq context_mask'[p]
      BY <2>1, <3>1 DEF ThreadInv
    <3>5. QED
      BY <3>1, <3>2, <3>3, <3>4, OneThread DEF SideSame
  <2>6. CASE FoundIntra(p, c) \/ FoundInter(p, c)
    <3>1. /\ TypeInv' /\ Others(p, c) /\ program' = program /\ Elsewhere(p)
          /\ t.pc = "evaluate" /\ t.own /\ ~u.own /\ u.mask = {} /\ ~mask_in_use'[p]
          /\ \/ u.pc = "idle" /\ u.n = t.n + 1
             \/ u.pc = "exchange" /\ u.n = t.n /\ Inter(c)
      BY <2>6, FoundIntraEffect, FoundInterEffect DEF SideSame
    <3>2. ThreadInv(p, c)'
      BY <2>1, <2>2, <3>1 DEF ThreadInv
    <3>3. OwnInv(p)'
      BY <2>1, <2>2, <2>3, <3>1 DEF OwnInv
    <3>4. \A d \in Own[p] \ {c} : thread[<<p, d>>].mask \subseteq context_mask'[p]
      BY <2>2, <3>1
    <3>5. QED
      BY <3>1, <3>2, <3>3, <3>4, OneThread
  <2>7. CASE CreateInter(p, c)
    <3>1. /\ TypeInv' /\ Others(p, c) /\ SideSame /\ Elsewhere(p)
          /\ t.pc = "exchange" /\ mask_in_use' = mask_in_use
          /\ u.pc = "idle" /\ u.n = t.n + 1 /\ ~u.own /\ u.mask = {}
          /\ context_mask[p] \subseteq context_mask'[p]
      BY <2>7, CreateInterEffect
    <3>2. ThreadInv(p, c)'
      BY <2>1, <2>2, <3>1 DEF ThreadInv, SideSame
    <3>3. OwnInv(p)'
      BY <2>1, <2>3, <3>1 DEF OwnInv, ThreadInv
    <3>4. \A d \in Own[p] \ {c} : thread[<<p, d>>].mask \subseteq context_mask'[p]
      BY <2>1, <3>1 DEF ThreadInv
    <3>5. QED
      BY <3>1, <3>2, <3>3, <3>4, OneThread DEF SideSame
  <2>8. CASE Exchange(p, c)
    <3>1. /\ TypeInv' /\ thread' = thread /\ program' = program
          /\ context_mask' = context_mask /\ mask_in_use' = mask_in_use
      BY <2>8, ExchangeEffect
    <3>2. QED
      BY <3>1 DEF LendInv, ThreadInv, OwnInv
  <2>9. QED
    BY <1>2, <2>4, <2>5, <2>6, <2>7, <2>8 DEF Step
<1>3. ASSUME NEW c \in Comm, Allreduce(c) PROVE LendInv'
  <2>1. /\ TypeInv' /\ SideSame /\ context_mask' = context_mask /\ mask_in_use' = mask_in_use
        /\ \A x \in Thread : x[2] # c => thread'[x] = thread[x]
        /\ \A p \in Members[c] :
             LET t == thread[<<p, c>>]  u == thread'[<<p, c>>] IN
             /\ t.pc = "reduce" /\ u.pc = "evaluate" /\ u.n = t.n /\ (u.own <=> t.own)
             /\ u.mask = And(c) /\ And(c) \subseteq t.mask
    BY <1>3, AllreduceEffect
  <2>2. ASSUME NEW p \in Proc, NEW d \in Own[p]
        PROVE ThreadInv(p, d)' /\ (thread'[<<p, d>>].own <=> thread[<<p, d>>].own)
    <3>1. <<p, d>> \in Thread /\ ThreadInv(p, d) /\ p \in Members[d]
      BY ThreadPairs DEF LendInv
    <3>2. CASE d # c
      BY <2>1, <3>1, <3>2 DEF ThreadInv, SideSame
    <3>3. CASE d = c
      BY <2>1, <3>1, <3>3 DEF ThreadInv, SideSame
    <3>4. QED
      BY <3>2, <3>3
  <2>3. \A p \in Proc : OwnInv(p)'
    BY <2>1, <2>2 DEF LendInv, OwnInv
  <2>4. QED
    BY <2>1, <2>2, <2>3 DEF LendInv
<1>4. ASSUME NEW p \in Proc, NEW k \in comms[p], Comm_free(p, k) PROVE LendInv'
  <2>1. /\ TypeInv' /\ SideSame /\ thread' = thread /\ mask_in_use' = mask_in_use
        /\ \A q \in Proc : context_mask[q] \subseteq context_mask'[q]
    BY <1>4, FreeEffect DEF Elsewhere
  <2>2. QED
    BY <2>1 DEF LendInv, ThreadInv, OwnInv, SideSame
<1>5. CASE UNCHANGED vars
  <2>1. /\ program' = program /\ context_mask' = context_mask /\ mask_in_use' = mask_in_use
        /\ thread' = thread
    BY <1>5 DEF vars
  <2>2. TypeInv'
    BY <1>1, <1>5 DEF vars, TypeInv, Calls, CommType
  <2>3. QED
    BY <2>1, <2>2 DEF LendInv, ThreadInv, OwnInv
<1>6. QED
  <2>1. \A x \in Thread : x[1] \in Proc /\ x[2] \in Own[x[1]]
    BY ThreadPairs
  <2>2. QED
    BY <1>2, <1>3, <1>4, <1>5, <2>1 DEF Next

LEMMA LendAlways == Spec => []LendInv
BY LendInit, LendStep, PTL DEF Spec

(***************************************************************************)
(* Types; and the mask of a process is lent exactly when one thread of it  *)
(* owns it (commutil.c, mask_in_use and own_mask).                         *)
(***************************************************************************)
THEOREM MaskLentToOne == Spec => []TypeOK
<1>1. LendInv => TypeOK
  <2> SUFFICES ASSUME LendInv PROVE TypeOK
    OBVIOUS
  <2>1. ASSUME NEW p \in Proc
        PROVE Cardinality(Owners(p)) = IF mask_in_use[p] THEN 1 ELSE 0
    <3>1. OwnInv(p)
      BY DEF LendInv
    <3>2. CASE mask_in_use[p]
      <4>1. PICK c \in Own[p] : thread[<<p, c>>].own
        BY <3>1, <3>2 DEF OwnInv
      <4>2. Owners(p) = {c}
        BY <3>1, <4>1 DEF OwnInv, Owners
      <4>3. QED
        BY <3>2, <4>2, FS_Singleton
    <3>3. CASE ~mask_in_use[p]
      <4>1. Owners(p) = {}
        BY <3>1, <3>3 DEF OwnInv, Owners
      <4>2. QED
        BY <3>3, <4>1, FS_EmptySet
    <3>4. QED
      BY <3>2, <3>3
  <2>2. QED
    BY <2>1 DEF TypeOK, LendInv, TypeInv, ThreadRec, Rec, PC
<1>2. QED
  BY <1>1, LendAlways, PTL

-----------------------------------------------------------------------------
(***************************************************************************)
(* The collective calls on a communicator that found an id: Rounds(p, c)   *)
(* counts those of which p has the result, MyBit(p, c) is the last result  *)
(* while p has not returned yet.                                           *)
(***************************************************************************)
Found(p, c) == \/ thread[<<p, c>>].pc = "evaluate" /\ thread[<<p, c>>].mask # {}
               \/ thread[<<p, c>>].pc = "exchange"
Rounds(p, c) == IF Found(p, c) THEN thread[<<p, c>>].n + 1 ELSE thread[<<p, c>>].n
MyBit(p, c) == IF thread[<<p, c>>].pc = "exchange"
               THEN BitOf(thread[<<p, c>>].id)
               ELSE Find_context_bit(p, thread[<<p, c>>].mask)

(***************************************************************************)
(* Of a new communicator: the id that came from this side's collective     *)
(* call, and the one that came from the other side.                        *)
(***************************************************************************)
Swapped(k) == Inter(k.from[1]) /\ program[k.from[1]][k.from[2]].op = "split"
Mine(k) == IF Swapped(k) THEN k.context_id ELSE k.recvcontext_id
Theirs(k) == IF Swapped(k) THEN k.recvcontext_id ELSE k.context_id

(***************************************************************************)
(* The calls on c have found the bits h[1], ..., h[m], for all members.    *)
(***************************************************************************)
Knows(p, c, m, h) ==
  /\ Rounds(p, c) = m
  /\ Found(p, c) => MyBit(p, c) = h[m]
  /\ \A k \in comms[p] : k.from[1] = c =>
       k.from[2] \in 1..thread[<<p, c>>].n /\ Mine(k) = IdOf(h[k.from[2]])

History(c, m, h) ==
  /\ \A p \in Members[c] : Knows(p, c, m, h)
  /\ \A n \in Calls(c) : offered[c][n] # 0 => n <= m /\ offered[c][n] = IdOf(h[n])

KnownTo(p) == \A k \in comms[p] :
  LET c == k.from[1]  n == k.from[2] IN
  /\ c \in Own[p]
  /\ Inter(c) => Theirs(k) = told[c][n] /\ told[c][n] # 0
  /\ ~Inter(c) => Theirs(k) = Mine(k)

Told(c) == \A n \in Calls(c) : told[c][n] # 0 => told[c][n] = offered[Peer[c]][n]

AgreeInv ==
  /\ \A c \in Comm : \E m \in Nat : \E h \in [Nat -> Bit] : History(c, m, h)
  /\ \A p \in Proc : KnownTo(p)
  /\ \A c \in Comm : Told(c)

(***************************************************************************)
(* What was sent or broadcast stays.                                       *)
(***************************************************************************)
Stays == \A d \in Comm : \A n \in Calls(d) :
  /\ offered[d][n] # 0 => offered'[d][n] = offered[d][n]
  /\ told[d][n] # 0 => told'[d][n] = told[d][n]

LEMMA FromType ==
  ASSUME TypeInv, NEW p \in Proc, NEW k \in comms[p]
  PROVE  /\ k.from[1] \in Comm /\ k.from[2] \in Calls(k.from[1])
         /\ k.context_id \in Id /\ k.recvcontext_id \in Id /\ k.from = <<k.from[1], k.from[2]>>
<1>1. k \in CommType
  BY DEF TypeInv
<1>2. k.from \in UNION {{c} \X (1..Len(program[c])) : c \in Comm}
  BY <1>1 DEF CommType
<1>3. PICK c \in Comm : k.from \in {c} \X (1..Len(program[c]))
  BY <1>2
<1>4. QED
  BY <1>1, <1>3 DEF CommType, Calls

LEMMA KnowsFrame ==
  ASSUME NEW p, NEW c, NEW m, NEW h, Knows(p, c, m, h), program' = program,
         thread'[<<p, c>>] = thread[<<p, c>>],
         \A k \in comms'[p] : k.from[1] = c => k \in comms[p]
  PROVE  Knows(p, c, m, h)'
BY DEF Knows, Rounds, Found, MyBit, Mine, Swapped

LEMMA OneHistory ==
  ASSUME LendInv, AgreeInv, NEW p \in Proc, NEW c \in Own[p],
         program' = program, Others(p, c), Elsewhere(p),
         \A k \in comms'[p] : k \in comms[p] \/ k.from[1] = c,
         \A m \in Nat : \A h \in [Nat -> Bit] : Knows(p, c, m, h) =>
           /\ Knows(p, c, m, h)'
           /\ \A d \in Comm : \A n \in Calls(d) :
                \/ offered'[d][n] = offered[d][n]
                \/ d = c /\ n <= m /\ offered'[d][n] = IdOf(h[n])
  PROVE  /\ \A d \in Comm : \E m \in Nat : \E h \in [Nat -> Bit] : History(d, m, h)'
         /\ \A d \in Comm : \A n \in Calls(d) :
              offered[d][n] # 0 => offered'[d][n] = offered[d][n]
<1>1. c \in Comm /\ p \in Members[c] /\ TypeInv
  BY ThreadPairs DEF LendInv
<1>2. PICK m \in Nat, h \in [Nat -> Bit] : History(c, m, h)
  BY <1>1 DEF AgreeInv
<1>3. /\ Knows(p, c, m, h)'
      /\ \A d \in Comm : \A n \in Calls(d) :
           \/ offered'[d][n] = offered[d][n]
           \/ d = c /\ n <= m /\ offered'[d][n] = IdOf(h[n])
  BY <1>1, <1>2 DEF History
<1>4. \A d \in Comm : \A n \in Calls(d) :
        offered[d][n] # 0 => offered'[d][n] = offered[d][n]
  BY <1>2, <1>3 DEF History
<1>5. \A d : Calls(d)' = Calls(d)
  BY DEF Calls
<1>6. ASSUME NEW d \in Comm, NEW q \in Members[d], NEW m1, NEW h1,
             Knows(q, d, m1, h1), <<q, d>> # <<p, c>>
      PROVE  Knows(q, d, m1, h1)'
  <2>1. <<q, d>> \in Thread /\ q \in Proc
    BY ThreadPairs
  <2>2. thread'[<<q, d>>] = thread[<<q, d>>]
    BY <1>6, <2>1 DEF Others
  <2>3. \A k \in comms'[q] : k.from[1] = d => k \in comms[q]
    BY <1>6, <2>1 DEF Elsewhere
  <2>4. QED
    BY <1>6, <2>2, <2>3, KnowsFrame
<1>7. History(c, m, h)'
  <2>1. \A q \in Members[c] : Knows(q, c, m, h)'
    BY <1>1, <1>2, <1>3, <1>6 DEF History
  <2>2. \A n \in Calls(c) : offered'[c][n] # 0 => n <= m /\ offered'[c][n] = IdOf(h[n])
    BY <1>1, <1>2, <1>3 DEF History
  <2>3. QED
    BY <1>5, <2>1, <2>2 DEF History
<1>8. ASSUME NEW d \in Comm \ {c}
      PROVE  \E m1 \in Nat : \E h1 \in [Nat -> Bit] : History(d, m1, h1)'
  <2>1. PICK m1 \in Nat, h1 \in [Nat -> Bit] : History(d, m1, h1)
    BY DEF AgreeInv
  <2>2. \A q \in Members[d] : Knows(q, d, m1, h1)'
    BY <1>6, <2>1 DEF History
  <2>3. \A n \in Calls(d) : offered'[d][n] # 0 => n <= m1 /\ offered'[d][n] = IdOf(h1[n])
    BY <1>3, <2>1 DEF History
  <2>4. History(d, m1, h1)'
    BY <1>5, <2>2, <2>3 DEF History
  <2>5. QED
    BY <2>4
<1>9. QED
  BY <1>4, <1>7, <1>8

(***************************************************************************)
(* What a process knows of the other side stays true, and so it is for     *)
(* what it builds.                                                         *)
(***************************************************************************)
LEMMA KnownStep ==
  ASSUME LendInv, AgreeInv, program' = program, Stays,
         \A c \in Comm : \A n \in Calls(c) :
           told'[c][n] = told[c][n] \/ told'[c][n] = offered[Peer[c]][n]
  PROVE  /\ \A c \in Comm : Told(c)'
         /\ \A p \in Proc : \A k \in comms[p] :
              LET c == k.from[1]  n == k.from[2] IN
              /\ c \in Own[p]
              /\ Inter(c) => Theirs(k)' = told'[c][n] /\ told'[c][n] # 0
              /\ ~Inter(c) => Theirs(k)' = Mine(k)'
<1>1. TypeInv
  BY DEF LendInv
<1>2. ASSUME NEW c \in Comm PROVE Told(c)'
  <2>1. Calls(Peer[c]) = Calls(c) /\ Peer[c] \in Comm /\ Calls(c)' = Calls(c)
    BY <1>1, ProgramFacts DEF Calls
  <2>2. \A n \in Calls(c) : told[c][n] # 0 => told[c][n] = offered[Peer[c]][n]
    BY DEF AgreeInv, Told
  <2>3. \A n \in Calls(c) : offered[Peer[c]][n] # 0 => offered'[Peer[c]][n] = offered[Peer[c]][n]
    BY <2>1 DEF Stays
  <2>4. \A n \in Calls(c) : told'[c][n] # 0 => told'[c][n] = offered'[Peer[c]][n]
    BY <2>2, <2>3
  <2>5. QED
    BY <2>1, <2>4 DEF Told
<1>3. ASSUME NEW p \in Proc, NEW k \in comms[p]
      PROVE  LET c == k.from[1]  n == k.from[2] IN
             /\ c \in Own[p]
             /\ Inter(c) => Theirs(k)' = told'[c][n] /\ told'[c][n] # 0
             /\ ~Inter(c) => Theirs(k)' = Mine(k)'
  <2> DEFINE c == k.from[1]
             n == k.from[2]
  <2>1. c \in Comm /\ n \in Calls(c)
    BY <1>1, FromType
  <2>2. /\ c \in Own[p]
        /\ Inter(c) => Theirs(k) = told[c][n] /\ told[c][n] # 0
        /\ ~Inter(c) => Theirs(k) = Mine(k)
    BY DEF AgreeInv, KnownTo
  <2>3. told[c][n] # 0 => told'[c][n] = told[c][n]
    BY <2>1 DEF Stays
  <2>4. Theirs(k)' = Theirs(k) /\ Mine(k)' = Mine(k)
    BY DEF Theirs, Mine, Swapped
  <2>5. QED
    BY <2>2, <2>3, <2>4
<1>4. QED
  BY <1>2, <1>3

LEMMA AgreeInit == Init => AgreeInv
<1> SUFFICES ASSUME Init PROVE AgreeInv
  OBVIOUS
<1>1. ASSUME NEW c \in Comm PROVE \E m \in Nat : \E h \in [Nat -> Bit] : History(c, m, h)
  <2> DEFINE h == [n \in Nat |-> RecvBit[c]]
  <2>1. h \in [Nat -> Bit] /\ 0 \in Nat
    BY ContextIdAssumption DEF Bit
  <2>2. \A p \in Members[c] : LET t == thread[<<p, c>>] IN t.pc = "idle" /\ t.n = 0
    BY ThreadPairs DEF Init
  <2>3. \A p \in Members[c] : comms[p] = {}
    BY ThreadPairs DEF Init
  <2>4. \A p \in Members[c] : Knows(p, c, 0, h)
    BY <2>2, <2>3 DEF Knows, Rounds, Found
  <2>5. \A n \in Calls(c) : offered[c][n] = 0
    BY DEF Init, Calls
  <2>6. History(c, 0, h)
    BY <2>4, <2>5 DEF History
  <2>7. QED
    BY <2>1, <2>6
<1>2. ASSUME NEW p \in Proc PROVE KnownTo(p)
  BY DEF Init, KnownTo
<1>3. ASSUME NEW c \in Comm PROVE Told(c)
  BY DEF Init, Told, Calls
<1>4. QED
  BY <1>1, <1>2, <1>3 DEF AgreeInv

(***************************************************************************)
(* A thread's step that adds at most the communicator of its call.         *)
(***************************************************************************)
LEMMA AgreeThread ==
  ASSUME LendInv, AgreeInv, NEW p \in Proc, NEW c \in Own[p],
         program' = program, told' = told, Others(p, c), Elsewhere(p),
         \A k \in comms'[p] : k \in comms[p] \/ k.from[1] = c,
         \A m \in Nat : \A h \in [Nat -> Bit] : Knows(p, c, m, h) =>
           /\ Knows(p, c, m, h)'
           /\ \A d \in Comm : \A n \in Calls(d) :
                \/ offered'[d][n] = offered[d][n]
                \/ d = c /\ n <= m /\ offered'[d][n] = IdOf(h[n]),
         \A k \in comms'[p] \ comms[p] :
           /\ Inter(c) => Theirs(k)' = told'[c][k.from[2]] /\ told'[c][k.from[2]] # 0
           /\ ~Inter(c) => Theirs(k)' = Mine(k)'
  PROVE  AgreeInv'
<1>1. /\ \A d \in Comm : \E m \in Nat : \E h \in [Nat -> Bit] : History(d, m, h)'
      /\ \A d \in Comm : \A n \in Calls(d) :
           offered[d][n] # 0 => offered'[d][n] = offered[d][n]
  BY OneHistory
<1>2. Stays
  BY <1>1 DEF Stays
<1>3. /\ \A d \in Comm : Told(d)'
      /\ \A q \in Proc : \A k \in comms[q] :
           LET d == k.from[1]  n == k.from[2] IN
           /\ d \in Own[q]
           /\ Inter(d) => Theirs(k)' = told'[d][n] /\ told'[d][n] # 0
           /\ ~Inter(d) => Theirs(k)' = Mine(k)'
  BY <1>2, KnownStep
<1>4. ASSUME NEW q \in Proc PROVE KnownTo(q)'
  <2> SUFFICES ASSUME NEW k \in comms'[q]
               PROVE  LET d == k.from[1]  n == k.from[2] IN
                      /\ d \in Own[q]
                      /\ Inter(d) => Theirs(k)' = told'[d][n] /\ told'[d][n] # 0
                      /\ ~Inter(d) => Theirs(k)' = Mine(k)'
    BY DEF KnownTo
  <2>1. CASE k \in comms[q]
    BY <1>3, <2>1
  <2>2. CASE k \notin comms[q]
    <3>1. q = p /\ k \in comms'[p] \ comms[p]
      BY <2>2 DEF Elsewhere
    <3>2. QED
      BY <3>1
  <2>3. QED
    BY <2>1, <2>2
<1>5. QED
  BY <1>1, <1>3, <1>4 DEF AgreeInv

(***************************************************************************)
(* A process that returns from its call with the communicator k, or none.  *)
(***************************************************************************)
LEMMA ReturnKnows ==
  ASSUME LendInv, NEW p \in Proc, NEW c \in Own[p], program' = program,
         LET t == thread[<<p, c>>]  u == thread'[<<p, c>>] IN
         Found(p, c) /\ u.pc = "idle" /\ u.n = t.n + 1,
         NEW k, k.from = <<c, thread[<<p, c>>].n + 1>>, comms'[p] \subseteq comms[p] \cup {k},
         k \in comms'[p] => Mine(k)' = IdOf(MyBit(p, c)),
         NEW m \in Nat, NEW h \in [Nat -> Bit], Knows(p, c, m, h)
  PROVE  Knows(p, c, m, h)'
<1> DEFINE t == thread[<<p, c>>]
           u == thread'[<<p, c>>]
<1>1. t.n \in Nat /\ <<p, c>> \in Thread
  BY ThreadPairs DEF LendInv, TypeInv, ThreadRec, Rec
<1>2. m = t.n + 1 /\ MyBit(p, c) = h[m] /\ ~Found(p, c)' /\ Rounds(p, c)' = m
  BY DEF Knows, Rounds, Found
<1>3. ASSUME NEW j \in comms'[p], j.from[1] = c
      PROVE  j.from[2] \in 1..u.n /\ Mine(j)' = IdOf(h[j.from[2]])
  <2>1. CASE j \in comms[p]
    <3>1. j.from[2] \in 1..t.n /\ Mine(j) = IdOf(h[j.from[2]])
      BY <1>3, <2>1 DEF Knows
    <3>2. Mine(j)' = Mine(j)
      BY DEF Mine, Swapped
    <3>3. QED
      BY <1>1, <3>1, <3>2
  <2>2. CASE j = k
    BY <1>1, <1>2, <2>2
  <2>3. QED
    BY <2>1, <2>2
<1>4. QED
  BY <1>2, <1>3 DEF Knows

LEMMA AgreeFoundIntra ==
  ASSUME LendInv, AgreeInv, NEW p \in Proc, NEW c \in Own[p], FoundIntra(p, c)
  PROVE  AgreeInv'
<1> DEFINE t == thread[<<p, c>>]
           u == thread'[<<p, c>>]
           bit == Find_context_bit(p, t.mask)
<1>0. PICK k : k = NewComm(p, c, IdOf(bit), IdOf(bit))
  OBVIOUS
<1>1. /\ TypeInv /\ ThreadInv(p, c) /\ c \in Comm /\ t \in ThreadRec
  BY ThreadPairs DEF LendInv, TypeInv
<1>2. /\ Others(p, c) /\ SideSame /\ Elsewhere(p) /\ ~Inter(c)
      /\ t.pc = "evaluate" /\ t.mask # {} /\ bit \in t.mask
      /\ u.pc = "idle" /\ u.n = t.n + 1
      /\ comms'[p] = comms[p] \cup {k} \/ comms'[p] = comms[p]
  BY <1>0, FoundIntraEffect
<1>3. bit \in Bit /\ IdOf(bit) \in Id
  BY <1>1, <1>2, IdBits DEF ThreadRec, Rec
<1>4. k.from = <<c, t.n + 1>> /\ k.context_id = IdOf(bit) /\ k.recvcontext_id = IdOf(bit)
  BY <1>0 DEF NewComm
<1>5. Mine(k)' = IdOf(bit) /\ Theirs(k)' = IdOf(bit)
  BY <1>4 DEF Mine, Theirs
<1>6. Found(p, c) /\ MyBit(p, c) = bit /\ comms'[p] \subseteq comms[p] \cup {k}
  BY <1>2 DEF Found, MyBit
<1> HIDE DEF bit, t, u
<1>7. ASSUME NEW m \in Nat, NEW h \in [Nat -> Bit], Knows(p, c, m, h)
      PROVE  Knows(p, c, m, h)'
  <2>1. Mine(k)' = IdOf(MyBit(p, c))
    BY <1>5, <1>6
  <2>2. QED
    BY <1>2, <1>4, <1>6, <1>7, <2>1, ReturnKnows DEF SideSame, t, u
<1>8. \A j \in comms'[p] : j \in comms[p] \/ j.from[1] = c
  BY <1>4, <1>6
<1>9. \A j \in comms'[p] \ comms[p] : ~Inter(c) /\ Theirs(j)' = Mine(j)'
  BY <1>2, <1>5, <1>6
<1>10. QED
  BY <1>2, <1>7, <1>8, <1>9, AgreeThread DEF SideSame

LEMMA AgreeFoundInter ==
  ASSUME LendInv, AgreeInv, NEW p \in Proc, NEW c \in Own[p], FoundInter(p, c)
  PROVE  AgreeInv'
<1> DEFINE t == thread[<<p, c>>]
           u == thread'[<<p, c>>]
           bit == Find_context_bit(p, t.mask)
<1>1. /\ TypeInv /\ ThreadInv(p, c) /\ c \in Comm /\ t \in ThreadRec
  BY ThreadPairs DEF LendInv, TypeInv
<1>2. /\ Others(p, c) /\ program' = program /\ told' = told /\ Elsewhere(p) /\ comms' = comms
      /\ t.pc = "evaluate" /\ t.mask # {} /\ bit \in t.mask
      /\ u.pc = "exchange" /\ u.n = t.n /\ u.id = IdOf(bit)
      /\ \A d \in Comm : \A n \in Calls(d) :
           \/ offered'[d][n] = offered[d][n]
           \/ d = c /\ n = t.n + 1 /\ offered'[d][n] = IdOf(bit)
  BY FoundInterEffect
<1>3. bit \in Bit /\ BitOf(IdOf(bit)) = bit /\ t.n \in Nat
  BY <1>1, <1>2, IdBits DEF ThreadRec, Rec
<1>4. Found(p, c) /\ MyBit(p, c) = bit /\ Found(p, c)' /\ MyBit(p, c)' = bit
  BY <1>2, <1>3 DEF Found, MyBit
<1>5. Rounds(p, c)' = Rounds(p, c) /\ Rounds(p, c) = t.n + 1
  BY <1>2, <1>4 DEF Rounds
<1> HIDE DEF bit
<1>6. ASSUME NEW m \in Nat, NEW h \in [Nat -> Bit], Knows(p, c, m, h)
      PROVE  /\ Knows(p, c, m, h)'
             /\ \A d \in Comm : \A n \in Calls(d) :
                  \/ offered'[d][n] = offered[d][n]
                  \/ d = c /\ n <= m /\ offered'[d][n] = IdOf(h[n])
  <2>1. h[m] = bit /\ m = t.n + 1
    BY <1>4, <1>5, <1>6 DEF Knows
  <2>2. \A d \in Comm : \A n \in Calls(d) :
          \/ offered'[d][n] = offered[d][n]
          \/ d = c /\ n <= m /\ offered'[d][n] = IdOf(h[n])
    BY <1>2, <1>3, <2>1
  <2>3. \A k : Mine(k)' = Mine(k)
    BY <1>2 DEF Mine, Swapped
  <2>4. Knows(p, c, m, h)'
    BY <1>2, <1>4, <1>5, <1>6, <2>3 DEF Knows
  <2>5. QED
    BY <2>2, <2>4
<1>7. QED
  BY <1>2, <1>6, AgreeThread

LEMMA AgreeCreateInter ==
  ASSUME LendInv, AgreeInv, NEW p \in Proc, NEW c \in Own[p], CreateInter(p, c)
  PROVE  AgreeInv'
<1> DEFINE t == thread[<<p, c>>]
           u == thread'[<<p, c>>]
           theirs == told[c][t.n + 1]
<1>0. PICK k : k = IF Call(p, c).op = "copy" THEN NewComm(p, c, theirs, t.id)
                                             ELSE NewComm(p, c, t.id, theirs)
  OBVIOUS
<1>1. /\ TypeInv /\ ThreadInv(p, c) /\ c \in Comm /\ t \in ThreadRec
  BY ThreadPairs DEF LendInv, TypeInv
<1>2. /\ Others(p, c) /\ SideSame /\ Elsewhere(p) /\ t.pc = "exchange" /\ theirs # 0
      /\ u.pc = "idle" /\ u.n = t.n + 1
      /\ comms'[p] = comms[p] \cup {k} \/ comms'[p] = comms[p]
  BY <1>0, CreateInterEffect
<1>3. t.id \in Id /\ IdOf(BitOf(t.id)) = t.id
  BY <1>1, IdBits DEF ThreadRec, Rec
<1>4. Found(p, c) /\ IdOf(MyBit(p, c)) = t.id /\ comms'[p] \subseteq comms[p] \cup {k}
  BY <1>2, <1>3 DEF Found, MyBit
<1>5. /\ k.from = <<c, t.n + 1>>
      /\ Call(p, c).op = "copy" => k.context_id = theirs /\ k.recvcontext_id = t.id
      /\ Call(p, c).op # "copy" => k.context_id = t.id /\ k.recvcontext_id = theirs
  BY <1>0 DEF NewComm
<1>6. Inter(c) => Mine(k)' = t.id /\ Theirs(k)' = theirs
  <2>1. t.n + 1 \in Calls(c)
    BY <1>1, <1>2, ProgramFacts DEF ThreadInv, ThreadRec, Rec, Calls
  <2>2. Call(p, c).op \in {"copy", "split"} /\ Call(p, c) = program[c][t.n + 1]
    BY <1>1, <2>1, ProgramFacts DEF Call
  <2>3. Inter(c) => (Swapped(k)' <=> Call(p, c).op # "copy")
    BY <1>2, <1>5, <2>2 DEF Swapped, SideSame
  <2>4. QED
    BY <1>5, <2>3 DEF Mine, Theirs
<1>7. Inter(c)
  BY <1>1, <1>2 DEF ThreadInv
<1> HIDE DEF t, u, theirs
<1>8. ASSUME NEW m \in Nat, NEW h \in [Nat -> Bit], Knows(p, c, m, h)
      PROVE  Knows(p, c, m, h)'
  <2>1. Mine(k)' = IdOf(MyBit(p, c))
    BY <1>4, <1>6, <1>7
  <2>2. QED
    BY <1>2, <1>4, <1>5, <1>8, <2>1, ReturnKnows DEF SideSame, t, u
<1>9. \A j \in comms'[p] : j \in comms[p] \/ j.from[1] = c
  BY <1>4, <1>5
<1>10. \A j \in comms'[p] \ comms[p] :
         Inter(c) /\ Theirs(j)' = told'[c][j.from[2]] /\ told'[c][j.from[2]] # 0
  BY <1>2, <1>4, <1>5, <1>6, <1>7 DEF SideSame, theirs
<1>11. QED
  BY <1>2, <1>8, <1>9, <1>10, AgreeThread DEF SideSame

LEMMA AgreeQuiet ==
  ASSUME LendInv, AgreeInv, NEW p \in Proc, NEW c \in Own[p],
         Enter(p, c) \/ Retry(p, c) \/ NotFound(p, c)
  PROVE  AgreeInv'
<1> DEFINE t == thread[<<p, c>>]
           u == thread'[<<p, c>>]
<1>1. /\ Others(p, c) /\ SideSame /\ Elsewhere(p) /\ comms' = comms /\ u.n = t.n
      /\ u.pc \in {"reduce", "yield"}
      /\ t.pc \in {"idle", "yield"} \/ (t.pc = "evaluate" /\ t.mask = {})
  BY ContributeEffect, NotFoundEffect
<1>2. ~Found(p, c) /\ ~Found(p, c)' /\ Rounds(p, c)' = Rounds(p, c)
  BY <1>1 DEF Found, Rounds
<1>3. \A k : Mine(k)' = Mine(k)
  BY <1>1 DEF Mine, Swapped, SideSame
<1>4. \A m \in Nat : \A h \in [Nat -> Bit] : Knows(p, c, m, h) => Knows(p, c, m, h)'
  BY <1>1, <1>2, <1>3 DEF Knows
<1>5. QED
  BY <1>1, <1>4, AgreeThread DEF SideSame

LEMMA AgreeAllreduce ==
  ASSUME LendInv, AgreeInv, NEW c \in Comm, Allreduce(c)
  PROVE  AgreeInv'
<1>1. TypeInv
  BY DEF LendInv
<1>2. /\ SideSame /\ comms' = comms
      /\ \A x \in Thread : x[2] # c => thread'[x] = thread[x]
      /\ \A p \in Members[c] :
           LET t == thread[<<p, c>>]  u == thread'[<<p, c>>] IN
           t.pc = "reduce" /\ u.pc = "evaluate" /\ u.n = t.n /\ u.mask = And(c)
  BY AllreduceEffect
<1>3. /\ \A d \in Comm : Told(d)'
      /\ \A p \in Proc : KnownTo(p)'
  BY <1>2 DEF AgreeInv, Told, KnownTo, Theirs, Mine, Swapped, SideSame, Calls
<1>4. ASSUME NEW d \in Comm \ {c}
      PROVE  \E m \in Nat : \E h \in [Nat -> Bit] : History(d, m, h)'
  <2>1. PICK m \in Nat, h \in [Nat -> Bit] : History(d, m, h)
    BY DEF AgreeInv
  <2>2. \A p \in Members[d] : Knows(p, d, m, h)'
    BY <1>2, <2>1, ThreadPairs, KnowsFrame DEF History, SideSame
  <2>3. History(d, m, h)'
    BY <1>2, <2>1, <2>2 DEF History, SideSame, Calls
  <2>4. QED
    BY <2>3
<1>5. PICK m \in Nat, h \in [Nat -> Bit] : History(c, m, h)
  BY DEF AgreeInv
<1>6. \A p \in Members[c] : m = thread[<<p, c>>].n /\ Knows(p, c, m, h) /\ <<p, c>> \in Thread
  BY <1>2, <1>5, ThreadPairs DEF History, Knows, Rounds, Found
<1>7. \A k : Mine(k)' = Mine(k)
  BY <1>2 DEF Mine, Swapped, SideSame
<1>8. \A n \in Calls(c)' : offered'[c][n] # 0 => n <= m /\ offered'[c][n] = IdOf(h[n])
  BY <1>2, <1>5 DEF History, SideSame, Calls
<1>9. CASE And(c) = {}
  <2>1. \A p \in Members[c] : ~Found(p, c)' /\ Rounds(p, c)' = m
    BY <1>2, <1>6, <1>9 DEF Found, Rounds
  <2>2. \A p \in Members[c] : Knows(p, c, m, h)'
    BY <1>2, <1>6, <1>7, <2>1 DEF Knows
  <2>3. History(c, m, h)'
    BY <1>8, <2>2 DEF History
  <2>4. QED
    BY <1>3, <1>4, <2>3 DEF AgreeInv
<1>10. CASE And(c) # {}
  <2>1. PICK b \in Bit : \A p : Find_context_bit(p, And(c)) = b
    <3>1. And(c) \in SUBSET Bit
      BY DEF And
    <3>2. \A p : Find_context_bit(p, And(c)) \in Bit
      BY <1>10, <3>1, FindBit
    <3>3. \A p, q : Find_context_bit(p, And(c)) = Find_context_bit(q, And(c))
      BY DEF Find_context_bit
    <3>4. QED
      BY <3>2, <3>3
  <2>2. PICK g : g = [h EXCEPT ![m + 1] = b]
    OBVIOUS
  <2>3. g \in [Nat -> Bit] /\ g[m + 1] = b /\ \A n \in Nat : n <= m => g[n] = h[n]
    BY <2>2
  <2>4. \A p \in Members[c] : Found(p, c)' /\ Rounds(p, c)' = m + 1 /\ MyBit(p, c)' = b
    BY <1>2, <1>6, <1>10, <2>1 DEF Found, Rounds, MyBit
  <2>5. \A p \in Members[c] : Knows(p, c, m + 1, g)'
    <3> SUFFICES ASSUME NEW p \in Members[c] PROVE Knows(p, c, m + 1, g)'
      OBVIOUS
    <3>1. thread'[<<p, c>>].n = m
      BY <1>2, <1>6
    <3>2. ASSUME NEW k \in comms'[p], k.from[1] = c
          PROVE  k.from[2] \in 1..m /\ Mine(k)' = IdOf(g[k.from[2]])
      <4>1. k.from[2] \in 1..m /\ Mine(k) = IdOf(h[k.from[2]])
        BY <1>2, <1>6, <3>2 DEF Knows
      <4>2. QED
        BY <1>7, <2>3, <4>1
    <3>3. QED
      BY <2>3, <2>4, <3>1, <3>2 DEF Knows
  <2>6. \A n \in Calls(c)' : offered'[c][n] # 0 => n <= m + 1 /\ offered'[c][n] = IdOf(g[n])
    BY <1>8, <2>3 DEF Calls
  <2>7. History(c, m + 1, g)' /\ m + 1 \in Nat
    BY <2>5, <2>6 DEF History
  <2>8. QED
    BY <1>3, <1>4, <2>3, <2>7 DEF AgreeInv
<1>11. QED
  BY <1>9, <1>10

(***************************************************************************)
(* Where no process learns anything: only broadcasts, and frees.           *)
(***************************************************************************)
LEMMA AgreeRest ==
  ASSUME LendInv, AgreeInv, program' = program, thread' = thread, offered' = offered,
         \A p \in Proc : comms'[p] \subseteq comms[p],
         \A c \in Comm : \A n \in Calls(c) :
           told'[c][n] = told[c][n] \/ (told[c][n] = 0 /\ told'[c][n] = offered[Peer[c]][n])
  PROVE  AgreeInv'
<1>1. Stays
  BY DEF Stays
<1>2. /\ \A c \in Comm : Told(c)'
      /\ \A p \in Proc : \A k \in comms[p] :
           LET c == k.from[1]  n == k.from[2] IN
           /\ c \in Own[p]
           /\ Inter(c) => Theirs(k)' = told'[c][n] /\ told'[c][n] # 0
           /\ ~Inter(c) => Theirs(k)' = Mine(k)'
  BY <1>1, KnownStep
<1>3. \A p \in Proc : KnownTo(p)'
  BY <1>2 DEF KnownTo
<1>4. ASSUME NEW c \in Comm
      PROVE  \E m \in Nat : \E h \in [Nat -> Bit] : History(c, m, h)'
  <2>1. PICK m \in Nat, h \in [Nat -> Bit] : History(c, m, h)
    BY DEF AgreeInv
  <2>2. \A p \in Members[c] : Knows(p, c, m, h)'
    BY <2>1, ThreadPairs, KnowsFrame DEF History
  <2>3. History(c, m, h)'
    BY <2>1, <2>2 DEF History, Calls
  <2>4. QED
    BY <2>3
<1>5. QED
  BY <1>2, <1>3, <1>4 DEF AgreeInv

LEMMA AgreeStep == LendInv /\ AgreeInv /\ [Next]_vars => AgreeInv'
<1> SUFFICES ASSUME LendInv, AgreeInv, [Next]_vars PROVE AgreeInv'
  OBVIOUS
<1>1. ASSUME NEW p \in Proc, NEW c \in Own[p], Step(p, c) PROVE AgreeInv'
  <2>1. CASE Exchange(p, c)
    <3>1. /\ thread' = thread /\ program' = program /\ offered' = offered /\ comms' = comms
          /\ \A d \in Comm : \A m \in Calls(d) :
               \/ told'[d][m] = told[d][m]
               \/ told[d][m] = 0 /\ told'[d][m] = offered[Peer[d]][m]
      BY <2>1, ExchangeEffect
    <3>2. QED
      BY <3>1, AgreeRest
  <2>2. QED
    BY <1>1, <2>1, AgreeQuiet, AgreeFoundIntra, AgreeFoundInter, AgreeCreateInter DEF Step
<1>2. ASSUME NEW p \in Proc, NEW k \in comms[p], Comm_free(p, k) PROVE AgreeInv'
  <2>1. /\ thread' = thread /\ SideSame /\ \A q \in Proc : comms'[q] \subseteq comms[q]
    BY <1>2, FreeEffect DEF Elsewhere
  <2>2. QED
    BY <2>1, AgreeRest DEF SideSame
<1>3. CASE UNCHANGED vars
  <2>1. /\ thread' = thread /\ SideSame /\ comms' = comms
    BY <1>3 DEF vars, SideSame
  <2>2. QED
    BY <2>1, AgreeRest DEF SideSame
<1>4. QED
  <2>1. \A x \in Thread : x[1] \in Proc /\ x[2] \in Own[x[1]]
    BY ThreadPairs
  <2>2. QED
    BY <1>1, <1>2, <1>3, <2>1, AgreeAllreduce DEF Next

LEMMA AgreeAlways == Spec => [](LendInv /\ AgreeInv)
<1>1. Init => LendInv /\ AgreeInv
  BY LendInit, AgreeInit
<1>2. LendInv /\ AgreeInv /\ [Next]_vars => (LendInv /\ AgreeInv)'
  BY LendStep, AgreeStep
<1>3. QED
  BY <1>1, <1>2, PTL DEF Spec

(***************************************************************************)
(* The processes of a new communicator agree: what one sends on is what    *)
(* the other receives on, within a group and across the two sides of an    *)
(* intercommunicator, whatever was freed and whichever calls meet          *)
(* (MPIR_Get_contextid, the exchange of the leaders, MPI_Comm_split).      *)
(***************************************************************************)
THEOREM NewCommsAgree == Spec => []MembersAgree
<1>1. LendInv /\ AgreeInv => MembersAgree
  <2> SUFFICES ASSUME LendInv, AgreeInv, NEW p \in Proc, NEW q \in Proc,
                      NEW j \in comms[p], NEW k \in comms[q]
               PROVE  LET c == j.from[1]  d == k.from[1] IN
                      /\ j.from = k.from
                           => j.context_id = k.context_id /\ j.recvcontext_id = k.recvcontext_id
                      /\ Inter(c) /\ d = Peer[c] /\ j.from[2] = k.from[2]
                           => j.context_id = k.recvcontext_id /\ j.recvcontext_id = k.context_id
    BY DEF MembersAgree
  <2> DEFINE c == j.from[1]
             d == k.from[1]
             n == j.from[2]
  <2>1. TypeInv
    BY DEF LendInv
  <2>2. /\ c \in Comm /\ d \in Comm /\ n \in Calls(c) /\ k.from[2] \in Calls(d)
        /\ p \in Members[c] /\ q \in Members[d]
        /\ Inter(c) => Theirs(j) = told[c][n] /\ told[c][n] # 0
        /\ ~Inter(c) => Theirs(j) = Mine(j)
        /\ Inter(d) => Theirs(k) = told[d][k.from[2]] /\ told[d][k.from[2]] # 0
        /\ ~Inter(d) => Theirs(k) = Mine(k)
    BY <2>1, FromType, ThreadPairs DEF AgreeInv, KnownTo
  <2>3. PICK m \in Nat, h \in [Nat -> Bit] : History(c, m, h)
    BY <2>2 DEF AgreeInv
  <2>4. PICK l \in Nat, g \in [Nat -> Bit] : History(d, l, g)
    BY <2>2 DEF AgreeInv
  <2>5. /\ Mine(j) = IdOf(h[n]) /\ Mine(k) = IdOf(g[k.from[2]])
        /\ d = c => Mine(k) = IdOf(h[k.from[2]])
    BY <2>2, <2>3, <2>4 DEF History, Knows
  <2>6. CASE j.from = k.from
    <3>1. Mine(j) = Mine(k) /\ Theirs(j) = Theirs(k)
      BY <2>2, <2>5, <2>6
    <3>2. Swapped(j) <=> Swapped(k)
      BY <2>6 DEF Swapped
    <3>3. j.context_id = k.context_id /\ j.recvcontext_id = k.recvcontext_id
      BY <3>1, <3>2 DEF Mine, Theirs
    <3>4. d # Peer[c] \/ ~Inter(c)
      BY <2>6 DEF Inter
    <3>5. QED
      BY <3>3, <3>4
  <2>7. CASE Inter(c) /\ d = Peer[c] /\ n = k.from[2]
    <3>1. Peer[d] = c /\ Inter(d) /\ program[d] = program[c] /\ Calls(d) = Calls(c)
      <4>1. Peer[d] = c /\ Inter(d)
        BY <2>2, <2>7, ContextIdAssumption DEF Inter
      <4>2. program[d] = program[c]
        BY <2>1, <2>2, <2>7, ProgramFacts
      <4>3. QED
        BY <4>1, <4>2 DEF Calls
    <3>2. told[c][n] = offered[d][n] /\ told[d][n] = offered[c][n]
      BY <2>2, <2>7, <3>1 DEF AgreeInv, Told
    <3>3. offered[d][n] = IdOf(g[n]) /\ offered[c][n] = IdOf(h[n])
      BY <2>2, <2>3, <2>4, <2>7, <3>1, <3>2 DEF History
    <3>4. Theirs(j) = Mine(k) /\ Theirs(k) = Mine(j)
      BY <2>2, <2>5, <2>7, <3>1, <3>2, <3>3
    <3>5. Swapped(j) <=> Swapped(k)
      BY <2>7, <3>1 DEF Swapped
    <3>6. j.from # k.from
      BY <2>7 DEF Inter
    <3>7. QED
      BY <3>4, <3>5, <3>6 DEF Mine, Theirs
  <2>8. QED
    BY <2>6, <2>7
<1>2. QED
  BY <1>1, AgreeAlways, PTL

-----------------------------------------------------------------------------
(***************************************************************************)
(* No class of MPI_Comm_split or MPI_Comm_create on an intercommunicator   *)
(* has processes of both sides.  Otherwise a process receives on the other *)
(* side's id, which may be free in its own mask (README, "What the models  *)
(* found").                                                                *)
(***************************************************************************)
NoClassBetween == \A prog \in Programs : \A c \in Comm : \A n \in 1..Len(prog[c]) :
  Inter(c) /\ prog[c][n].op = "split" =>
    \A k \in prog[c][n].classes : k \cap Members[c] = {} \/ k \cap Members[Peer[c]] = {}

(***************************************************************************)
(* The bits of a process are in one place each: free in its mask, the      *)
(* receive bit of a communicator, or in the hands of one thread.           *)
(***************************************************************************)
KBit(k) == BitOf(k.recvcontext_id)
TBit(t) == BitOf(t.id)
Exchanging(p) == {c \in Own[p] : thread[<<p, c>>].pc = "exchange"}
Fresh(p, b) == b \notin context_mask[p] /\ \A c \in Own[p] : b # RecvBit[c]

DistinctInv(p) ==
  /\ \A c \in Own[p] : RecvBit[c] \notin context_mask[p]
  /\ \A k \in comms[p] : Fresh(p, KBit(k))
  /\ \A j, k \in comms[p] : KBit(j) = KBit(k) => j = k
  /\ \A c \in Exchanging(p) : Fresh(p, TBit(thread[<<p, c>>]))
  /\ \A c \in Exchanging(p) : \A k \in comms[p] : KBit(k) # TBit(thread[<<p, c>>])
  /\ \A c, d \in Exchanging(p) :
       TBit(thread[<<p, c>>]) = TBit(thread[<<p, d>>]) => c = d

LEMMA DistinctInit == Init => \A p \in Proc : DistinctInv(p)
<1> SUFFICES ASSUME Init, NEW p \in Proc PROVE DistinctInv(p)
  OBVIOUS
<1>1. comms[p] = {} /\ Exchanging(p) = {}
  BY ThreadPairs DEF Init, Exchanging
<1>2. \A c \in Own[p] : RecvBit[c] \notin context_mask[p]
  BY DEF Init
<1>3. QED
  BY <1>1, <1>2 DEF DistinctInv

(***************************************************************************)
(* A process whose mask and communicators stay, and where no thread has    *)
(* begun an exchange.                                                      *)
(***************************************************************************)
LEMMA DistinctFrame ==
  ASSUME NEW p \in Proc, DistinctInv(p),
         context_mask'[p] = context_mask[p], comms'[p] = comms[p],
         \A c \in Own[p] : thread'[<<p, c>>].pc = "exchange" =>
           thread[<<p, c>>].pc = "exchange" /\ thread'[<<p, c>>].id = thread[<<p, c>>].id
  PROVE  DistinctInv(p)'
<1>1. \A c \in Exchanging(p)' : /\ c \in Exchanging(p)
                               /\ TBit(thread'[<<p, c>>]) = TBit(thread[<<p, c>>])
  BY DEF Exchanging, TBit
<1>2. \A b : Fresh(p, b)' <=> Fresh(p, b)
  BY DEF Fresh
<1>3. QED
  BY <1>1, <1>2 DEF DistinctInv

LEMMA DistinctElsewhere ==
  ASSUME NEW p \in Proc, NEW c, Others(p, c), Elsewhere(p),
         \A q \in Proc : DistinctInv(q), DistinctInv(p)'
  PROVE  \A q \in Proc : DistinctInv(q)'
<1> SUFFICES ASSUME NEW q \in Proc \ {p} PROVE DistinctInv(q)'
  OBVIOUS
<1>1. \A d \in Own[q] : thread'[<<q, d>>] = thread[<<q, d>>]
  BY ThreadPairs DEF Others
<1>2. QED
  BY <1>1, DistinctFrame DEF Elsewhere

(***************************************************************************)
(* A free bit is taken out of the mask, for a communicator or a thread; or *)
(* one goes from a thread to a communicator.                               *)
(***************************************************************************)
LEMMA DistinctBuild ==
  ASSUME NEW p \in Proc, DistinctInv(p), NEW k, comms'[p] = comms[p] \cup {k},
         context_mask'[p] \subseteq context_mask[p],
         Fresh(p, KBit(k))', \A j \in comms[p] : KBit(j) # KBit(k),
         \A c \in Exchanging(p)' : /\ c \in Exchanging(p)
                                  /\ TBit(thread'[<<p, c>>]) = TBit(thread[<<p, c>>])
                                  /\ TBit(thread[<<p, c>>]) # KBit(k)
  PROVE  DistinctInv(p)'
<1>1. \A b : Fresh(p, b) => Fresh(p, b)'
  BY DEF Fresh
<1>2. QED
  BY <1>1 DEF DistinctInv

LEMMA NeverMatched ==
  ASSUME NoClassBetween, LendInv, NEW p \in Proc, NEW c \in Own[p], CreateInter(p, c)
  PROVE  ~(Call(p, c).op = "split" /\ Matched(p, c))
<1> DEFINE t == thread[<<p, c>>]
<1>1. /\ TypeInv /\ ThreadInv(p, c) /\ t \in ThreadRec /\ c \in Comm /\ p \in Members[c]
      /\ t.pc = "exchange"
  BY ThreadPairs DEF LendInv, TypeInv, CreateInter
<1>2. Inter(c) /\ t.n + 1 \in 1..Len(program[c]) /\ Call(p, c) = program[c][t.n + 1]
  BY <1>1, ProgramFacts DEF ThreadInv, ThreadRec, Rec, Call
<1>3. program \in Programs
  BY <1>1 DEF TypeInv
<1>4. Call(p, c).op = "split" =>
        \A l \in Call(p, c).classes : l \cap Members[c] = {} \/ l \cap Members[Peer[c]] = {}
  BY <1>1, <1>2, <1>3 DEF NoClassBetween
<1>5. QED
  BY <1>1, <1>4 DEF Matched, Class

LEMMA DistinctStep ==
  ASSUME NoClassBetween, LendInv, \A p \in Proc : DistinctInv(p), [Next]_vars
  PROVE  \A p \in Proc : DistinctInv(p)'
<1>1. TypeInv
  BY DEF LendInv
<1>2. ASSUME NEW p \in Proc, NEW c \in Own[p], Step(p, c)
      PROVE  \A q \in Proc : DistinctInv(q)'
  <2> DEFINE t == thread[<<p, c>>]
             u == thread'[<<p, c>>]
             bit == Find_context_bit(p, t.mask)
  <2>1. /\ ThreadInv(p, c) /\ t \in ThreadRec /\ <<p, c>> \in Thread /\ c \in Comm
        /\ p \in Members[c] /\ DistinctInv(p)
    BY ThreadPairs DEF LendInv, TypeInv
  <2>2. ASSUME Others(p, c)
        PROVE \A d \in Own[p] \ {c} : thread'[<<p, d>>] = thread[<<p, d>>]
    BY <2>2, ThreadPairs DEF Others
  <2>3. CASE Enter(p, c) \/ Retry(p, c) \/ NotFound(p, c)
    <3>1. /\ Others(p, c) /\ Elsewhere(p) /\ u.pc # "exchange"
          /\ context_mask'[p] = context_mask[p] /\ comms'[p] = comms[p]
      BY <2>3, ContributeEffect, NotFoundEffect
    <3>2. DistinctInv(p)'
      BY <2>1, <2>2, <3>1, DistinctFrame
    <3>3. QED
      BY <3>1, <3>2, DistinctElsewhere
  <2>4. CASE FoundIntra(p, c)
    <3>1. PICK k : k = NewComm(p, c, IdOf(bit), IdOf(bit))
      OBVIOUS
    <3>2. /\ Others(p, c) /\ Elsewhere(p) /\ u.pc = "idle" /\ bit \in t.mask
          /\ \/ context_mask'[p] = context_mask[p] \ {bit} /\ comms'[p] = comms[p] \cup {k}
             \/ context_mask'[p] = context_mask[p] /\ comms'[p] = comms[p]
      BY <2>4, <3>1, FoundIntraEffect
    <3>3. bit \in Bit /\ bit \in context_mask[p] /\ KBit(k) = bit
      BY <2>1, <3>1, <3>2, IdBits DEF ThreadInv, ThreadRec, Rec, NewComm, KBit
    <3>4. CASE context_mask'[p] = context_mask[p] /\ comms'[p] = comms[p]
      <4>1. DistinctInv(p)'
        BY <2>1, <2>2, <3>2, <3>4, DistinctFrame
      <4>2. QED
        BY <3>2, <4>1, DistinctElsewhere
    <3>5. CASE context_mask'[p] = context_mask[p] \ {bit} /\ comms'[p] = comms[p] \cup {k}
      <4>1. Fresh(p, KBit(k))'
        BY <2>1, <3>3, <3>5 DEF Fresh, DistinctInv
      <4>2. \A j \in comms[p] : KBit(j) # KBit(k)
        BY <2>1, <3>3 DEF Fresh, DistinctInv
      <4>3. \A d \in Exchanging(p)' : /\ d \in Exchanging(p)
                                     /\ TBit(thread'[<<p, d>>]) = TBit(thread[<<p, d>>])
                                     /\ TBit(thread[<<p, d>>]) # KBit(k)
        BY <2>1, <2>2, <3>2, <3>3 DEF Exchanging, DistinctInv, Fresh
      <4>4. DistinctInv(p)'
        BY <2>1, <3>5, <4>1, <4>2, <4>3, DistinctBuild
      <4>5. QED
        BY <3>2, <4>4, DistinctElsewhere
    <3>6. QED
      BY <3>2, <3>4, <3>5
  <2>5. CASE FoundInter(p, c)
    <3>1. PICK b : b = bit
      OBVIOUS
    <3>2. /\ Others(p, c) /\ Elsewhere(p) /\ comms'[p] = comms[p] /\ b \in t.mask
          /\ u.pc = "exchange" /\ u.id = IdOf(b) /\ context_mask'[p] = context_mask[p] \ {b}
          /\ t.pc = "evaluate"
      BY <2>5, <3>1, FoundInterEffect DEF Elsewhere
    <3>3. b \in Bit /\ b \in context_mask[p] /\ TBit(u) = b
      BY <2>1, <3>2, IdBits DEF ThreadInv, ThreadRec, Rec, TBit
    <3>4. \A e : Fresh(p, e) => Fresh(p, e)' /\ e # b
      BY <3>2, <3>3 DEF Fresh
    <3>5. Fresh(p, b)'
      BY <2>1, <3>2, <3>3 DEF Fresh, DistinctInv
    <3>6. \A d \in Exchanging(p)' : d # c => /\ d \in Exchanging(p)
                                            /\ thread'[<<p, d>>] = thread[<<p, d>>]
      BY <2>2, <3>2 DEF Exchanging
    <3>7. /\ \A d \in Exchanging(p) : Fresh(p, TBit(thread[<<p, d>>]))
          /\ \A k \in comms[p] : Fresh(p, KBit(k))
      BY <2>1 DEF DistinctInv
    <3> HIDE DEF bit, t
    <3>8. \A d \in Exchanging(p)' :
            d # c => Fresh(p, TBit(thread[<<p, d>>]))' /\ TBit(thread[<<p, d>>])' # b
      BY <3>4, <3>6, <3>7
    <3>9. \A d \in Exchanging(p)' : Fresh(p, TBit(thread[<<p, d>>]))'
      BY <3>3, <3>5, <3>8
    <3>10. \A d \in Exchanging(p)' : \A k \in comms[p] : KBit(k) # TBit(thread'[<<p, d>>])
      <4> SUFFICES ASSUME NEW d \in Exchanging(p)', NEW k \in comms[p]
                   PROVE  KBit(k) # TBit(thread'[<<p, d>>])
        OBVIOUS
      <4>1. CASE d = c
        BY <3>3, <3>4, <3>7, <4>1
      <4>2. CASE d # c
        BY <2>1, <3>6, <4>2 DEF DistinctInv
      <4>3. QED
        BY <4>1, <4>2
    <3>11. \A d, e \in Exchanging(p)' :
             TBit(thread'[<<p, d>>]) = TBit(thread'[<<p, e>>]) => d = e
      <4> SUFFICES ASSUME NEW d \in Exchanging(p)', NEW e \in Exchanging(p)', d # e
                   PROVE  TBit(thread'[<<p, d>>]) # TBit(thread'[<<p, e>>])
        OBVIOUS
      <4>1. CASE d = c
        BY <3>3, <3>8, <4>1
      <4>2. CASE e = c
        BY <3>3, <3>8, <4>2
      <4>3. CASE d # c /\ e # c
        BY <2>1, <3>6, <4>3 DEF DistinctInv
      <4>4. QED
        BY <4>1, <4>2, <4>3
    <3>12. /\ \A d \in Own[p] : RecvBit[d] \notin context_mask'[p]
           /\ \A k \in comms'[p] : Fresh(p, KBit(k))'
           /\ \A k, l \in comms'[p] : KBit(k) = KBit(l) => k = l
      BY <2>1, <3>2, <3>4 DEF DistinctInv
    <3>13. DistinctInv(p)'
      BY <3>2, <3>9, <3>10, <3>11, <3>12 DEF DistinctInv
    <3>14. QED
      BY <3>2, <3>13, DistinctElsewhere
  <2>6. CASE Exchange(p, c)
    <3>1. thread' = thread /\ context_mask' = context_mask /\ comms' = comms
      BY <2>6, ExchangeEffect
    <3>2. QED
      BY <3>1, DistinctFrame
  <2>7. CASE CreateInter(p, c)
    <3>1. PICK k : k = NewComm(p, c, told[c][t.n + 1], t.id)
      OBVIOUS
    <3>2. ~(Call(p, c).op = "split" /\ Matched(p, c))
      BY <2>7, NeverMatched
    <3>3. /\ Others(p, c) /\ Elsewhere(p) /\ t.pc = "exchange" /\ u.pc = "idle"
          /\ \/ context_mask'[p] = context_mask[p] /\ comms'[p] = comms[p] \cup {k}
             \/ /\ comms'[p] = comms[p]
                /\ context_mask'[p] = context_mask[p] \cup {TBit(t)}
      BY <2>7, <3>1, <3>2, CreateInterEffect DEF TBit
    <3>4. KBit(k) = TBit(t)
      BY <3>1 DEF KBit, TBit, NewComm
    <3>5. c \in Exchanging(p) /\ Fresh(p, TBit(t)) /\ \A j \in comms[p] : KBit(j) # TBit(t)
      BY <2>1, <3>3 DEF Exchanging, DistinctInv
    <3>6. \A d \in Exchanging(p)' : /\ d \in Exchanging(p) /\ d # c
                                   /\ thread'[<<p, d>>] = thread[<<p, d>>]
                                   /\ TBit(thread[<<p, d>>]) # TBit(t)
      BY <2>1, <2>2, <3>3, <3>5 DEF Exchanging, DistinctInv
    <3> HIDE DEF t, u
    <3>7. CASE context_mask'[p] = context_mask[p] /\ comms'[p] = comms[p] \cup {k}
      <4>1. Fresh(p, KBit(k))'
        BY <3>4, <3>5, <3>7 DEF Fresh
      <4>2. DistinctInv(p)'
        BY <2>1, <3>4, <3>5, <3>6, <3>7, <4>1, DistinctBuild
      <4>3. QED
        BY <3>3, <4>2, DistinctElsewhere
    <3>8. CASE /\ comms'[p] = comms[p]
               /\ context_mask'[p] = context_mask[p] \cup {TBit(t)}
      <4>1. \A b : Fresh(p, b) /\ b # TBit(t) => Fresh(p, b)'
        BY <3>8 DEF Fresh
      <4>2. \A d \in Own[p] : RecvBit[d] \notin context_mask'[p]
        BY <2>1, <3>5, <3>8 DEF DistinctInv, Fresh
      <4>3. DistinctInv(p)'
        BY <2>1, <3>5, <3>6, <3>8, <4>1, <4>2 DEF DistinctInv
      <4>4. QED
        BY <3>3, <4>3, DistinctElsewhere
    <3>9. QED
      BY <3>3, <3>7, <3>8
  <2>8. QED
    BY <1>2, <2>3, <2>4, <2>5, <2>6, <2>7 DEF Step
<1>3. ASSUME NEW c \in Comm, Allreduce(c) PROVE \A p \in Proc : DistinctInv(p)'
  <2>1. /\ context_mask' = context_mask /\ comms' = comms
        /\ \A x \in Thread : x[2] # c => thread'[x] = thread[x]
        /\ \A p \in Members[c] : thread'[<<p, c>>].pc = "evaluate"
    BY <1>3, AllreduceEffect
  <2>2. \A p \in Proc : \A d \in Own[p] : thread'[<<p, d>>].pc = "exchange" =>
           thread'[<<p, d>>] = thread[<<p, d>>]
    BY <2>1, ThreadPairs
  <2>3. QED
    BY <2>1, <2>2, DistinctFrame
<1>4. ASSUME NEW p \in Proc, NEW k \in comms[p], Comm_free(p, k)
      PROVE  \A q \in Proc : DistinctInv(q)'
  <2>1. /\ thread' = thread /\ Elsewhere(p) /\ comms'[p] = comms[p] \ {k}
        /\ context_mask'[p] = context_mask[p] \cup {KBit(k)}
    BY <1>4, FreeEffect DEF KBit
  <2>2. DistinctInv(p) /\ Exchanging(p)' = Exchanging(p)
    BY <2>1 DEF Exchanging
  <2>3. \A b : Fresh(p, b) /\ b # KBit(k) => Fresh(p, b)'
    BY <2>1 DEF Fresh
  <2>4. \A c \in Own[p] : RecvBit[c] \notin context_mask'[p]
    BY <2>1, <2>2 DEF DistinctInv, Fresh
  <2>5. DistinctInv(p)'
    BY <2>1, <2>2, <2>3, <2>4 DEF DistinctInv
  <2>6. \A q \in Proc \ {p} : DistinctInv(q)'
    BY <2>1, DistinctFrame DEF Elsewhere
  <2>7. QED
    BY <2>5, <2>6
<1>5. CASE UNCHANGED vars
  BY <1>5, DistinctFrame DEF vars
<1>6. QED
  <2>1. \A x \in Thread : x[1] \in Proc /\ x[2] \in Own[x[1]]
    BY ThreadPairs
  <2>2. QED
    BY <1>2, <1>3, <1>4, <1>5, <2>1 DEF Next

(***************************************************************************)
(* Messages of different communicators never meet, and those of one find   *)
(* each other (mpiimpl.h, recvcontext_id; commutil.c), where no class has  *)
(* processes of both sides of an intercommunicator.                        *)
(***************************************************************************)
THEOREM IdsAlwaysRight ==
  ASSUME NoClassBetween
  PROVE  Spec => []IdsRight
<1> DEFINE Inv == LendInv /\ AgreeInv /\ \A p \in Proc : DistinctInv(p)
<1>1. Init => Inv
  BY LendInit, AgreeInit, DistinctInit
<1>2. Inv /\ [Next]_vars => Inv'
  BY LendStep, AgreeStep, DistinctStep
<1>3. Inv => RecvIdsDistinct
  <2> SUFFICES ASSUME Inv, NEW p \in Proc
               PROVE  /\ \A j, k \in comms[p] : j # k => j.recvcontext_id # k.recvcontext_id
                      /\ \A k \in comms[p], c \in Own[p] : BitOf(k.recvcontext_id) # RecvBit[c]
    BY DEF RecvIdsDistinct
  <2>1. DistinctInv(p)
    OBVIOUS
  <2>2. QED
    BY <2>1 DEF DistinctInv, Fresh, KBit
<1> HIDE DEF Inv
<1>4. Spec => []RecvIdsDistinct
  BY <1>1, <1>2, <1>3, PTL DEF Spec
<1>5. QED
  BY <1>4, NewCommsAgree, PTL DEF IdsRight

-----------------------------------------------------------------------------
(***************************************************************************)
(* The refinement: the pools and holdings of ContextAlloc.                 *)
(***************************************************************************)
Granting(p) == {c \in Own[p] : thread[<<p, c>>].pc = "evaluate" /\ thread[<<p, c>>].mask # {}}
FreeBits(p) == context_mask[p] \ Granted(p)
HeldBits(p) == {KBit(k) : k \in comms[p]} \cup Granted(p) \cup InHand(p)
Free == [p \in Proc |-> FreeBits(p)]
Held == [p \in Proc |-> HeldBits(p)]
Quiet(p) == FreeBits(p)' = FreeBits(p) /\ HeldBits(p)' = HeldBits(p)

LEMMA TakeStep ==
  ASSUME NEW c \in Comm, NEW b, Members[c] # {}, Members[c] \subseteq Proc,
         \A p \in Members[c] : /\ b \in FreeBits(p) /\ FreeBits(p)' = FreeBits(p) \ {b}
                               /\ HeldBits(p)' = HeldBits(p) \cup {b},
         \A p \in Proc \ Members[c] : Quiet(p)
  PROVE  Alloc!Next
<1> DEFINE g == Members[c]
<1>1. /\ Free' = [p \in Proc |-> Free[p] \ (IF p \in g THEN {b} ELSE {})]
      /\ Held' = [p \in Proc |-> Held[p] \cup (IF p \in g THEN {b} ELSE {})]
  BY DEF Free, Held, Quiet
<1>2. b \in {n \in UNION {Free[p] : p \in g} : \A p \in g : n \in Free[p]}
  BY DEF Free
<1>3. g \in {Members[d] : d \in Comm}
  OBVIOUS
<1> HIDE DEF g
<1>4. Alloc!Take(g)
  BY <1>1, <1>2 DEF Alloc!Take, Free, Held, FreeBits, HeldBits, KBit
<1>5. QED
  BY <1>3, <1>4 DEF Alloc!Next

LEMMA GiveStep ==
  ASSUME NEW p \in Proc, NEW b, b \in HeldBits(p), HeldBits(p)' = HeldBits(p) \ {b},
         FreeBits(p)' = FreeBits(p) \cup {b}, \A q \in Proc \ {p} : Quiet(q)
  PROVE  Alloc!Next
<1>1. /\ Free' = [Free EXCEPT ![p] = @ \cup {b}]
      /\ Held' = [Held EXCEPT ![p] = @ \ {b}]
      /\ b \in Held[p]
  BY DEF Free, Held, Quiet
<1>2. Alloc!GiveBack(p)
  BY <1>1 DEF Alloc!GiveBack, Free, Held, FreeBits, HeldBits, KBit
<1>3. QED
  BY <1>2 DEF Alloc!Next

LEMMA QuietStep ==
  ASSUME \A p \in Proc : Quiet(p)
  PROVE  UNCHANGED <<Free, Held>>
BY DEF Free, Held, Quiet

(***************************************************************************)
(* At most one thread of a process has a result it has not looked at.      *)
(***************************************************************************)
LEMMA GrantedFacts ==
  ASSUME LendInv, NEW p \in Proc
  PROVE  /\ Granted(p) \subseteq context_mask[p]
         /\ Granted(p) = {Find_context_bit(p, thread[<<p, c>>].mask) : c \in Granting(p)}
         /\ InHand(p) = {TBit(thread[<<p, c>>]) : c \in Exchanging(p)}
         /\ \A c \in Own[p] : thread[<<p, c>>].own /\ c \notin Granting(p) => Granting(p) = {}
         /\ \A c \in Granting(p) :
              /\ thread[<<p, c>>].own /\ Granting(p) = {c}
              /\ Granted(p) = {Find_context_bit(p, thread[<<p, c>>].mask)}
<1>1. /\ Granted(p) = {Find_context_bit(p, thread[<<p, c>>].mask) : c \in Granting(p)}
      /\ InHand(p) = {TBit(thread[<<p, c>>]) : c \in Exchanging(p)}
  BY DEF Granted, Granting, InHand, Exchanging, TBit
<1>2. \A c \in Granting(p) : c \in Own[p] /\ thread[<<p, c>>].own /\ thread[<<p, c>>].mask # {}
  BY DEF Granting, LendInv, ThreadInv
<1>3. \A c, d \in Own[p] : thread[<<p, c>>].own /\ thread[<<p, d>>].own => c = d
  BY DEF LendInv, OwnInv
<1>4. \A c \in Granting(p) : Granting(p) = {c}
  BY <1>2, <1>3
<1>5. \A c \in Granting(p) : Find_context_bit(p, thread[<<p, c>>].mask) \in context_mask[p]
  <2> SUFFICES ASSUME NEW c \in Granting(p)
               PROVE  Find_context_bit(p, thread[<<p, c>>].mask) \in context_mask[p]
    OBVIOUS
  <2>1. <<p, c>> \in Thread /\ thread[<<p, c>>].mask \subseteq context_mask[p]
    BY <1>2, ThreadPairs DEF LendInv, ThreadInv
  <2>2. thread[<<p, c>>].mask \in SUBSET Bit
    BY <2>1 DEF LendInv, TypeInv, ThreadRec, Rec
  <2>3. Find_context_bit(p, thread[<<p, c>>].mask) \in thread[<<p, c>>].mask
    BY <1>2, <2>2, FindBit
  <2>4. QED
    BY <2>1, <2>3
<1>6. \A c \in Own[p] : thread[<<p, c>>].own /\ c \notin Granting(p) => Granting(p) = {}
  BY <1>2, <1>3
<1>7. \A c \in Granting(p) : Granted(p) = {Find_context_bit(p, thread[<<p, c>>].mask)}
  <2> SUFFICES ASSUME NEW c \in Granting(p)
               PROVE  Granted(p) = {Find_context_bit(p, thread[<<p, c>>].mask)}
    OBVIOUS
  <2>1. Granting(p) = {c}
    BY <1>4
  <2>2. QED
    BY <1>1, <2>1
<1>8. Granted(p) \subseteq context_mask[p]
  BY <1>1, <1>5
<1>9. QED
  BY <1>1, <1>2, <1>4, <1>6, <1>7, <1>8

LEMMA QuietFrame ==
  ASSUME NEW p \in Proc, context_mask'[p] = context_mask[p], comms'[p] = comms[p],
         Granting(p)' = Granting(p), Exchanging(p)' = Exchanging(p),
         \A c \in Granting(p) \cup Exchanging(p) : thread'[<<p, c>>] = thread[<<p, c>>]
  PROVE  Quiet(p)
<1>1. Granted(p)' = Granted(p)
  <2>1. Granted(p) = {Find_context_bit(p, thread[<<p, c>>].mask) : c \in Granting(p)}
    BY DEF Granted, Granting
  <2>2. Granted(p)' = {Find_context_bit(p, thread'[<<p, c>>].mask) : c \in Granting(p)'}
    BY DEF Granted, Granting, Find_context_bit
  <2>3. QED
    BY <2>1, <2>2
<1>2. InHand(p)' = InHand(p)
  <2>1. InHand(p) = {TBit(thread[<<p, c>>]) : c \in Exchanging(p)}
    BY DEF InHand, Exchanging, TBit
  <2>2. InHand(p)' = {TBit(thread'[<<p, c>>]) : c \in Exchanging(p)'}
    BY DEF InHand, Exchanging, TBit
  <2>3. QED
    BY <2>1, <2>2
<1>3. {KBit(k) : k \in comms[p]}' = {KBit(k) : k \in comms[p]}
  BY DEF KBit
<1>4. QED
  BY <1>1, <1>2, <1>3 DEF Quiet, FreeBits, HeldBits

LEMMA QuietElsewhere ==
  ASSUME NEW p \in Proc, NEW c, Others(p, c), Elsewhere(p)
  PROVE  \A q \in Proc \ {p} : Quiet(q)
<1> SUFFICES ASSUME NEW q \in Proc \ {p} PROVE Quiet(q)
  OBVIOUS
<1>1. \A d \in Own[q] : thread'[<<q, d>>] = thread[<<q, d>>]
  BY ThreadPairs DEF Others
<1>2. Granting(q)' = Granting(q) /\ Exchanging(q)' = Exchanging(q)
  BY <1>1 DEF Granting, Exchanging
<1>3. \A d \in Granting(q) \cup Exchanging(q) : thread'[<<q, d>>] = thread[<<q, d>>]
  BY <1>1 DEF Granting, Exchanging
<1>4. QED
  BY <1>2, <1>3, QuietFrame DEF Elsewhere

(***************************************************************************)
(* The step of one process from its result to its next state: Granted is   *)
(* {bit} before and empty after.                                           *)
(***************************************************************************)
LEMMA RefFoundIntra ==
  ASSUME LendInv, NEW p \in Proc, DistinctInv(p), NEW c \in Own[p], FoundIntra(p, c)
  PROVE  Quiet(p) \/ \E b \in HeldBits(p) : /\ HeldBits(p)' = HeldBits(p) \ {b}
                                            /\ FreeBits(p)' = FreeBits(p) \cup {b}
<1> DEFINE t == thread[<<p, c>>]
           u == thread'[<<p, c>>]
<1>1. PICK b : b = Find_context_bit(p, t.mask)
  OBVIOUS
<1>2. PICK k : k = NewComm(p, c, IdOf(b), IdOf(b))
  OBVIOUS
<1>3. /\ Others(p, c) /\ t.pc = "evaluate" /\ t.mask # {} /\ b \in t.mask /\ u.pc = "idle"
      /\ \/ /\ context_mask'[p] = context_mask[p] \ {b}
            /\ comms'[p] = comms[p] \cup {k}
         \/ context_mask'[p] = context_mask[p] /\ comms'[p] = comms[p]
  BY <1>1, <1>2, FoundIntraEffect
<1>4. b \in Bit /\ b \in context_mask[p] /\ KBit(k) = b
  <2>1. ThreadInv(p, c) /\ t \in ThreadRec
    BY ThreadPairs DEF LendInv, TypeInv
  <2>2. QED
    BY <1>2, <1>3, <2>1, IdBits DEF ThreadInv, ThreadRec, Rec, NewComm, KBit
<1>5. c \in Granting(p) /\ Granted(p) = {b} /\ Granting(p) = {c}
  <2>1. c \in Granting(p)
    BY <1>3 DEF Granting
  <2>2. QED
    BY <1>1, <2>1, GrantedFacts
<1>6. \A d \in Own[p] \ {c} : thread'[<<p, d>>] = thread[<<p, d>>]
  BY <1>3, ThreadPairs DEF Others
<1>7. Granting(p)' = {} /\ Exchanging(p)' = Exchanging(p)
  BY <1>3, <1>5, <1>6 DEF Granting, Exchanging
<1>8. Granted(p)' = {}
  BY <1>7 DEF Granted, Granting
<1>9. InHand(p)' = InHand(p)
  <2>1. InHand(p) = {TBit(thread[<<p, d>>]) : d \in Exchanging(p)}
    BY DEF InHand, Exchanging, TBit
  <2>2. InHand(p)' = {TBit(thread'[<<p, d>>]) : d \in Exchanging(p)'}
    BY DEF InHand, Exchanging, TBit
  <2>3. \A d \in Exchanging(p) : thread'[<<p, d>>] = thread[<<p, d>>]
    BY <1>3, <1>6 DEF Exchanging
  <2>4. QED
    BY <1>7, <2>1, <2>2, <2>3
<1>10. b \notin InHand(p) /\ b \notin {KBit(j) : j \in comms[p]}
  <2>1. InHand(p) = {TBit(thread[<<p, d>>]) : d \in Exchanging(p)}
    BY GrantedFacts
  <2>2. \A d \in Exchanging(p) : Fresh(p, TBit(thread[<<p, d>>]))
    BY DEF DistinctInv
  <2>3. \A j \in comms[p] : Fresh(p, KBit(j))
    BY DEF DistinctInv
  <2>4. ~Fresh(p, b)
    BY <1>4 DEF Fresh
  <2>5. QED
    BY <2>1, <2>2, <2>3, <2>4
<1>11. {KBit(j) : j \in comms[p]}' = {KBit(j) : j \in comms'[p]}
  BY DEF KBit
<1> HIDE DEF t, u
<1>12. CASE context_mask'[p] = context_mask[p] \ {b} /\ comms'[p] = comms[p] \cup {k}
  <2>1. {KBit(j) : j \in comms'[p]} = {KBit(j) : j \in comms[p]} \cup {b}
    BY <1>4, <1>12
  <2>2. QED
    BY <1>5, <1>8, <1>9, <1>11, <1>12, <2>1 DEF Quiet, FreeBits, HeldBits
<1>13. CASE context_mask'[p] = context_mask[p] /\ comms'[p] = comms[p]
  <2>1. b \in HeldBits(p) /\ HeldBits(p)' = HeldBits(p) \ {b}
    BY <1>5, <1>8, <1>9, <1>10, <1>11, <1>13 DEF HeldBits
  <2>2. FreeBits(p)' = FreeBits(p) \cup {b}
    BY <1>4, <1>5, <1>8, <1>13 DEF FreeBits
  <2>3. QED
    BY <2>1, <2>2
<1>14. QED
  BY <1>3, <1>12, <1>13

LEMMA RefFoundInter ==
  ASSUME LendInv, NEW p \in Proc, NEW c \in Own[p], FoundInter(p, c)
  PROVE  Quiet(p)
<1> DEFINE t == thread[<<p, c>>]
           u == thread'[<<p, c>>]
<1>1. PICK b : b = Find_context_bit(p, t.mask)
  OBVIOUS
<1>2. /\ Others(p, c) /\ Elsewhere(p) /\ comms'[p] = comms[p] /\ t.pc = "evaluate"
      /\ t.mask # {} /\ b \in t.mask /\ u.pc = "exchange" /\ u.id = IdOf(b)
      /\ context_mask'[p] = context_mask[p] \ {b}
  BY <1>1, FoundInterEffect DEF Elsewhere
<1>3. TBit(u) = b
  <2>1. t \in ThreadRec
    BY ThreadPairs DEF LendInv, TypeInv
  <2>2. QED
    BY <1>2, <2>1, IdBits DEF ThreadRec, Rec, TBit
<1>4. Granted(p) = {b} /\ Granting(p) = {c}
  <2>1. c \in Granting(p)
    BY <1>2 DEF Granting
  <2>2. QED
    BY <1>1, <2>1, GrantedFacts
<1>5. \A d \in Own[p] \ {c} : thread'[<<p, d>>] = thread[<<p, d>>]
  BY <1>2, ThreadPairs DEF Others
<1>6. Granting(p)' = {} /\ Exchanging(p)' = Exchanging(p) \cup {c} /\ c \notin Exchanging(p)
  BY <1>2, <1>4, <1>5 DEF Granting, Exchanging
<1>7. Granted(p)' = {}
  BY <1>6 DEF Granted, Granting
<1>8. InHand(p)' = InHand(p) \cup {b}
  <2>1. InHand(p) = {TBit(thread[<<p, d>>]) : d \in Exchanging(p)}
    BY DEF InHand, Exchanging, TBit
  <2>2. InHand(p)' = {TBit(thread'[<<p, d>>]) : d \in Exchanging(p)'}
    BY DEF InHand, Exchanging, TBit
  <2>3. \A d \in Exchanging(p) : thread'[<<p, d>>] = thread[<<p, d>>]
    BY <1>5, <1>6 DEF Exchanging
  <2> HIDE DEF u
  <2>4. QED
    BY <1>3, <1>6, <2>1, <2>2, <2>3 DEF u
<1>9. {KBit(j) : j \in comms[p]}' = {KBit(j) : j \in comms[p]}
  BY <1>2 DEF KBit
<1>10. QED
  BY <1>2, <1>4, <1>7, <1>8, <1>9 DEF Quiet, FreeBits, HeldBits

LEMMA RefCreateInter ==
  ASSUME NoClassBetween, LendInv, NEW p \in Proc, DistinctInv(p),
         NEW c \in Own[p], CreateInter(p, c)
  PROVE  Quiet(p) \/ \E b \in HeldBits(p) : /\ HeldBits(p)' = HeldBits(p) \ {b}
                                            /\ FreeBits(p)' = FreeBits(p) \cup {b}
<1> DEFINE t == thread[<<p, c>>]
           u == thread'[<<p, c>>]
<1>1. PICK b : b = TBit(t)
  OBVIOUS
<1>2. PICK k : k = NewComm(p, c, told[c][t.n + 1], t.id)
  OBVIOUS
<1>3. /\ Others(p, c) /\ t.pc = "exchange" /\ u.pc = "idle"
      /\ \/ context_mask'[p] = context_mask[p] /\ comms'[p] = comms[p] \cup {k}
         \/ comms'[p] = comms[p] /\ context_mask'[p] = context_mask[p] \cup {b}
  BY <1>1, <1>2, NeverMatched, CreateInterEffect DEF TBit
<1>4. KBit(k) = b
  BY <1>1, <1>2 DEF KBit, TBit, NewComm
<1>5. \A d \in Own[p] \ {c} : thread'[<<p, d>>] = thread[<<p, d>>]
  BY <1>3, ThreadPairs DEF Others
<1>6. /\ Granting(p)' = Granting(p) /\ Exchanging(p)' = Exchanging(p) \ {c}
      /\ c \in Exchanging(p)
  BY <1>3, <1>5 DEF Granting, Exchanging
<1>7. Granted(p)' = Granted(p)
  <2>1. Granted(p) = {Find_context_bit(p, thread[<<p, d>>].mask) : d \in Granting(p)}
    BY DEF Granted, Granting
  <2>2. Granted(p)' = {Find_context_bit(p, thread'[<<p, d>>].mask) : d \in Granting(p)'}
    BY DEF Granted, Granting, Find_context_bit
  <2>3. \A d \in Granting(p) : thread'[<<p, d>>] = thread[<<p, d>>]
    BY <1>3, <1>5 DEF Granting
  <2>4. QED
    BY <1>6, <2>1, <2>2, <2>3
<1>8. InHand(p) = InHand(p)' \cup {b} /\ b \notin InHand(p)'
  <2>1. InHand(p) = {TBit(thread[<<p, d>>]) : d \in Exchanging(p)}
    BY DEF InHand, Exchanging, TBit
  <2>2. InHand(p)' = {TBit(thread'[<<p, d>>]) : d \in Exchanging(p)'}
    BY DEF InHand, Exchanging, TBit
  <2>3. \A d \in Exchanging(p)' : /\ thread'[<<p, d>>] = thread[<<p, d>>]
                                 /\ TBit(thread[<<p, d>>]) # b
    BY <1>1, <1>5, <1>6 DEF Exchanging, DistinctInv
  <2> HIDE DEF t
  <2>4. QED
    BY <1>1, <1>6, <2>1, <2>2, <2>3 DEF t
<1>9. {KBit(j) : j \in comms[p]}' = {KBit(j) : j \in comms'[p]}
  BY DEF KBit
<1>10. Fresh(p, b) /\ b \notin {KBit(j) : j \in comms[p]} /\ b \notin Granted(p)
  <2>1. Fresh(p, b) /\ \A j \in comms[p] : KBit(j) # b
    BY <1>1, <1>6 DEF DistinctInv
  <2>2. QED
    BY <2>1, GrantedFacts DEF Fresh
<1> HIDE DEF t, u
<1>11. CASE context_mask'[p] = context_mask[p] /\ comms'[p] = comms[p] \cup {k}
  <2>1. {KBit(j) : j \in comms'[p]} = {KBit(j) : j \in comms[p]} \cup {b}
    BY <1>4, <1>11
  <2>2. QED
    BY <1>7, <1>8, <1>9, <1>11, <2>1 DEF Quiet, FreeBits, HeldBits
<1>12. CASE comms'[p] = comms[p] /\ context_mask'[p] = context_mask[p] \cup {b}
  <2>1. b \in HeldBits(p) /\ HeldBits(p)' = HeldBits(p) \ {b}
    BY <1>7, <1>8, <1>9, <1>10, <1>12 DEF HeldBits
  <2>2. FreeBits(p)' = FreeBits(p) \cup {b}
    BY <1>7, <1>10, <1>12 DEF FreeBits
  <2>3. QED
    BY <2>1, <2>2
<1>13. QED
  BY <1>3, <1>11, <1>12

LEMMA RefFree ==
  ASSUME LendInv, NEW p \in Proc, DistinctInv(p), NEW k \in comms[p], Comm_free(p, k)
  PROVE  \E b \in HeldBits(p) : /\ HeldBits(p)' = HeldBits(p) \ {b}
                                /\ FreeBits(p)' = FreeBits(p) \cup {b}
<1>1. PICK b : b = KBit(k)
  OBVIOUS
<1>2. /\ thread' = thread /\ comms'[p] = comms[p] \ {k}
      /\ context_mask'[p] = context_mask[p] \cup {b}
  BY <1>1, FreeEffect DEF KBit
<1>3. Granted(p)' = Granted(p) /\ InHand(p)' = InHand(p)
  BY <1>2 DEF Granted, InHand, Find_context_bit
<1>4. \A j \in comms[p] : KBit(j) = b => j = k
  BY <1>1 DEF DistinctInv
<1>5. b \notin Granted(p) /\ b \notin InHand(p)
  <2>1. Fresh(p, b)
    BY <1>1 DEF DistinctInv
  <2>2. \A c \in Exchanging(p) : TBit(thread[<<p, c>>]) # b
    BY <1>1 DEF DistinctInv
  <2>3. /\ Granted(p) \subseteq context_mask[p]
        /\ InHand(p) = {TBit(thread[<<p, c>>]) : c \in Exchanging(p)}
    BY GrantedFacts
  <2>4. QED
    BY <2>1, <2>2, <2>3 DEF Fresh
<1>6. /\ {KBit(j) : j \in comms[p]}' = {KBit(j) : j \in comms[p]} \ {b}
      /\ b \in {KBit(j) : j \in comms[p]}
  <2>1. {KBit(j) : j \in comms[p]}' = {KBit(j) : j \in comms'[p]}
    BY DEF KBit
  <2>2. QED
    BY <1>1, <1>2, <1>4, <2>1
<1>7. b \in HeldBits(p) /\ HeldBits(p)' = HeldBits(p) \ {b}
  BY <1>3, <1>5, <1>6 DEF HeldBits
<1>8. FreeBits(p)' = FreeBits(p) \cup {b}
  BY <1>2, <1>3, <1>5 DEF FreeBits
<1>9. QED
  BY <1>7, <1>8

LEMMA RefAllreduce ==
  ASSUME LendInv, NEW c \in Comm, Allreduce(c)
  PROVE  Alloc!Next \/ \A p \in Proc : Quiet(p)
<1>1. /\ context_mask' = context_mask /\ comms' = comms
      /\ \A x \in Thread : x[2] # c => thread'[x] = thread[x]
      /\ \A p \in Members[c] :
           LET t == thread[<<p, c>>]  u == thread'[<<p, c>>] IN
           t.pc = "reduce" /\ u.pc = "evaluate" /\ u.mask = And(c) /\ And(c) \subseteq t.mask
  BY AllreduceEffect
<1>2. ASSUME NEW p \in Proc
      PROVE  /\ Exchanging(p)' = Exchanging(p)
             /\ \A d \in Own[p] \ {c} : thread'[<<p, d>>] = thread[<<p, d>>]
             /\ c \notin Exchanging(p) /\ c \notin Granting(p)
             /\ Granting(p)' \ {c} = Granting(p)
             /\ c \in Granting(p)' <=> p \in Members[c] /\ And(c) # {}
  <2>1. \A d \in Own[p] \ {c} : thread'[<<p, d>>] = thread[<<p, d>>]
    BY <1>1, ThreadPairs
  <2>2. c \in Own[p] <=> p \in Members[c]
    BY ThreadPairs
  <2>3. /\ Exchanging(p)' = Exchanging(p) /\ c \notin Exchanging(p)
        /\ c \notin Granting(p) /\ Granting(p)' \ {c} = Granting(p)
    BY <1>1, <2>1, <2>2 DEF Exchanging, Granting
  <2>4. c \in Granting(p)' <=> p \in Members[c] /\ And(c) # {}
    BY <1>1, <2>2 DEF Granting
  <2>5. QED
    BY <2>1, <2>3, <2>4
<1>3. ASSUME NEW p \in Proc, p \notin Members[c] \/ And(c) = {}
      PROVE  Quiet(p)
  <2>1. /\ Exchanging(p)' = Exchanging(p) /\ Granting(p)' = Granting(p)
        /\ \A d \in Granting(p) \cup Exchanging(p) : thread'[<<p, d>>] = thread[<<p, d>>]
    <3>1. c \notin Granting(p)' /\ Granting(p)' \ {c} = Granting(p)
      BY <1>2, <1>3
    <3>2. \A d \in Granting(p) \cup Exchanging(p) : d \in Own[p] \ {c}
      BY <1>2 DEF Granting, Exchanging
    <3>3. QED
      BY <1>2, <3>1, <3>2
  <2>2. QED
    BY <1>1, <2>1, QuietFrame
<1>4. CASE And(c) # {}
  <2>1. PICK b : b \in And(c) /\ \A p : Find_context_bit(p, And(c)) = b
    <3>1. And(c) \in SUBSET Bit
      BY DEF And
    <3>2. \A p : Find_context_bit(p, And(c)) \in And(c)
      BY <1>4, <3>1, FindBit
    <3>3. \A p, q : Find_context_bit(p, And(c)) = Find_context_bit(q, And(c))
      BY DEF Find_context_bit
    <3>4. QED
      BY <3>2, <3>3
  <2>2. ASSUME NEW p \in Members[c]
        PROVE  /\ b \in FreeBits(p) /\ FreeBits(p)' = FreeBits(p) \ {b}
               /\ HeldBits(p)' = HeldBits(p) \cup {b}
    <3>1. p \in Proc /\ c \in Own[p]
      BY ThreadPairs
    <3>2. /\ ThreadInv(p, c) /\ b \in thread[<<p, c>>].mask
          /\ thread[<<p, c>>].own /\ b \in context_mask[p]
      BY <1>1, <2>1, <3>1 DEF LendInv, ThreadInv
    <3>3. Granting(p) = {} /\ Granted(p) = {}
      <4>1. Granting(p) = {}
        BY <1>2, <3>1, <3>2, GrantedFacts
      <4>2. QED
        BY <4>1 DEF Granted, Granting
    <3>4. Granted(p)' = {b}
      <4>1. Granted(p)' = {Find_context_bit(p, thread'[<<p, d>>].mask) : d \in Granting(p)'}
        BY DEF Granted, Granting, Find_context_bit
      <4>2. c \in Granting(p)' /\ Granting(p)' \ {c} = {}
        BY <1>2, <1>4, <3>1, <3>3
      <4>3. Granting(p)' = {c}
        BY <4>2
      <4>4. Find_context_bit(p, thread'[<<p, c>>].mask) = b
        BY <1>1, <2>1
      <4>5. QED
        BY <4>1, <4>3, <4>4
    <3>5. InHand(p)' = InHand(p)
      <4>1. InHand(p) = {TBit(thread[<<p, d>>]) : d \in Exchanging(p)}
        BY DEF InHand, Exchanging, TBit
      <4>2. InHand(p)' = {TBit(thread'[<<p, d>>]) : d \in Exchanging(p)'}
        BY DEF InHand, Exchanging, TBit
      <4>3. \A d \in Exchanging(p) : thread'[<<p, d>>] = thread[<<p, d>>]
        BY <1>2, <3>1 DEF Exchanging
      <4>4. Exchanging(p)' = Exchanging(p)
        BY <1>2, <3>1
      <4>5. QED
        BY <4>1, <4>2, <4>3, <4>4
    <3>6. {KBit(j) : j \in comms[p]}' = {KBit(j) : j \in comms[p]}
      BY <1>1 DEF KBit
    <3>7. QED
      BY <1>1, <3>2, <3>3, <3>4, <3>5, <3>6 DEF FreeBits, HeldBits
  <2>3. Members[c] # {} /\ Members[c] \subseteq Proc
    BY ThreadPairs, ContextIdAssumption
  <2>4. \A p \in Proc \ Members[c] : Quiet(p)
    BY <1>3
  <2>5. QED
    BY <2>2, <2>3, <2>4, TakeStep
<1>5. QED
  BY <1>3, <1>4

(***************************************************************************)
(* A context id leaves the pools of all members at once and comes back     *)
(* from one process at a time, once for every time it was taken, although  *)
(* the masks are looked at, combined and changed at different times        *)
(* (MPIR_Get_contextid, MPIR_Free_contextid).                              *)
(***************************************************************************)
THEOREM IdsAllocatedOnce ==
  ASSUME NoClassBetween
  PROVE  Spec => ImplementsAlloc
<1> DEFINE Inv == LendInv /\ \A p \in Proc : DistinctInv(p)
<1>1. Init => Inv
  BY LendInit, DistinctInit
<1>2. Inv /\ [Next]_vars => Inv'
  BY LendStep, DistinctStep
<1>3. Init => Alloc!Init
  <2> SUFFICES ASSUME Init PROVE Alloc!Init
    OBVIOUS
  <2>1. ASSUME NEW p \in Proc PROVE Granted(p) = {} /\ InHand(p) = {} /\ comms[p] = {}
    BY ThreadPairs DEF Init, Granted, InHand
  <2>2. \A p \in Proc : context_mask[p] = (Bit \ 0..2) \ {RecvBit[c] : c \in Own[p]}
    BY DEF Init
  <2>3. QED
    BY <2>1, <2>2 DEF Alloc!Init
<1>4. Inv /\ [Next]_vars => [Alloc!Next]_<<Free, Held>>
  <2> SUFFICES ASSUME Inv, [Next]_vars PROVE Alloc!Next \/ UNCHANGED <<Free, Held>>
    OBVIOUS
  <2>1. LendInv /\ \A p \in Proc : DistinctInv(p)
    OBVIOUS
  <2> HIDE DEF Inv
  <2> DEFINE Good == Alloc!Next \/ \A p \in Proc : Quiet(p)
  <2>2. ASSUME NEW p \in Proc, \A q \in Proc \ {p} : Quiet(q),
               \/ Quiet(p)
               \/ \E b \in HeldBits(p) : /\ HeldBits(p)' = HeldBits(p) \ {b}
                                         /\ FreeBits(p)' = FreeBits(p) \cup {b}
        PROVE  Good
    <3>1. CASE Quiet(p)
      BY <2>2, <3>1
    <3>2. CASE \E b \in HeldBits(p) : /\ HeldBits(p)' = HeldBits(p) \ {b}
                                      /\ FreeBits(p)' = FreeBits(p) \cup {b}
      BY <2>2, <3>2, GiveStep
    <3>3. QED
      BY <2>2, <3>1, <3>2
  <2>3. ASSUME NEW p \in Proc, NEW c \in Own[p], Step(p, c) PROVE Good
    <3>1. CASE Enter(p, c) \/ Retry(p, c) \/ NotFound(p, c)
      <4>1. LET t == thread[<<p, c>>]  u == thread'[<<p, c>>] IN
            /\ Others(p, c) /\ Elsewhere(p)
            /\ context_mask'[p] = context_mask[p] /\ comms'[p] = comms[p]
            /\ u.pc \in {"reduce", "yield"}
            /\ t.pc \in {"idle", "yield"} \/ (t.pc = "evaluate" /\ t.mask = {})
        BY <2>1, <3>1, ContributeEffect, NotFoundEffect
      <4>2. \A d \in Own[p] \ {c} : thread'[<<p, d>>] = thread[<<p, d>>]
        BY <4>1, ThreadPairs DEF Others
      <4>3. /\ Granting(p)' = Granting(p) /\ Exchanging(p)' = Exchanging(p)
            /\ \A d \in Granting(p) \cup Exchanging(p) : d \in Own[p] \ {c}
        BY <4>1, <4>2 DEF Granting, Exchanging
      <4>4. Quiet(p)
        BY <4>1, <4>2, <4>3, QuietFrame
      <4>5. QED
        BY <2>2, <4>1, <4>4, QuietElsewhere
    <3>2. CASE FoundIntra(p, c)
      BY <2>1, <2>2, <3>2, FoundIntraEffect, RefFoundIntra, QuietElsewhere
    <3>3. CASE FoundInter(p, c)
      BY <2>1, <2>2, <3>3, FoundInterEffect, RefFoundInter, QuietElsewhere
    <3>4. CASE Exchange(p, c)
      <4>1. thread' = thread /\ context_mask' = context_mask /\ comms' = comms
        BY <2>1, <3>4, ExchangeEffect
      <4>2. QED
        BY <4>1, QuietFrame DEF Granting, Exchanging
    <3>5. CASE CreateInter(p, c)
      BY <2>1, <2>2, <3>5, CreateInterEffect, RefCreateInter, QuietElsewhere
    <3>6. QED
      BY <2>3, <3>1, <3>2, <3>3, <3>4, <3>5 DEF Step
  <2>4. ASSUME NEW p \in Proc, NEW k \in comms[p], Comm_free(p, k) PROVE Good
    <3>1. thread' = thread /\ Elsewhere(p)
      BY <2>1, <2>4, FreeEffect
    <3>2. \A q \in Proc \ {p} : Quiet(q)
      BY <3>1, QuietFrame DEF Elsewhere, Granting, Exchanging
    <3>3. QED
      BY <2>1, <2>2, <2>4, <3>2, RefFree
  <2>5. ASSUME UNCHANGED vars PROVE Good
    <3>1. thread' = thread /\ context_mask' = context_mask /\ comms' = comms
      BY <2>5 DEF vars
    <3>2. \A p \in Proc : Quiet(p)
      BY <3>1, QuietFrame DEF Granting, Exchanging
    <3>3. QED
      BY <3>2
  <2>6. Good
    <3>1. \A x \in Thread : x[1] \in Proc /\ x[2] \in Own[x[1]]
      BY ThreadPairs
    <3>2. \A c \in Comm : Allreduce(c) => Good
      BY <2>1, RefAllreduce
    <3> HIDE DEF Good
    <3>3. QED
      BY <2>3, <2>4, <2>5, <3>1, <3>2 DEF Next
  <2>7. QED
    BY <2>6, QuietStep
<1> HIDE DEF Inv
<1>5. Inv /\ [Next]_vars =>
        [Alloc!Next]_<<[p \in Proc |-> context_mask[p] \ Granted(p)],
                       [p \in Proc |-> {BitOf(k.recvcontext_id) : k \in comms[p]}
                                         \cup Granted(p) \cup InHand(p)]>>
  BY <1>4 DEF Free, Held, FreeBits, HeldBits, KBit
<1>6. QED
  BY <1>1, <1>2, <1>3, <1>5, PTL DEF Spec, ImplementsAlloc, Alloc!Spec

===============================================================================
