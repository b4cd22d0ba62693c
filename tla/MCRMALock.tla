------------------------------ MODULE MCRMALock ------------------------------
(* Instances of RMALock for TLC. *)
EXTENDS RMALock

CONSTANTS t, o1, o2

(* every epoch of one operation, small or not, and three of two operations *)
OneOp(l) == [lock : {l}, ops : {<<op>> : op \in Ops}, small : BOOLEAN]
TwoOps(l) == [lock : {l}, ops : {<<"put", "put">>, <<"get", "put">>, <<"put", "get">>},
              small : {FALSE}]
Single(l, ops) == [lock : {l}, ops : {<<op>> : op \in ops}, small : {TRUE}]

(* o1 runs every kind of epoch and o2 puts in one packet: a shared lock and
   an exclusive one never wait both for an epoch of several packets *)
EveryKind == [o \in {o1, o2} |->
  IF o = o1 THEN UNION {OneOp(l) \cup TwoOps(l) : l \in Locks}
            ELSE Single("shared", {"put", "acc"})]

(* both take locks of either kind *)
EitherLock == [o \in {o1, o2} |-> [lock : Locks, ops : {<<"put", "put">>}, small : {FALSE}]]

OneEach == [p \in {t, o1, o2} |-> 1]
TwoOfFirst == [p \in {t, o1, o2} |-> IF p = o1 THEN 2 ELSE 1]
===============================================================================
