------------------------------- MODULE MCPt2Pt -------------------------------
(***************************************************************************)
(* Instances of CH3Pt2Pt for TLC: who may send how many messages to whom   *)
(* and post how many receives.                                             *)
(***************************************************************************)
EXTENDS CH3Pt2Pt

CONSTANTS p1, p2, c1, t1, t2

Want(rank, tag) == [ctx |-> c1, rank |-> rank, tag |-> tag]
Tag1FromP1 == {Want(p1, t1), Want(p1, AnyTag)}
FromAny == {Want(p1, t1), Want(p2, t1), Want(AnySource, t1)}

OneWay(n) == [p \in Proc |-> [q \in Proc |-> IF p = p1 /\ q = p2 THEN n ELSE 0]]
TwoOneWay == OneWay(2)
OneToSelf == [p \in Proc |-> [q \in Proc |-> IF q = p1 THEN 1 ELSE 0]]

ReceiveAt(p, n) == [q \in Proc |-> IF q = p THEN n ELSE 0]
TwoAtP2 == ReceiveAt(p2, 2)
OneAtP1 == ReceiveAt(p1, 1)

=============================================================================
