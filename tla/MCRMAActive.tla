----------------------------- MODULE MCRMAActive -----------------------------
(* Instances of RMAActive for TLC. *)
EXTENDS RMAActive

CONSTANTS p1, p2, p3

Fence(assert) == [kind |-> "fence", assert |-> assert, access |-> {}]
Access(pairs, assert) == [kind |-> "pscw", assert |-> assert, access |-> pairs]

F == Fence({})
FFirst == Fence({"noprecede"})
FLast == Fence({"nosucceed"})

(* two origins and one target, then the other way round *)
TwoToOne == Access({<<p1, p3>>, <<p2, p3>>}, {})
ThereAndBack == Access({<<p1, p2>>, <<p2, p1>>, <<p1, p1>>}, {})

(* fences, then accesses, then fences again, with the asserts the code reads *)
Programs ==
  {<<FFirst, F, FLast>>,
   <<TwoToOne, TwoToOne, ThereAndBack>>,
   <<ThereAndBack, F, FLast>>,
   <<Access({<<p1, p3>>}, {"nocheck"}), Access({<<p1, p3>>}, {})>>}

(* accesses that not every process takes part in, between plain fences *)
Unclosed == {<<F, F, Access({<<p1, p2>>}, {}), F, F>>}

Op(op, t) == [op |-> op, to |-> t]

(* a get is the last operation to its target *)
GetsLast == {<<>>, <<Op("put", p3), Op("get", p3)>>, <<Op("acc", p2), Op("put", p1)>>,
             <<Op("get", p1), Op("put", p2)>>}

GetThenPut == {<<>>, <<Op("get", p2), Op("put", p2)>>}
===============================================================================
