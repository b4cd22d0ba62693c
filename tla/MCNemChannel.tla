----------------------------- MODULE MCNemChannel -----------------------------
(***************************************************************************)
(* Instances of NemChannel for TLC: 0 and 1 send to 2, two messages and    *)
(* one; or 0 sends three, so that its sequence numbers come again.         *)
(***************************************************************************)
EXTENDS NemChannel, TLC

CONSTANTS h, s, l

Kinds == [m \in Msg |-> IF m = h THEN "header" ELSE IF m = s THEN "small" ELSE "large"]
ToTwo == (0 :> {2}) @@ (1 :> {2}) @@ (2 :> {})
TwoSenders == (0 :> 2) @@ (1 :> 1) @@ (2 :> 0)
OneSender == (0 :> 3) @@ (1 :> 0) @@ (2 :> 0)
BothLoads == {TwoSenders, OneSender}
===============================================================================
