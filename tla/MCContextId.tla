----------------------------- MODULE MCContextId -----------------------------
(***************************************************************************)
(* Instances of ContextId for TLC.  W joins three processes, A and B two   *)
(* each, S and T one; L and R are the sides of an intercommunicator.       *)
(***************************************************************************)
EXTENDS ContextId

CONSTANTS W, A, B, S, T, L, R

Comms == {W, A, B, S, T, L, R}
MembersOf == [c \in Comms |->
  CASE c = W -> {1, 2, 3} [] c = A -> {1, 2} [] c = B -> {2, 3}
    [] c = S -> {3}       [] c = T -> {2}    [] c = L -> {1, 2} [] c = R -> {3}]
PeerOf == [c \in Comms |-> IF c = L THEN R ELSE IF c = R THEN L ELSE c]
BitOfComm == [c \in Comms |->
  CASE c = W -> 0 [] c = A -> 3 [] c = B -> 4
    [] c = S -> 3 [] c = T -> 6 [] c \in {L, R} -> 5]

Split(classes) == [op |-> "split", classes |-> classes]
Copy(class) == [op |-> "copy", classes |-> {class}]
None == [c \in Comms |-> <<>>]

(***************************************************************************)
(* Three calls meet at process 2; two calls follow each other on each of   *)
(* two communicators; calls on an intercommunicator and on one of its      *)
(* members meet; a split of an intercommunicator leaves a class on one     *)
(* side only; the two sides happen to choose the same id.                  *)
(***************************************************************************)
Overlapping == {
  [None EXCEPT ![W] = <<Split({{1, 3}})>>, ![A] = <<Copy({1, 2})>>, ![T] = <<Copy({2})>>],
  [None EXCEPT ![A] = <<Copy({1, 2}), Split({{1}, {2}})>>,
               ![B] = <<Split({{2}}), Copy({2, 3})>>],
  [None EXCEPT ![L] = <<Copy({1, 2, 3})>>, ![R] = <<Copy({1, 2, 3})>>, ![S] = <<Copy({3})>>],
  [None EXCEPT ![L] = <<Split({{1, 2}})>>, ![R] = <<Split({{1, 2}})>>, ![A] = <<Copy({1, 2})>>],
  [None EXCEPT ![L] = <<Split({{1, 2, 3}})>>, ![R] = <<Split({{1, 2, 3}})>>]}

(* A class with processes of both sides, and other calls at process 3.     *)
SplitBetween == {
  [None EXCEPT ![L] = <<Split({{1, 2, 3}})>>, ![R] = <<Split({{1, 2, 3}})>>,
               ![S] = <<Copy({3}), Copy({3})>>]}
===============================================================================
