---------------------------- MODULE InOrderChannel ----------------------------
(***************************************************************************)
(* What the device expects of its channel: the messages from one process   *)
(* to another arrive whole, once and in the order in which they were       *)
(* started.  Nothing is promised between messages of different pairs.      *)
(***************************************************************************)
EXTENDS Naturals, Sequences

CONSTANTS Proc, Msg

VARIABLE chan           \* chan[p][q]: messages from p that q has not got

Init == chan = [p \in Proc |-> [q \in Proc |-> <<>>]]

(***************************************************************************)
(* A message is started, or the oldest one delivered.                      *)
(***************************************************************************)
Next == \E p, q \in Proc :
  LET before == chan[p][q]
      after == chan'[p][q] IN
  /\ \/ \E m \in Msg : after = Append(before, m)
     \/ before # <<>> /\ after = Tail(before)
  /\ chan' = [chan EXCEPT ![p][q] = after]

Spec == Init /\ [][Next]_chan
===============================================================================
