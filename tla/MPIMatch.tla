------------------------------- MODULE MPIMatch -------------------------------
(***************************************************************************)
(* What point-to-point communication promises: every message is received   *)
(* at most once, or cancelled, and matching never overtakes.  sends[p][q]  *)
(* is the sequence of messages p sent to q, recvs[p] the sequence of       *)
(* receives p posted; a match joins one of each.                           *)
(***************************************************************************)
EXTENDS Naturals, Sequences

CONSTANTS Proc, Ctx, Tag, AnySource, AnyTag

VARIABLES sends, recvs

Nobody == <<>>
Envelopes == [ctx : Ctx, rank : Proc, tag : Tag]
Wanted == [ctx : Ctx, rank : Proc \cup {AnySource}, tag : Tag \cup {AnyTag}]

Fits(r, e) == /\ r.ctx = e.ctx
              /\ r.rank \in {e.rank, AnySource}
              /\ r.tag \in {e.tag, AnyTag}

Init == /\ sends = [p \in Proc |-> [q \in Proc |-> <<>>]]
        /\ recvs = [p \in Proc |-> <<>>]

SetSend(p, q, i, st) == sends' = [sends EXCEPT ![p][q][i].st = st]

(* p starts to send a message to q *)
StartSend(p, q, e) ==
  /\ sends' = [sends EXCEPT ![p][q] = Append(@, [env |-> e, st |-> "pending"])]
  /\ UNCHANGED recvs

(* no older message from the same sender fits the receive *)
OldestMessage(p, q, i, want) ==
  \A j \in 1..i-1 : sends[p][q][j].st = "pending" => ~Fits(want, sends[p][q][j].env)

(* no older receive fits the message *)
OldestReceive(q, k, e) ==
  \A j \in 1..k-1 : recvs[q][j].st = "posted" => ~Fits(recvs[q][j].want, e)

(* q posts a receive: it stays pending or takes a message at once *)
Post(q, want) ==
  /\ recvs' = [recvs EXCEPT ![q] = Append(@, [want |-> want, st |-> "posted", got |-> Nobody])]
  /\ UNCHANGED sends

PostAndMatch(q, want, p, i) ==
  /\ sends[p][q][i].st = "pending"
  /\ Fits(want, sends[p][q][i].env)
  /\ OldestMessage(p, q, i, want)
  /\ OldestReceive(q, Len(recvs[q]) + 1, sends[p][q][i].env)
  /\ recvs' = [recvs EXCEPT ![q] = Append(@, [want |-> want, st |-> "matched", got |-> <<p, q, i>>])]
  /\ SetSend(p, q, i, "matched")

(* a pending receive takes a message *)
Match(q, k, p, i) ==
  /\ recvs[q][k].st = "posted" /\ sends[p][q][i].st = "pending"
  /\ Fits(recvs[q][k].want, sends[p][q][i].env)
  /\ OldestMessage(p, q, i, recvs[q][k].want)
  /\ OldestReceive(q, k, sends[p][q][i].env)
  /\ recvs' = [recvs EXCEPT ![q][k].st = "matched", ![q][k].got = <<p, q, i>>]
  /\ SetSend(p, q, i, "matched")

(* a message to oneself that a posted receive is waiting for *)
SendAndMatch(p, e, k) ==
  LET i == Len(sends[p][p]) + 1
  IN /\ recvs[p][k].st = "posted" /\ Fits(recvs[p][k].want, e)
     /\ OldestMessage(p, p, i, recvs[p][k].want)
     /\ OldestReceive(p, k, e)
     /\ sends' = [sends EXCEPT ![p][p] = Append(@, [env |-> e, st |-> "matched"])]
     /\ recvs' = [recvs EXCEPT ![p][k].st = "matched", ![p][k].got = <<p, p, i>>]

CancelSend(p, q, i) ==
  /\ sends[p][q][i].st = "pending"
  /\ SetSend(p, q, i, "cancelled")
  /\ UNCHANGED recvs

CancelRecv(q, k) ==
  /\ recvs[q][k].st = "posted"
  /\ recvs' = [recvs EXCEPT ![q][k].st = "cancelled"]
  /\ UNCHANGED sends

Next ==
  \/ \E p, q \in Proc : \E e \in Envelopes : e.rank = p /\ StartSend(p, q, e)
  \/ \E q \in Proc : \E want \in Wanted : Post(q, want)
  \/ \E p, q \in Proc : \E want \in Wanted : \E i \in 1..Len(sends[p][q]) :
        PostAndMatch(q, want, p, i)
  \/ \E p, q \in Proc : \E k \in 1..Len(recvs[q]) : \E i \in 1..Len(sends[p][q]) :
        Match(q, k, p, i)
  \/ \E p \in Proc : \E e \in Envelopes : \E k \in 1..Len(recvs[p]) :
        e.rank = p /\ SendAndMatch(p, e, k)
  \/ \E p, q \in Proc : \E i \in 1..Len(sends[p][q]) : CancelSend(p, q, i)
  \/ \E q \in Proc : \E k \in 1..Len(recvs[q]) : CancelRecv(q, k)

Spec == Init /\ [][Next]_<<sends, recvs>>

=============================================================================
