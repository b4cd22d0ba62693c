-------------------------------- MODULE Recvq --------------------------------
(***************************************************************************)
(* The matching queues of the CH3 device, src/mpid/ch3/src/ch3u_recvq.c,   *)
(* as operators on sequences of request handles.  A queue is searched from *)
(* its head; env[h] is dev.match of the request with handle h.  Each       *)
(* operator returns an index into the queue, 0 when nothing matches; the   *)
(* caller unlinks the request found or appends a new one.                  *)
(***************************************************************************)
EXTENDS Naturals, Sequences, SequencesExt

CONSTANTS AnySource, AnyTag     \* MPI_ANY_SOURCE, MPI_ANY_TAG

(***************************************************************************)
(* Does a receive posted for r accept a message with envelope e?           *)
(***************************************************************************)
Accepts(r, e) == /\ r.ctx = e.ctx
                 /\ r.rank = e.rank \/ r.rank = AnySource
                 /\ r.tag = e.tag \/ r.tag = AnyTag

(***************************************************************************)
(* The oldest unexpected message a new receive r matches, and the oldest   *)
(* posted receive an arriving message e matches.  The mutant prefers a     *)
(* receive without wildcards.                                              *)
(***************************************************************************)
FDU_or_AEP(queue, env, r) == SelectInSeq(queue, LAMBDA h : Accepts(r, env[h]))

FDP_or_AEU_exact_first(queue, env, e) ==
  LET exact == SelectInSeq(queue, LAMBDA h : env[h] = e)
  IN IF exact # 0 THEN exact ELSE SelectInSeq(queue, LAMBDA h : Accepts(env[h], e))
FDP_or_AEU(queue, env, e) == SelectInSeq(queue, LAMBDA h : Accepts(env[h], e))

(***************************************************************************)
(* The unexpected message a cancel names: the search does not stop at the  *)
(* first request with that sender handle and envelope, it keeps the last.  *)
(***************************************************************************)
FDU_first(queue, env, sender, id, e) ==
  SelectInSeq(queue, LAMBDA h : sender[h] = id /\ env[h] = e)
FDU(queue, env, sender, id, e) ==
  SelectLastInSeq(queue, LAMBDA h : sender[h] = id /\ env[h] = e)

(***************************************************************************)
(* A posted receive that is being cancelled.                               *)
(***************************************************************************)
DP(queue, h) == SelectInSeq(queue, LAMBDA g : g = h)

=============================================================================
