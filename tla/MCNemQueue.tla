------------------------------ MODULE MCNemQueue ------------------------------
(* Instances of NemQueue for TLC: s1 and s2 send to r, r sends to s1. *)
EXTENDS NemQueue

CONSTANTS s1, s2, r, c1, c2, c3, c4

CellsOfEach == [p \in {s1, s2, r} |-> CASE p = s1 -> <<c1, c2>>
                                        [] p = s2 -> <<c3>>
                                        [] p = r  -> <<c4>>]
Routes == [p \in {s1, s2, r} |-> IF p = r THEN {s1} ELSE {r}]
===============================================================================
