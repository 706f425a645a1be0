------------------------- MODULE MCVerticalTransport -------------------------
(* VerticalTransport on a building of four levels: a stair between the two    *)
(* lower ones, an elevator for the others with a high storey in between.      *)
EXTENDS VerticalTransport

CONSTANTS w1, w2, w3, e, s

ThreeWorkers == <<w1, w2, w3>>
OneLift == <<e>>
Heights == [l \in 1..4 |-> IF l = 4 THEN 4 ELSE l - 1]
Hybrid == [c \in {e, s} |-> IF c = s THEN {1, 2} ELSE {2, 3, 4}]
TwoSeats == [c \in {e} |-> 2]
=============================================================================
