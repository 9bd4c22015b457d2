------------------------------ MODULE MCEvents ------------------------------
(* A window that may see both targets and one that may see the first only,  *)
(* under two ids or under the same.                                         *)
EXTENDS Events

CONSTANTS w1, w2, mine, yours, x, y

MCWindows == {w1, w2}
MCIds == {mine, yours}
MCTargets == {x, y}
MCWanted == [w \in MCWindows |-> IF w = w1 THEN {x, y} ELSE {x}]
=============================================================================
