-------------------------- MODULE MCScheduledRuns --------------------------
(***************************************************************************)
(* Instances of ScheduledRuns for TLC: two core processes, the first with  *)
(* two pooled connections.                                                 *)
(***************************************************************************)
EXTENDS ScheduledRuns, TLC

CONSTANTS p1, p2, k1, k2, k3, c1, c2

MCPool == [p \in Procs |-> IF p = p1 THEN {k1, k2} ELSE {k3}]
\* c1 has just been proposed, c2 is live.
MCFirstState == [c \in Coverages |-> IF c = c1 THEN "other" ELSE "active"]
MCFirstLead == [c \in Coverages |-> IF c = c1 THEN NoHouse ELSE 1]
\* The two connections of one pool are interchangeable.
ConnSymmetry == Permutations({k1, k2})
MCVerifyCounts == {-1, 1}
\* The PM has chosen the contributors of c2: its lead and a meta house.
MCExplicit == [c \in Coverages |-> IF c = c2 THEN {1, 3} ELSE {}]
=============================================================================
