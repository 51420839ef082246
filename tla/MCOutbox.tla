------------------------------ MODULE MCOutbox ------------------------------
(***************************************************************************)
(* Instances of Outbox for TLC: two publishers of one dedupe_key and one   *)
(* row that is added directly.                                             *)
(***************************************************************************)
EXTENDS Outbox

CONSTANTS e1, e2, d1, k1, k2

MCKeyOf == [e \in Events |-> IF e = d1 THEN k2 ELSE k1]
=============================================================================
