------------------------- MODULE MCOrchestratorTick -------------------------
(***************************************************************************)
(* Instances of OrchestratorTick for TLC: two event analyses and an        *)
(* initiation of one coverage.                                             *)
(***************************************************************************)
EXTENDS OrchestratorTick

CONSTANTS e1, e2, i1, c1

MCOneCoverage == [r \in Runs |-> c1]
\* Workers that go on after they were reaped: one of a run that then succeeds,
\* one of an initiation that then waits for its decision.
MCLingering == {<<e1, "author">>, <<i1, "finalizer">>}
MCTypeOf == [r \in Runs |-> IF r = i1 THEN "initiation" ELSE "event_analysis"]
=============================================================================
