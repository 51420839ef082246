---------------------------- MODULE MCStageQueue ----------------------------
(***************************************************************************)
(* Instances of StageQueue for TLC: an initiation-like chain author ->     *)
(* verifier, or its first stage alone.                                     *)
(***************************************************************************)
EXTENDS StageQueue

CONSTANTS r1, author, verifier, w1, w2

MCChain == {author, verifier}

MCRunOf == [s \in Stages |-> r1]
MCDependsOn == [s \in Stages |-> IF s = verifier THEN author ELSE NoStage]
MCRank == [s \in Stages |-> IF s = author THEN 1 ELSE 2]
MCCanRun == [w \in Workers |-> Stages]
\* w2 is a dedicated worker that only takes the first stage.
MCCanRunDedicated == [w \in Workers |-> IF w = w2 THEN {author} ELSE Stages]
=============================================================================
