---------------------------- MODULE MCPmRequests ----------------------------
(***************************************************************************)
(* Instances of PmRequests for TLC.                                        *)
(***************************************************************************)
EXTENDS PmRequests

=============================================================================
