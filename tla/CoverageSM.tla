----------------------------- MODULE CoverageSM -----------------------------
(***************************************************************************)
(* The coverage state machine (core/domain/coverage_sm.py): a pure table   *)
(* from a state and an action to the next state.  "none" is a ticker that  *)
(* has no coverage row yet.  The guards are with the actions that use the  *)
(* table (RunLifecycle, PmRequests).                                       *)
(***************************************************************************)

CoverageStates == {"proposed", "initiating", "decision_pending", "active", "watch",
                   "failed", "rejected", "exited"}

Bug_CoverageEntries ==
  { <<"none", "propose", "proposed">>,
    <<"proposed", "start_initiation", "initiating">>,
    <<"initiating", "initiation_delivered", "active">>,
    <<"initiating", "initiation_failed", "failed">>,
    <<"active", "demote", "watch">> }

CoverageEntries ==
  { <<"none", "propose", "proposed">>,
    <<"proposed", "start_initiation", "initiating">>,
    <<"initiating", "initiation_delivered", "decision_pending">>,
    <<"initiating", "initiation_failed", "failed">>,
    <<"decision_pending", "initiation_cancelled", "failed">>,
    <<"failed", "retry_initiation", "initiating">>,
    <<"proposed", "withdraw", "rejected">>,
    <<"failed", "withdraw", "rejected">>,
    <<"decision_pending", "active", "active">>,
    <<"decision_pending", "watch", "watch">>,
    <<"decision_pending", "reject", "rejected">>,
    <<"watch", "promote", "active">>,
    <<"active", "demote", "watch">>,
    <<"active", "exit", "exited">>,
    <<"watch", "exit", "exited">>,
    <<"exited", "re_propose", "proposed">>,
    <<"rejected", "re_propose", "proposed">>,
    <<"active", "set_lead", "active">>,
    <<"watch", "set_lead", "watch">> }

=============================================================================
