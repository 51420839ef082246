------------------------------ MODULE Planner ------------------------------
(***************************************************************************)
(* The stage planner (core/orchestrator/planner.py, rotation.py and        *)
(* core/domain/contributors.py): from a run type and the houses to the     *)
(* stage list of a run.  A plan is the sequence of its stages: a stage's   *)
(* seq is its index, and depends_on is the seq it waits for, 0 for none.   *)
(* Houses are numbered in the order of their keys.                         *)
(***************************************************************************)
EXTENDS Integers, Sequences, FiniteSets

CONSTANTS
  Houses,         \* enabled and assignable houses
  MetaHouses,     \* houses that may not fill an analyst role
  MonitorHouse,   \* fund.monitor.house
  NoHouse

ASSUME PlannerAssumption ==
  /\ Houses \subseteq Nat
  /\ IsFiniteSet(Houses)
  /\ MetaHouses \subseteq Houses
  /\ MonitorHouse \in Houses
  /\ NoHouse \notin Nat

\* The run types create_run can plan.  lead_review and distillation are called
\* without max_attempts and raise TypeError.
RunTypes == {"initiation", "deep_review", "event_analysis", "monitor_tick", "pm_query"}

\* sorted: each place goes to the house with as many others before it.
InOrder(houses) ==
  [i \in 1 .. Cardinality(houses) |->
     CHOOSE h \in houses : Cardinality({g \in houses : g < h}) = i - 1]

\* The PM's rows for the coverage, or every analyst house but the coverage's lead.
ResolveContributors(lead, explicit) ==
  InOrder(IF explicit # {} THEN explicit ELSE (Houses \ MetaHouses) \ {lead})

\* order_contributors with an empty history, which is the order of the keys;
\* pick_verifiers takes the first n.
PickVerifiers(contributors, n) ==
  SubSeq(contributors, 1, IF n < Len(contributors) THEN n ELSE Len(contributors))

Step(role, house) == <<[role |-> role, house |-> house]>>

Verifiers(houses) == [i \in DOMAIN houses |-> [role |-> "verifier", house |-> houses[i]]]

\* include_data_checker: the first contributor, or the lead when there is none.
DataChecker(lead, contributors) ==
  Step("data_checker", IF contributors = <<>> THEN lead ELSE contributors[1])

\* The roles and houses of a run, in order.
Steps(type, lead, contributors, verifyCount, dataChecker) ==
  CASE type = "initiation" ->
         Step("author", lead) \o Verifiers(PickVerifiers(contributors, verifyCount))
           \o (IF dataChecker THEN DataChecker(lead, contributors) ELSE <<>>)
           \o Step("finalizer", lead)
    [] type = "deep_review" ->
         Step("author", lead) \o Verifiers(PickVerifiers(contributors, 1))
    [] type = "event_analysis" -> Step("author", lead)
    [] type = "monitor_tick" -> Step("monitor", MonitorHouse)
    [] type = "pm_query" -> Step("pm_query", lead)

\* Every stage waits for the one before it.
Chained(steps) ==
  [i \in DOMAIN steps |-> [role |-> steps[i].role, house |-> steps[i].house,
                           depends_on |-> i - 1]]

PlanStages(type, lead, contributors, verifyCount, dataChecker) ==
  Chained(Steps(type, lead, contributors, verifyCount, dataChecker))

\* chk is called for the lead and for the verifiers, not for the data checker.
Checked(role) == role \in {"author", "verifier", "finalizer", "pm_query"}

\* No check for a missing house.
Bug_PlanWithoutHouse(plan) ==
  \E i \in DOMAIN plan : Checked(plan[i].role) /\ plan[i].house \in MetaHouses

\* PlanError for a meta house, or a stage row without a house, which the
\* database refuses.
PlanRefused(plan) ==
  \E i \in DOMAIN plan :
    plan[i].house = NoHouse \/ (Checked(plan[i].role) /\ plan[i].house \in MetaHouses)
=============================================================================
