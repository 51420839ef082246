---------------------------- MODULE RunLifecycle ----------------------------
(***************************************************************************)
(* Coverage, runs, the per-ticker lock and the PM gates: the state the PM  *)
(* routes (core/api/routes.py) and the orchestrator (core/orchestrator/    *)
(* engine.py) change through the repositories, under the coverage and run  *)
(* state machines (core/domain/coverage_sm.py, core/domain/run_sm.py).     *)
(*                                                                         *)
(* One action is one route or one engine call, committed or rolled back as *)
(* a whole: where the code raises, no step is possible.  What is lost when *)
(* a cancel and an open tick overlap is OrchestratorTick's (two_in_flight, *)
(* leaked_lock), so every property here is meant with each call committed  *)
(* by itself.                                                              *)
(*                                                                         *)
(* The stage rows of a run are abstracted to what advance_run asks of them *)
(* (see StageQueue for the queue itself); transition, audit and outbox     *)
(* rows are write-only for this logic and are left out.                    *)
(***************************************************************************)
EXTENDS Naturals, FiniteSets, CoverageSM

CONSTANTS
  Coverages, RunIds, GateIds, Houses,
  Types,            \* the run types created in this instance
  Answers,          \* what the PM may send to answer_gate; the code takes any text
  NoRun,
  NoHouse,          \* a null house
  Absent            \* a key the params do not have

AllTypes == {"initiation", "deep_review", "event_analysis", "monitor_tick", "pm_query"}

ASSUME LifecycleAssumption ==
  /\ Types \subseteq AllTypes
  /\ NoRun \notin RunIds
  /\ NoHouse \notin Houses
  /\ Absent \notin Houses \cup {NoHouse}
  /\ Coverages # {}

VARIABLES
  cov,         \* coverage.state, or "none" before propose
  leadHouse,   \* coverage.lead_house
  status,      \* runs.status, or "none" before create_run
  type,        \* runs.type
  covOf,       \* runs.coverage_id
  params,      \* runs.params, its keys lead and lead_house
  stages,      \* the stage rows of the run, as advance_run sees them
  overCap,     \* runs.cost_usd > runs.budget_cap_usd
  lock,        \* coverage_run_locks: the run holding the coverage, or NoRun
  gate         \* pm_gates

covVars == <<cov, leadHouse>>
runIds == <<type, covOf, params>>
vars == <<cov, leadHouse, status, type, covOf, params, stages, overCap, lock, gate>>

RunStates == {"queued", "running", "waiting_pm", "succeeded", "failed", "cancelled"}
Ended == {"succeeded", "failed", "cancelled"}
StagePictures == {"new", "pending", "backoff", "failed", "done"}
Params == [lead : Houses \cup {NoHouse}, lead_house : Houses \cup {NoHouse, Absent}]
Decisions == {"active", "watch", "reject"}
NoGate == [state |-> "none", run |-> NoRun, kind |-> "none", answer |-> "none"]

TypeOK ==
  /\ cov \in [Coverages -> CoverageStates \cup {"none"}]
  /\ leadHouse \in [Coverages -> Houses \cup {NoHouse}]
  /\ status \in [RunIds -> RunStates \cup {"none"}]
  /\ type \in [RunIds -> AllTypes]
  /\ covOf \in [RunIds -> Coverages]
  /\ params \in [RunIds -> Params]
  /\ stages \in [RunIds -> StagePictures]
  /\ overCap \in [RunIds -> BOOLEAN]
  /\ lock \in [Coverages -> RunIds \cup {NoRun}]
  /\ gate \in [GateIds ->
       [state : {"none", "open", "answered", "cancelled"}, run : RunIds \cup {NoRun},
        kind : {"none", "budget_cap", "initiation_decision"},
        answer : Answers \cup Decisions \cup {"none"}]]

-----------------------------------------------------------------------------
(***************************************************************************)
(* The run transition table, and the two tables applied to a row.          *)
(***************************************************************************)

RunEntries ==
  { <<"queued", "start", "running">>,
    <<"running", "requeue", "queued">>,
    <<"running", "fail", "failed">>,
    <<"running", "open_gate", "waiting_pm">>,
    <<"running", "succeed", "succeeded">>,
    <<"running", "cancel", "cancelled">>,
    <<"waiting_pm", "succeed", "succeeded">>,
    <<"waiting_pm", "cancel", "cancelled">>,
    <<"queued", "cancel", "cancelled">> }

\* ck_coverage_lead_required_when_live
LeadRequired(state) == state \in {"decision_pending", "active", "watch"}

\* transition: the action is legal in the coverage's state, or it raises, and so
\* does the flush of a coverage that needs a lead and has none.
CovTransition(c, action) ==
  \E to \in CoverageStates :
    /\ <<cov[c], action, to>> \in CoverageEntries
    /\ LeadRequired(to) => leadHouse[c] # NoHouse
    /\ cov' = [cov EXCEPT ![c] = to]

RunTransition(r, action) ==
  \E to \in RunStates :
    /\ <<status[r], action, to>> \in RunEntries
    /\ status' = [status EXCEPT ![r] = to]

-----------------------------------------------------------------------------
(***************************************************************************)
(* Repositories: locks, gates and the end of a run.                        *)
(***************************************************************************)

\* Run.mutates_dossier
Mutating(r) == type[r] \notin {"monitor_tick", "pm_query"}

Bug_AcquireLock(r) ==
  IF Mutating(r) /\ lock[covOf[r]] = NoRun
    THEN lock' = [lock EXCEPT ![covOf[r]] = r]
    ELSE UNCHANGED lock

Bug_LockRow(r) ==
  IF Mutating(r)
    THEN /\ lock[covOf[r]] \in {NoRun, r}
         /\ lock' = [lock EXCEPT ![covOf[r]] = covOf[r]]
    ELSE UNCHANGED lock

\* start_run: INSERT ... ON CONFLICT DO NOTHING, then look who owns the row.
AcquireLock(r) ==
  IF Mutating(r)
    THEN /\ lock[covOf[r]] \in {NoRun, r}
         /\ lock' = [lock EXCEPT ![covOf[r]] = r]
    ELSE UNCHANGED lock

Bug_ReleaseLock(r) ==
  lock' = [c \in Coverages |->
             IF lock[c] = r /\ status[r] # "queued" THEN NoRun ELSE lock[c]]

ReleaseLock(r) ==
  lock' = [c \in Coverages |-> IF lock[c] = r THEN NoRun ELSE lock[c]]

FinishRun(r, action) ==
  /\ RunTransition(r, action)
  /\ ReleaseLock(r)

OpenGate(r, kind) ==
  \E g \in GateIds :
    /\ gate[g].state = "none"
    /\ gate' = [gate EXCEPT ![g] =
                  [state |-> "open", run |-> r, kind |-> kind, answer |-> "none"]]

Answered(g, answer) ==
  [state |-> "answered", run |-> gate[g].run, kind |-> gate[g].kind, answer |-> answer]

AllowedAnswers(g) ==
  IF gate[g].kind = "initiation_decision" THEN Decisions ELSE {"raise_cap", "cancel"}

-----------------------------------------------------------------------------
(***************************************************************************)
(* PM routes.                                                              *)
(***************************************************************************)

Propose(c) ==
  /\ CovTransition(c, "propose")
  /\ UNCHANGED <<leadHouse, status, runIds, stages, overCap, lock, gate>>

NeedsLead(t) == t # "monitor_tick"

\* params.setdefault("lead_house", lead): a key that is there stays, also a null.
WithLead(asked, lead) ==
  IF lead # NoHouse /\ asked.lead_house = Absent
    THEN [asked EXCEPT !.lead_house = lead] ELSE asked

\* engine.create_run: nothing about the coverage's state is checked.  A stage
\* row needs a house, so the lead must come from the request or the coverage,
\* except for a monitor_tick, which the monitor house executes.
CreateRun(r, t, c, asked) ==
  LET lead == IF asked.lead # NoHouse THEN asked.lead ELSE leadHouse[c] IN
  /\ status[r] = "none"
  /\ cov[c] # "none"
  /\ NeedsLead(t) => lead # NoHouse
  /\ status' = [status EXCEPT ![r] = "queued"]
  /\ type' = [type EXCEPT ![r] = t]
  /\ covOf' = [covOf EXCEPT ![r] = c]
  /\ params' = [params EXCEPT ![r] = WithLead(asked, lead)]
  /\ UNCHANGED <<covVars, stages, overCap, lock, gate>>

\* new_run passes the request's params on; initiate makes them, with no lead_house.
NewRun(r) ==
  \E t \in Types, c \in Coverages, asked \in Params : CreateRun(r, t, c, asked)

\* retry_run: a failed run is created again with its old parameters.
RetryRun(old, r) ==
  /\ status[old] = "failed"
  /\ CreateRun(r, type[old], covOf[old], params[old])

\* cancel_run ends the run and nothing else.
CancelRun(r) ==
  /\ FinishRun(r, "cancel")
  /\ UNCHANGED <<covVars, runIds, stages, overCap, gate>>

Bug_Decide(c, d) ==
  \E g \in GateIds :
    LET r == gate[g].run IN
    /\ gate[g].state = "open"
    /\ covOf[r] = c
    /\ d \in AllowedAnswers(g)
    /\ CovTransition(c, d)
    /\ FinishRun(r, "succeed")
    /\ UNCHANGED <<leadHouse, runIds, stages, overCap, gate>>

\* decide takes whichever open gate of the coverage the query returns first;
\* its run gives the gate to be answered and the run to be finished.
Decide(c, d) ==
  \E g \in GateIds :
    LET r == gate[g].run IN
    /\ gate[g].state = "open"
    /\ covOf[r] = c
    /\ d \in AllowedAnswers(g)
    /\ CovTransition(c, d)
    /\ gate' = [gate EXCEPT ![g] = Answered(g, d)]
    /\ FinishRun(r, "succeed")
    /\ UNCHANGED <<leadHouse, runIds, stages, overCap>>

\* answer_gate records any answer to any gate, answered or not.
AnswerGate(g, answer) ==
  /\ gate[g].state # "none"
  /\ gate' = [gate EXCEPT ![g] = Answered(g, answer)]
  /\ UNCHANGED <<covVars, status, runIds, stages, overCap, lock>>

Promote(c) ==
  /\ CovTransition(c, "promote")
  /\ UNCHANGED <<leadHouse, status, runIds, stages, overCap, lock, gate>>

Demote(c) ==
  /\ CovTransition(c, "demote")
  /\ UNCHANGED <<leadHouse, status, runIds, stages, overCap, lock, gate>>

\* _check_guards: an open position in any book asks for force, force for a note.
ExitGuard(position, force, note) == (position => force) /\ (force => note)

Exit(c) ==
  /\ \E position, force, note \in BOOLEAN : ExitGuard(position, force, note)
  /\ CovTransition(c, "exit")
  /\ UNCHANGED <<leadHouse, status, runIds, stages, overCap, lock, gate>>

RePropose(c) ==
  /\ CovTransition(c, "re_propose")
  /\ UNCHANGED <<leadHouse, status, runIds, stages, overCap, lock, gate>>

\* Houses stands for the houses that are enabled, assignable and not meta.
SetLead(c, h) ==
  /\ CovTransition(c, "set_lead")
  /\ leadHouse' = [leadHouse EXCEPT ![c] = h]
  /\ UNCHANGED <<status, runIds, stages, overCap, lock, gate>>

-----------------------------------------------------------------------------
(***************************************************************************)
(* The orchestrator.                                                       *)
(***************************************************************************)

\* run.params.get("lead_house")
LeadParam(r) == IF params[r].lead_house = Absent THEN NoHouse ELSE params[r].lead_house

StartsInitiation(r) == type[r] = "initiation" /\ cov[covOf[r]] = "proposed"

\* promote_run: start_run, then proposed -> initiating for an initiation,
\* whose coverage takes the lead of the run's params, a null too.
PromoteRun(r) ==
  /\ status[r] = "queued"
  /\ AcquireLock(r)
  /\ status' = [status EXCEPT ![r] = "running"]
  /\ stages' = [stages EXCEPT ![r] = IF @ = "new" THEN "pending" ELSE @]
  /\ \/ /\ StartsInitiation(r)
        /\ CovTransition(covOf[r], "start_initiation")
        /\ leadHouse' = [leadHouse EXCEPT ![covOf[r]] = LeadParam(r)]
     \/ /\ ~StartsInitiation(r)
        /\ UNCHANGED covVars
  /\ UNCHANGED <<runIds, overCap, gate>>

\* Workers claim and report stages, backoffs elapse, a late failure report
\* overwrites a finished stage: what StageQueue models in detail.
StagesMove(r, to) ==
  /\ status[r] \in {"queued", "running"}
  /\ <<stages[r], to>> \in
       { <<"pending", "pending">>, <<"pending", "backoff">>, <<"pending", "failed">>,
         <<"pending", "done">>, <<"backoff", "backoff">>, <<"backoff", "pending">>,
         <<"backoff", "failed">>, <<"done", "failed">> }
  /\ stages' = [stages EXCEPT ![r] = to]
  /\ \E b \in BOOLEAN : overCap' = [overCap EXCEPT ![r] = @ \/ b]
  /\ UNCHANGED <<covVars, status, runIds, lock, gate>>

\* fail_run
AdvanceFail(r) ==
  /\ stages[r] = "failed"
  /\ \/ /\ type[r] = "initiation" /\ cov[covOf[r]] = "initiating"
        /\ CovTransition(covOf[r], "initiation_failed")
     \/ /\ ~(type[r] = "initiation" /\ cov[covOf[r]] = "initiating")
        /\ UNCHANGED cov
  /\ FinishRun(r, "fail")
  /\ UNCHANGED <<leadHouse, gate>>

\* requeue_run: the coverage lock is retained.
AdvanceRequeue(r) ==
  /\ stages[r] = "backoff"
  /\ RunTransition(r, "requeue")
  /\ UNCHANGED <<covVars, lock, gate>>

\* _pause_for_budget, also when the last stage has finished.
AdvancePause(r) ==
  /\ stages[r] \in {"pending", "done"}
  /\ overCap[r]
  /\ OpenGate(r, "budget_cap")
  /\ RunTransition(r, "open_gate")
  /\ UNCHANGED <<covVars, lock>>

\* finalize_run: an initiation is delivered to the PM, or the call raises.
AdvanceFinalize(r) ==
  /\ stages[r] = "done"
  /\ ~overCap[r]
  /\ \/ /\ type[r] = "initiation"
        /\ CovTransition(covOf[r], "initiation_delivered")
        /\ OpenGate(r, "initiation_decision")
        /\ RunTransition(r, "open_gate")
        /\ UNCHANGED <<leadHouse, lock>>
     \/ /\ type[r] # "initiation"
        /\ FinishRun(r, "succeed")
        /\ UNCHANGED <<covVars, gate>>

AdvanceRun(r) ==
  /\ status[r] = "running"
  /\ AdvanceFail(r) \/ AdvanceRequeue(r) \/ AdvancePause(r) \/ AdvanceFinalize(r)
  /\ UNCHANGED <<runIds, stages, overCap>>

-----------------------------------------------------------------------------
Init ==
  /\ cov = [c \in Coverages |-> "none"]
  /\ leadHouse = [c \in Coverages |-> NoHouse]
  /\ status = [r \in RunIds |-> "none"]
  /\ type = [r \in RunIds |-> "monitor_tick"]
  /\ covOf = [r \in RunIds |-> CHOOSE c \in Coverages : TRUE]
  /\ params = [r \in RunIds |-> [lead |-> NoHouse, lead_house |-> Absent]]
  /\ stages = [r \in RunIds |-> "new"]
  /\ overCap = [r \in RunIds |-> FALSE]
  /\ lock = [c \in Coverages |-> NoRun]
  /\ gate = [g \in GateIds |-> NoGate]

PmStep ==
  \/ \E c \in Coverages : Propose(c) \/ Promote(c) \/ Demote(c) \/ Exit(c) \/ RePropose(c)
  \/ \E c \in Coverages, h \in Houses : SetLead(c, h)
  \/ \E c \in Coverages, d \in Decisions : Decide(c, d)
  \/ \E r \in RunIds : NewRun(r) \/ CancelRun(r) \/ \E old \in RunIds : RetryRun(old, r)
  \/ \E g \in GateIds, answer \in Answers : AnswerGate(g, answer)

Progress(r) == \E to \in StagePictures : StagesMove(r, to)

Next ==
  \/ PmStep
  \/ \E r \in RunIds : PromoteRun(r) \/ AdvanceRun(r) \/ Progress(r)

Spec == Init /\ [][Next]_vars

-----------------------------------------------------------------------------
(***************************************************************************)
(* Properties, with each route and engine call committed by itself.        *)
(***************************************************************************)

InFlight(r) == status[r] \in {"running", "waiting_pm"}

\* SPEC-DOMAIN 6.4 invariant 2: a mutating run in running or waiting_pm holds
\* its coverage's lock, through requeues, gates and other runs' endings, as long
\* as no cancel falls into an open tick.
LockHeld == \A r \in RunIds : InFlight(r) /\ Mutating(r) => lock[covOf[r]] = r

\* SPEC-DOMAIN 6.4 invariant 2, its point: one dossier is never mutated by two
\* runs at a time, when no call overlaps another (start_run, finish_run).  A
\* cancel inside an open tick breaks it: OneRunInFlight of OrchestratorTick.
OneMutatingRun ==
  \A r, q \in RunIds :
    InFlight(r) /\ InFlight(q) /\ Mutating(r) /\ Mutating(q) /\ covOf[r] = covOf[q]
      => r = q

\* No lock outlives its run: the owner of a lock row is a mutating run of that
\* coverage that has not ended, so it can still release the ticker.  This is
\* with each engine call committed by itself; EndedRunFreesTicker of
\* OrchestratorTick is the same question under one long tick.
LockNotLeaked ==
  \A c \in Coverages :
    lock[c] # NoRun =>
      /\ covOf[lock[c]] = c
      /\ Mutating(lock[c])
      /\ status[lock[c]] \in {"queued", "running", "waiting_pm"}

\* The gate rows fit the runs they stop: a run opens at most one gate, only a
\* waiting or a cancelled run has it open, and a run waits only at a gate.
GatesFitRuns ==
  /\ \A g \in GateIds : gate[g].state # "none" =>
       /\ gate[g].run \in RunIds
       /\ status[gate[g].run] \in {"waiting_pm", "succeeded", "cancelled"}
       /\ gate[g].state = "open" => status[gate[g].run] # "succeeded"
       /\ \A h \in GateIds : gate[h].run = gate[g].run => h = g
  /\ \A r \in RunIds : status[r] = "waiting_pm" =>
       \E g \in GateIds : gate[g].run = r

\* A ticker goes live only through an initiation of its own that was delivered
\* and decided: there is a succeeded initiation run behind every active or
\* watched coverage.
LiveOnlyByDecision ==
  \A c \in Coverages : cov[c] \in {"active", "watch"} =>
    \E r \in RunIds : covOf[r] = c /\ type[r] = "initiation" /\ status[r] = "succeeded"
=============================================================================
