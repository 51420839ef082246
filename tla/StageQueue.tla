----------------------------- MODULE StageQueue -----------------------------
(***************************************************************************)
(* The Postgres-backed stage queue (core/db/queue.py) with the stage state *)
(* machine (core/domain/run_sm.py) and the part of the orchestrator that   *)
(* decides the fate of a run from its stage rows (engine.advance_run).     *)
(*                                                                         *)
(* claim_stage locks the row it takes.  A report and the reaper do not:    *)
(* they SELECT their rows, decide on what they have loaded, and UPDATE by  *)
(* id when they commit, whatever was committed in between.  Each SELECT    *)
(* and each commit is an action of its own; view[w] and reap[s] hold what  *)
(* an open transaction has loaded.  An operation that raises is rolled     *)
(* back and leaves the tables as they were.                                *)
(*                                                                         *)
(* Time is abstracted to the two questions the code asks of it: has the    *)
(* lease of a claimed stage run out, and has the backoff of a queued stage *)
(* elapsed.  Workers live outside core: what a worker still believes it is *)
(* executing is job[w], which the database knows nothing about.            *)
(***************************************************************************)
EXTENDS Integers, FiniteSets, Functions

CONSTANTS
  Runs, Stages, Workers,
  RunOf,            \* the run a stage row belongs to (run_stages.run_id)
  DependsOn,        \* the stage depends_on_seq names, or NoStage
  Rank,             \* ORDER BY runs.priority DESC, runs.created_at, run_stages.seq
  CanRun,           \* the substrates/houses filter each worker claims with
  GatedRuns,        \* initiation runs: they end at a PM gate
  MaxAttempts,      \* run_stages.max_attempts, from the run policy
  Costs,            \* the cost_usd an attempt may report
  BudgetCap,        \* runs.budget_cap_usd
  NoStage, NoWorker

ASSUME QueueAssumption ==
  /\ IsFiniteSet(Stages)
  /\ RunOf \in [Stages -> Runs]
  /\ DependsOn \in [Stages -> Stages \cup {NoStage}]
  /\ NoStage \notin Stages
  /\ Rank \in [Stages -> Nat]
  /\ CanRun \in [Workers -> SUBSET Stages]
  /\ NoWorker \notin Workers
  /\ GatedRuns \subseteq Runs
  /\ MaxAttempts \in Nat \ {0}
  /\ Costs \subseteq Nat
  /\ BudgetCap \in Nat

VARIABLES
  runStatus,   \* runs.status
  runCost,     \* runs.cost_usd
  gate,        \* kind of the gate the run waits at
  status,      \* run_stages.status
  claimedBy,   \* run_stages.claimed_by
  leaseLive,   \* run_stages.lease_expires_at >= now
  due,         \* run_stages.available_at <= now
  attempts,    \* run_stages.attempts
  cost,        \* run_stages.cost_usd
  attempt,     \* stage_attempts, by stage and attempt_no
  result,      \* the stages whose run_stages.result is set
  job,         \* the stage each worker is executing, as the worker sees it
  view,        \* what a worker's open report transaction has loaded
  reap         \* what an open reap_expired has loaded, by stage

runVars == <<runStatus, runCost, gate>>
stageVars == <<status, claimedBy, leaseLive, due, attempts, cost, attempt, result>>
sessionVars == <<job, view, reap>>
vars == <<runVars, stageVars, sessionVars>>

RunStates == {"queued", "running", "waiting_pm", "succeeded", "failed", "cancelled"}
StageStates == {"queued", "running", "succeeded", "failed", "skipped"}
AttemptStates == {"none", "running", "succeeded", "failed"}
Terminal == {"succeeded", "failed", "skipped"}
Bug_Satisfied == {"skipped"}

Satisfied == {"succeeded", "skipped"}

AttemptRows ==
  [state : AttemptStates, worker : Workers \cup {NoWorker}, cost : Nat]
AttemptTables == [Stages -> [1..MaxAttempts -> AttemptRows]]
NoAttempt == [state |-> "none", worker |-> NoWorker, cost |-> 0]

\* status, holder (claimed_by), attempts, cost: the stage row as session.get loaded it.
\* row: the running attempt the SELECT found, or 0.  total, spent: the SUM over
\* the run's stages, and runs.cost_usd as it was loaded.
Views ==
  [step : {"none", "read", "looked", "summed"},
   status : StageStates, holder : Workers \cup {NoWorker}, attempts : 0..MaxAttempts,
   cost : Nat, row : 0..MaxAttempts, total : Nat, spent : Nat]
NoView ==
  [step |-> "none", status |-> "queued", holder |-> NoWorker, attempts |-> 0, cost |-> 0,
   row |-> 0, total |-> 0, spent |-> 0]

ReapViews ==
  [step : {"none", "read", "looked"}, attempts : 0..MaxAttempts, row : 0..MaxAttempts]
NoReap == [step |-> "none", attempts |-> 0, row |-> 0]

StagesOf(r) == {s \in Stages : RunOf[s] = r}
StageCosts(r) == SumFunctionOnSet(cost, StagesOf(r))
AttemptCosts(s) ==
  SumFunctionOnSet([n \in 1..MaxAttempts |-> attempt[s][n].cost], 1..MaxAttempts)

RowsOK ==
  /\ runStatus \in [Runs -> RunStates]
  /\ gate \in [Runs -> {"none", "budget_cap", "initiation_decision"}]
  /\ status \in [Stages -> StageStates]
  /\ claimedBy \in [Stages -> Workers \cup {NoWorker}]
  /\ leaseLive \in [Stages -> BOOLEAN]
  /\ due \in [Stages -> BOOLEAN]
  /\ attempts \in [Stages -> 0..MaxAttempts]
  /\ cost \in [Stages -> Nat]
  /\ attempt \in AttemptTables
  /\ result \subseteq Stages
  /\ runCost \in [Runs -> Nat]

SessionsOK ==
  /\ job \in [Workers -> Stages \cup {NoStage}]
  /\ view \in [Workers -> Views]
  /\ reap \in [Stages -> ReapViews]

TypeOK == RowsOK /\ SessionsOK

\* create_run and add_stages have committed: every row is queued and available now.
Init ==
  /\ runStatus = [r \in Runs |-> "queued"]
  /\ runCost = [r \in Runs |-> 0]
  /\ gate = [r \in Runs |-> "none"]
  /\ status = [s \in Stages |-> "queued"]
  /\ claimedBy = [s \in Stages |-> NoWorker]
  /\ leaseLive = [s \in Stages |-> FALSE]
  /\ due = [s \in Stages |-> TRUE]
  /\ attempts = [s \in Stages |-> 0]
  /\ cost = [s \in Stages |-> 0]
  /\ attempt = [s \in Stages |-> [n \in 1..MaxAttempts |-> NoAttempt]]
  /\ result = {}
  /\ job = [w \in Workers |-> NoStage]
  /\ view = [w \in Workers |-> NoView]
  /\ reap = [s \in Stages |-> NoReap]

-----------------------------------------------------------------------------
(***************************************************************************)
(* claim_stage, heartbeat.                                                 *)
(***************************************************************************)

Bug_DependencyMet(s) ==
  DependsOn[s] # NoStage => status[DependsOn[s]] # "queued"

DependencyMet(s) ==
  DependsOn[s] # NoStage => status[DependsOn[s]] \in Satisfied

\* Whatever no worker has is there to be taken.
Bug_Claimable(s) ==
  /\ claimedBy[s] = NoWorker
  /\ due[s]
  /\ runStatus[RunOf[s]] = "running"
  /\ DependencyMet(s)

Claimable(s) ==
  /\ status[s] = "queued"
  /\ due[s]
  /\ runStatus[RunOf[s]] = "running"
  /\ DependencyMet(s)

\* FOR UPDATE SKIP LOCKED: concurrent claims behave as if one came first.
Claim(w) ==
  /\ job[w] = NoStage
  /\ \E s \in CanRun[w] :
       /\ Claimable(s)
       /\ \A t \in CanRun[w] : Claimable(t) => Rank[s] <= Rank[t]
       /\ status' = [status EXCEPT ![s] = "running"]
       /\ claimedBy' = [claimedBy EXCEPT ![s] = w]
       /\ leaseLive' = [leaseLive EXCEPT ![s] = TRUE]
       /\ attempts' = [attempts EXCEPT ![s] = @ + 1]
       /\ attempt' = [attempt EXCEPT ![s][attempts[s] + 1] =
                        [state |-> "running", worker |-> w, cost |-> 0]]
       /\ job' = [job EXCEPT ![w] = s]
  /\ UNCHANGED <<runVars, due, cost, result, view, reap>>

\* A heartbeat of a worker that lost its claim returns False and writes nothing.
\* It is read and written in one step: an UPDATE of lease_expires_at alone that
\* comes late only reaches a row that is no longer running, which nobody asks
\* for its lease and the next claim gives a new one.
Heartbeat(w) ==
  /\ job[w] # NoStage
  /\ claimedBy[job[w]] = w
  /\ status[job[w]] = "running"
  /\ leaseLive' = [leaseLive EXCEPT ![job[w]] = TRUE]
  /\ UNCHANGED <<runVars, status, claimedBy, due, attempts, cost, attempt, result, sessionVars>>

-----------------------------------------------------------------------------
(***************************************************************************)
(* The reads of complete_stage and fail_stage.  Nothing is locked, and     *)
(* core's sessions do not autoflush: a SELECT sees what is committed, and  *)
(* not what this transaction has assigned.                                 *)
(***************************************************************************)

RunningAttempt(s) ==
  LET running == {n \in 1..MaxAttempts : attempt[s][n].state = "running"}
  IN  IF running = {} THEN 0 ELSE CHOOSE n \in running : TRUE

\* session.get(RunStage, stage_id)
ReportRead(w) ==
  LET s == job[w] IN
  /\ s # NoStage
  /\ view[w].step = "none"
  /\ view' = [view EXCEPT ![w] =
       [NoView EXCEPT !.step = "read", !.status = status[s], !.attempts = attempts[s],
                      !.holder = claimedBy[s], !.cost = cost[s]]]
  /\ UNCHANGED <<runVars, stageVars, job, reap>>

\* _close_attempt's SELECT of the running attempt, whoever opened it.
ReportLook(w) ==
  /\ view[w].step = "read"
  /\ view' = [view EXCEPT ![w].step = "looked", ![w].row = RunningAttempt(job[w])]
  /\ UNCHANGED <<runVars, stageVars, job, reap>>

\* _rollup_run's SUM and the run row.  The costs this report and every other
\* open one add are not in the sum.
ReportSum(w) ==
  LET r == RunOf[job[w]] IN
  /\ view[w].step = "looked"
  /\ view' = [view EXCEPT ![w].step = "summed", ![w].total = StageCosts(r), ![w].spent = runCost[r]]
  /\ UNCHANGED <<runVars, stageVars, job, reap>>

-----------------------------------------------------------------------------
(***************************************************************************)
(* Their flush and commit.                                                 *)
(***************************************************************************)

\* The UPDATE names only the columns whose value differs from the loaded one.
Put(now, loaded, new) == IF new = loaded THEN now ELSE new

Closed(row, outcome, c) ==
  [state |-> outcome, worker |-> row.worker, cost |-> Put(row.cost, 0, c)]

\* The failed attempts do not count toward the stage.
Bug_CloseAttempt(w, outcome, c) ==
  LET s == job[w]  v == view[w] IN
  /\ attempt' = IF v.row = 0 THEN attempt
                ELSE [attempt EXCEPT ![s][v.row] = Closed(@, outcome, c)]
  /\ cost' = IF outcome = "failed" THEN cost
             ELSE [cost EXCEPT ![s] = Put(@, v.cost, v.cost + c)]

\* _close_attempt: the attempt that was found running takes the outcome and the
\* cost; the cost reaches the stage even when there is no such attempt.
CloseAttempt(w, outcome, c) ==
  LET s == job[w]  v == view[w] IN
  /\ attempt' = IF v.row = 0 THEN attempt
                ELSE [attempt EXCEPT ![s][v.row] = Closed(@, outcome, c)]
  /\ cost' = [cost EXCEPT ![s] = Put(@, v.cost, v.cost + c)]

RollupRun(w) ==
  runCost' = [runCost EXCEPT ![RunOf[job[w]]] = Put(@, view[w].spent, view[w].total)]

Bug_ReleaseClaim(S) == UNCHANGED <<claimedBy, leaseLive>>

ReleaseClaim(S) ==
  /\ claimedBy' = [s \in Stages |-> IF s \in S THEN NoWorker ELSE claimedBy[s]]
  /\ leaseLive' = [s \in Stages |-> IF s \in S THEN FALSE ELSE leaseLive[s]]

\* stage_transition: COMPLETE and FAIL_RETRYABLE leave running, and nothing else.
LegalReport(w) == view[w].status = "running"

EndJob(w) ==
  /\ job' = [job EXCEPT ![w] = NoStage]
  /\ view' = [view EXCEPT ![w] = NoView]
  /\ UNCHANGED reap

\* What every report that does not raise writes, the stage going to state to.
WriteReport(w, to, outcome, c) ==
  LET s == job[w]  v == view[w] IN
  /\ v.step = "summed"
  /\ CloseAttempt(w, outcome, c)
  /\ status' = [status EXCEPT ![s] = Put(@, v.status, to)]
  /\ ReleaseClaim(IF v.holder # NoWorker THEN {s} ELSE {})
  /\ RollupRun(w)
  /\ EndJob(w)
  /\ UNCHANGED <<runStatus, gate, attempts>>

\* The call raises and the worker's transaction is rolled back.
Refused(w) ==
  /\ view[w].step = "looked"
  /\ EndJob(w)
  /\ UNCHANGED <<runVars, stageVars>>

CompleteStage(w, c) ==
  \/ /\ LegalReport(w)
     /\ WriteReport(w, "succeeded", "succeeded", c)
     /\ result' = result \cup {job[w]}
     /\ UNCHANGED due
  \/ ~LegalReport(w) /\ Refused(w)

Bug_CanRetry(n) == n <= MaxAttempts

CanRetry(n) == n < MaxAttempts

\* fail_stage: the retry goes through the stage state machine, the terminal
\* branch writes "failed" whatever the row's status is.
FailStage(w, c, retryable) ==
  LET retry == retryable /\ CanRetry(view[w].attempts) IN
  \/ /\ retry /\ LegalReport(w)
     /\ WriteReport(w, "queued", "failed", c)
     /\ due' = [due EXCEPT ![job[w]] = FALSE]
     /\ UNCHANGED result
  \/ /\ ~retry
     /\ WriteReport(w, "failed", "failed", c)
     /\ UNCHANGED <<due, result>>
  \/ retry /\ ~LegalReport(w) /\ Refused(w)

\* The worker process dies, or drops work it learnt it no longer owns; its
\* transaction, if one is open, is rolled back.
WorkerStops(w) ==
  /\ job[w] # NoStage
  /\ EndJob(w)
  /\ UNCHANGED <<runVars, stageVars>>

-----------------------------------------------------------------------------
(***************************************************************************)
(* Time.                                                                   *)
(***************************************************************************)

LeaseExpires(s) ==
  /\ status[s] = "running"
  /\ leaseLive[s]
  /\ leaseLive' = [leaseLive EXCEPT ![s] = FALSE]
  /\ UNCHANGED <<runVars, status, claimedBy, due, attempts, cost, attempt, result, sessionVars>>

\* An open transaction has read the stage row.
BeingReported(s) == \E w \in Workers : job[w] = s /\ view[w].step # "none"
BeingReaped(s) == reap[s].step # "none"

\* TIMING ASSUMPTION: a report or a reaping is shorter than a backoff (seconds
\* of SELECTs against queue.backoff.base_s, 30 s in fund.yaml.example): one that
\* has read a stage row has ended when a backoff of that stage elapses.
BackoffElapses(s) ==
  /\ ~due[s]
  /\ ~BeingReported(s) /\ ~BeingReaped(s)
  /\ due' = [due EXCEPT ![s] = TRUE]
  /\ UNCHANGED <<runVars, status, claimedBy, leaseLive, attempts, cost, attempt, result, sessionVars>>

-----------------------------------------------------------------------------
(***************************************************************************)
(* reap_expired.  One call reaps every expired stage.  Nothing in core     *)
(* calls it yet (BUGS.md, items 8 and 13): the model lets anybody call it  *)
(* at any time, one call after the other, and nobody has to.               *)
(***************************************************************************)

Expired == {s \in Stages : status[s] = "running" /\ ~leaseLive[s]}

Reaping == {s \in Stages : BeingReaped(s)}

ReapSelect ==
  /\ Reaping = {}
  /\ Expired # {}
  /\ reap' = [s \in Stages |->
       IF s \in Expired THEN [NoReap EXCEPT !.step = "read", !.attempts = attempts[s]]
                        ELSE NoReap]
  /\ UNCHANGED <<runVars, stageVars, job, view>>

ReapLook(s) ==
  /\ reap[s].step = "read"
  /\ reap' = [reap EXCEPT ![s].step = "looked", ![s].row = RunningAttempt(s)]
  /\ UNCHANGED <<runVars, stageVars, job, view>>

\* The attempt is closed at the cost it has, and the run's cost is not rolled up.
ReapCommit ==
  /\ Reaping # {}
  /\ \A s \in Reaping : reap[s].step = "looked"
  /\ attempt' = [s \in Stages |-> [n \in 1..MaxAttempts |->
       IF s \in Reaping /\ n = reap[s].row
         THEN [attempt[s][n] EXCEPT !.state = "failed"] ELSE attempt[s][n]]]
  /\ status' = [s \in Stages |->
       IF s \notin Reaping THEN status[s]
       ELSE IF CanRetry(reap[s].attempts) THEN "queued" ELSE "failed"]
  /\ due' = [s \in Stages |-> due[s] /\ ~(s \in Reaping /\ CanRetry(reap[s].attempts))]
  /\ ReleaseClaim(Reaping)
  /\ reap' = [s \in Stages |-> NoReap]
  /\ UNCHANGED <<runVars, attempts, cost, result, job, view>>

ReapRollsBack ==
  /\ Reaping # {}
  /\ reap' = [s \in Stages |-> NoReap]
  /\ UNCHANGED <<runVars, stageVars, job, view>>

-----------------------------------------------------------------------------
(***************************************************************************)
(* The orchestrator's view of a run: promote_run, advance_run, the routes  *)
(* that end a run.  A promote_run that finds the ticker's lock taken and a *)
(* tick that finalize_run's exception rolls back change nothing here: they *)
(* are stutters, so the orchestrator owes no run a step.  Locks, coverages *)
(* and open ticks are the subject of RunLifecycle and OrchestratorTick.    *)
(***************************************************************************)

SetRun(r, to) == runStatus' = [runStatus EXCEPT ![r] = to]

StartRun(r) ==
  /\ runStatus[r] = "queued"
  /\ SetRun(r, "running")
  /\ UNCHANGED <<runCost, gate, stageVars, sessionVars>>

SomeFailed(r) == \E s \in StagesOf(r) : status[s] = "failed"

BackoffPending(r) == \E s \in StagesOf(r) : status[s] = "queued" /\ ~due[s]

OverBudget(r) == BudgetCap # 0 /\ runCost[r] > BudgetCap

Bug_AllTerminal(r) == \E s \in StagesOf(r) : status[s] \in Terminal

AllTerminal(r) == \A s \in StagesOf(r) : status[s] \in Terminal

OpenGate(r, kind) ==
  /\ SetRun(r, "waiting_pm")
  /\ gate' = [gate EXCEPT ![r] = kind]

\* The early returns of advance_run, in the order they are tested.
AdvanceRun(r) ==
  /\ runStatus[r] = "running"
  /\ \/ /\ SomeFailed(r)
        /\ SetRun(r, "failed")
        /\ UNCHANGED gate
     \/ /\ ~SomeFailed(r) /\ BackoffPending(r)
        /\ SetRun(r, "queued")
        /\ UNCHANGED gate
     \/ /\ ~SomeFailed(r) /\ ~BackoffPending(r) /\ OverBudget(r)
        /\ OpenGate(r, "budget_cap")
     \/ /\ ~SomeFailed(r) /\ ~BackoffPending(r) /\ ~OverBudget(r) /\ AllTerminal(r)
        /\ IF r \in GatedRuns
             THEN OpenGate(r, "initiation_decision")
             ELSE SetRun(r, "succeeded") /\ UNCHANGED gate
  /\ UNCHANGED <<runCost, stageVars, sessionVars>>

\* routes.decide: only an initiation_decision gate admits the answer.
Decide(r) ==
  /\ runStatus[r] = "waiting_pm"
  /\ gate[r] = "initiation_decision"
  /\ SetRun(r, "succeeded")
  /\ UNCHANGED <<runCost, gate, stageVars, sessionVars>>

CancelRun(r) ==
  /\ runStatus[r] \in {"queued", "running", "waiting_pm"}
  /\ SetRun(r, "cancelled")
  /\ UNCHANGED <<runCost, gate, stageVars, sessionVars>>

-----------------------------------------------------------------------------
ReportStep(w) ==
  \/ ReportRead(w) \/ ReportLook(w) \/ ReportSum(w)
  \/ \E c \in Costs : CompleteStage(w, c) \/ \E b \in BOOLEAN : FailStage(w, c, b)

ReapEnds == (\E s \in Stages : ReapLook(s)) \/ ReapCommit \/ ReapRollsBack

Next ==
  \/ \E w \in Workers : Claim(w) \/ Heartbeat(w) \/ ReportStep(w) \/ WorkerStops(w)
  \/ \E s \in Stages : LeaseExpires(s) \/ BackoffElapses(s)
  \/ ReapSelect \/ ReapEnds
  \/ \E r \in Runs : StartRun(r) \/ AdvanceRun(r) \/ Decide(r) \/ CancelRun(r)

Spec == Init /\ [][Next]_vars

(***************************************************************************)
(* Fairness: workers keep polling and end what they started one way or the *)
(* other, clocks advance, and a transaction that was opened ends.  Nobody  *)
(* has to call the reaper, the orchestrator may be kept from a run for     *)
(* ever, and the PM owes nothing.                                          *)
(***************************************************************************)
Fairness ==
  /\ \A w \in Workers : WF_vars(Claim(w)) /\ WF_vars(ReportStep(w) \/ WorkerStops(w))
  /\ \A s \in Stages : WF_vars(LeaseExpires(s)) /\ WF_vars(BackoffElapses(s))
  /\ WF_vars(ReapEnds)

FairSpec == Spec /\ Fairness

-----------------------------------------------------------------------------
(***************************************************************************)
(* Properties.                                                             *)
(***************************************************************************)

\* claim_stage and reap_expired never hand out an attempt past max_attempts:
\* a stage that may be claimed again still has one left, also when the report
\* or the reaper that queued it decided on a row loaded long before.
AttemptsBounded ==
  \A s \in Stages : status[s] = "queued" => attempts[s] < MaxAttempts

\* The stage_attempts rows agree with the stage row through claims, reports of
\* workers that lost their claim, and reaping, overlapping or not: attempt
\* numbers are used in order; a running stage has its newest attempt running, in
\* the name of the worker that claimed it.  Only a late terminal failure that
\* read the row before a claim and wrote it after can leave an attempt running,
\* and a claim, on a stage that is over, and that stage is failed.
AttemptRowsAgree ==
  \A s \in Stages :
    /\ \A n \in 1..MaxAttempts :
         /\ attempt[s][n].state = "none" <=> n > attempts[s]
         /\ attempt[s][n].state = "running" =>
              n = attempts[s] /\ status[s] \in {"running", "failed"}
    /\ status[s] = "running" =>
         /\ attempts[s] > 0
         /\ attempt[s][attempts[s]].state = "running"
         /\ claimedBy[s] \in Workers
         /\ attempt[s][attempts[s]].worker = claimedBy[s]
    /\ claimedBy[s] # NoWorker => status[s] \in {"running", "failed"}

\* A verifier or finalizer is only ever executed after the stage it depends on
\* stored a result, and the result it reads stays, even if a late report or a
\* reaper that overlapped the report rewrites the status of that stage.
DependencyDelivered ==
  \A s \in Stages :
    DependsOn[s] # NoStage /\ attempts[s] > 0 => DependsOn[s] \in result

\* A run that succeeded, or reached its decision gate, has a stored result for
\* every one of its stages, whatever was retried, reaped or reported late.
SucceededRunIsComplete ==
  \A r \in Runs :
    runStatus[r] = "succeeded" \/ gate[r] = "initiation_decision" => StagesOf(r) \subseteq result

\* The report of w writes a cost over one that was committed after it read the row.
Overtakes(w) == view[w].cost # cost[job[w]]

\* The report of w has no running attempt to close: it comes after the reaper's.
Unattached(w) ==
  view[w].row = 0 \/ attempt[job[w]][view[w].row].state # "running"

Charged(s) == cost[s] - AttemptCosts(s)

BalanceKept ==
  \A s \in Stages :
    /\ Charged(s)' # Charged(s) =>
         \E w \in Workers : job[w] = s /\ view[w].step = "summed" /\ (Overtakes(w) \/ Unattached(w))
    /\ Charged(s)' < Charged(s) =>
         \E w \in Workers : job[w] = s /\ view[w].step = "summed" /\ Overtakes(w)

\* The stage is charged what its attempts are, no more and no less: a step that
\* moves one without the other is a report for an attempt already closed, and
\* one that loses a charge is a report that overlapped another of the same stage.
ChargesBalance == [][BalanceKept]_vars

\* advance_run never lets a run whose stages spent more than the cap succeed,
\* or reach its decision, without stopping at the budget gate.
NoSilentOverspend ==
  [][\A r \in Runs :
       /\ BudgetCap # 0 /\ runStatus[r] = "running"
       /\ runStatus'[r] = "succeeded" \/ gate'[r] = "initiation_decision"
       => StageCosts(r) <= BudgetCap]_vars

KeepsFinished == \A s \in Stages : status[s] \in Terminal => status'[s] \in Terminal

\* A stage that is over is never given out again.
FinishedStagesStay == [][KeepsFinished]_vars

\* A report or a reaping of s is open that loaded the row while it was running.
LoadedRunning(s) ==
  \/ BeingReaped(s)
  \/ \E w \in Workers : job[w] = s /\ view[w].step # "none" /\ view[w].status = "running"

ReopensByOverlap ==
  \A s \in Stages :
    status[s] \in Terminal /\ status'[s] \notin Terminal => LoadedRunning(s) /\ ~due'[s]

\* A stage that is over is given out again only by a transaction that read it
\* while it still ran and overlapped the one that ended it; it then has to wait
\* out a backoff.  No late or repeated report that reads the row afterwards, and
\* no claim, does so.
ReopenedOnlyByOverlap == [][ReopensByOverlap]_vars

\* advance_run has nothing to decide yet.
Hanging(r) == runStatus[r] = "running" /\ ~SomeFailed(r) /\ ~AllTerminal(r)

\* A stage of the run is claimed, and no worker executes it any more.
Abandoned(r) ==
  \E s \in StagesOf(r) : status[s] = "running" /\ \A w \in Workers : job[w] # s

\* Without any help of the reaper, a running run only ever gets stuck on a stage
\* whose worker died: queued stages are claimed when their dependency and their
\* backoff allow it, and reports and reapings that overlap strand nothing else.
HangsOnlyIfAbandoned == \A r \in Runs : <>[]Hanging(r) => <>[]Abandoned(r)

=============================================================================
