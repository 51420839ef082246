--------------------------- MODULE ScheduledRuns ---------------------------
(***************************************************************************)
(* The scheduler (core/scheduler/jobs.py, scheduler.py, leader.py): jobs   *)
(* that several core processes fire, the advisory lock that elects one of  *)
(* them, and the runs they create through engine.create_run, beside the    *)
(* runs the PM asks for.                                                   *)
(*                                                                         *)
(* A job is one transaction on one pooled connection: it tries the lock,   *)
(* loads the coverages, creates a run for each that needs one, and commits *)
(* with its log row.  The coverages stay in the session's identity map as  *)
(* they were loaded, so that create_run sees their leads of that moment.   *)
(* The advisory lock belongs to the connection and is never given back; it *)
(* ends when the connection does.  A firing that is refused the lock       *)
(* returns 0 and leaves no trace, so it is no step here.                   *)
(***************************************************************************)
EXTENDS Integers, Sequences, FiniteSets, Planner

CONSTANTS
  Procs,          \* core processes
  Pool,           \* the connections of each process's pool
  Jobs,           \* the jobs fund.scheduler and the calendar fire
  Coverages,
  Desk,           \* the coverages the PM works on in this instance
  Explicit,       \* coverage_contributors: the PM's override, or {}
  FirstState, FirstLead,   \* the coverages as the instance finds them
  PmTypes,        \* the run types the PM asks for in this instance
  VerifyCounts,   \* the verify_count an initiation may ask for
  IncludeDataChecker,      \* the initiation policy of fund.yaml
  LastPeriod,     \* bound: the periods (trading date or month) that pass
  StalePeriods,   \* after how many periods a review is stale
  NoConn

CoverageKinds == {"active", "watch", "other"}

Sweeps == {"session_tick", "watch_tick", "quarterly_sweep", "retention"}

\* The jobs whose owning spec is not built: they raise NotImplementedError.
PendingSpec == {"earnings_sweep", "prediction_scoring", "lead_review_candidacy",
                "distillation", "cost_rollup"}

ASSUME SchedulerAssumption ==
  /\ Pool \in [Procs -> SUBSET UNION {Pool[p] : p \in Procs}]
  /\ \A p, q \in Procs : p # q => Pool[p] \cap Pool[q] = {}
  /\ NoConn \notin UNION {Pool[p] : p \in Procs}
  /\ Jobs \subseteq Sweeps \cup PendingSpec
  /\ Desk \subseteq Coverages
  /\ Explicit \in [Coverages -> SUBSET Houses]
  /\ FirstState \in [Coverages -> CoverageKinds]
  /\ FirstLead \in [Coverages -> Houses \cup {NoHouse}]
  /\ \A c \in Coverages : FirstLead[c] = NoHouse => FirstState[c] = "other"
  /\ PmTypes \subseteq RunTypes
  /\ VerifyCounts \subseteq Int
  /\ IncludeDataChecker \in BOOLEAN
  /\ LastPeriod \in Nat \ {0}
  /\ StalePeriods \in Nat \ {0}

VARIABLES
  state,       \* coverage.state, as far as the jobs tell it apart
  lead,        \* coverage.lead_house
  period,      \* now, as the trigger_ref of a job writes it
  leader,      \* the connection that holds SCHEDULER_KEY
  firing,      \* the transaction of a job in a process
  count,       \* runs by (coverage, job, period of the trigger_ref)
  reviewed,    \* the period of a coverage's last deep_review, 0 for none
  log,         \* scheduler_job_logs: the rows the last step committed
  newest       \* the run the last step created, if it created one

covVars == <<state, lead>>
runVars == <<count, reviewed>>
vars == <<state, lead, period, leader, firing, count, reviewed, log, newest>>

Conns == UNION {Pool[p] : p \in Procs}
Periods == 1 .. LastPeriod
Firings == Procs \X Jobs
Refs == Coverages \X Jobs \X Periods      \* a coverage and the trigger_ref of its run
Leads == [Coverages -> Houses \cup {NoHouse}]
Idle == [conn |-> NoConn, found |-> {}, todo |-> {}, made |-> {}, at |-> 1,
         leads |-> [c \in Coverages |-> NoHouse]]

Stages == [role : {"author", "verifier", "data_checker", "finalizer", "monitor", "pm_query"},
           house : Houses, depends_on : Nat]

FiringRows ==
  [conn : Conns \cup {NoConn}, found : SUBSET Coverages, todo : SUBSET Coverages,
   made : SUBSET Coverages, at : Periods, leads : Leads]

TypeOK ==
  /\ state \in [Coverages -> CoverageKinds]
  /\ lead \in Leads
  /\ period \in Periods
  /\ leader \in Conns \cup {NoConn}
  /\ firing \in [Firings -> FiringRows]
  /\ count \in [Refs -> Nat]
  /\ reviewed \in [Coverages -> 0 .. LastPeriod]
  /\ log \in SUBSET [job : Jobs, status : {"succeeded", "skipped", "failed"},
                     found : SUBSET Coverages, at : Periods]
  /\ newest.plan \in Seq(Stages)

\* asked: the request named the lead.
NoRunYet == [type |-> "none", by |-> "none", cov |-> "none", lead |-> NoHouse,
             asked |-> FALSE, wanted |-> 0, plan |-> <<>>]

\* A coverage that is live has a lead (the CHECK of the coverages table).
Init ==
  /\ state = FirstState
  /\ lead = FirstLead
  /\ period = 1
  /\ leader = NoConn
  /\ firing = [f \in Firings |-> Idle]
  /\ count = [ref \in Refs |-> 0]
  /\ reviewed = [c \in Coverages |-> 0]
  /\ log = {}
  /\ newest = NoRunYet

-----------------------------------------------------------------------------
(***************************************************************************)
(* Firing a job.                                                           *)
(***************************************************************************)

Working(p, j) == firing[<<p, j>>].conn # NoConn

\* The pool gives a connection to one session at a time.
FreeConns(p) == {k \in Pool[p] : \A j \in Jobs : firing[<<p, j>>].conn # k}

\* Every process elects itself.
Bug_TryLock(k) == TRUE

\* pg_try_advisory_lock: free, or held by this very connection.
TryLock(k) == leader \in {NoConn, k}

\* The coverages a job loads.
Loaded(j) ==
  CASE j \in {"session_tick", "quarterly_sweep"} -> {c \in Coverages : state[c] = "active"}
    [] j = "watch_tick" -> {c \in Coverages : state[c] = "watch"}
    [] j = "retention" -> {}

\* A transaction that has just loaded its coverages, with their leads.
Fired(k, j) ==
  [conn |-> k, found |-> Loaded(j), todo |-> Loaded(j), made |-> {}, at |-> period,
   leads |-> [c \in Coverages |-> IF c \in Loaded(j) THEN lead[c] ELSE NoHouse]]

FireJob(p, j, k) ==
  /\ j \in Sweeps
  /\ ~Working(p, j)
  /\ k \in FreeConns(p)
  /\ TryLock(k)
  /\ leader' = k
  /\ firing' = [firing EXCEPT ![<<p, j>>] = Fired(k, j)]
  /\ newest' = NoRunYet
  /\ log' = {}
  /\ UNCHANGED <<covVars, period, runVars>>

LogRow(j, status, found, at) == {[job |-> j, status |-> status, found |-> found, at |-> at]}

\* run_job: NotImplementedError is rolled back and logged as skipped.
FirePendingSpec(p, j) ==
  /\ j \in PendingSpec
  /\ FreeConns(p) # {}
  /\ log' = LogRow(j, "skipped", {}, period)
  /\ newest' = NoRunYet
  /\ UNCHANGED <<covVars, period, leader, firing, runVars>>

-----------------------------------------------------------------------------
(***************************************************************************)
(* The body of a sweep, one coverage at a time.                            *)
(***************************************************************************)

JobType(j) == IF j = "quarterly_sweep" THEN "deep_review" ELSE "monitor_tick"

\* The trigger_ref names the moment of the firing.
Bug_RefTaken(c, j, at) == FALSE

\* A committed run of the coverage, type and trigger_ref: what the unique index
\* uq_runs_trigger_ref refuses to repeat.
RefTaken(c, j, at) == count[<<c, j, at>>] > 0

\* The period is left out of the lookup.
Bug_HasRun(c, j, at) == \E n \in Periods : RefTaken(c, j, n)

HasRun(c, j, at) == RefTaken(c, j, at)

\* A deep_review of the coverage since the cutoff, which counts from the firing.
RecentReview(c, at) == reviewed[c] > 0 /\ reviewed[c] + StalePeriods > at

\* The job leaves the coverage alone.
NothingDue(c, j, at) ==
  \/ HasRun(c, j, at)
  \/ j = "quarterly_sweep" /\ RecentReview(c, at)

Done(f, c, new) ==
  [conn |-> f.conn, found |-> f.found, todo |-> f.todo \ {c}, made |-> f.made \cup new,
   at |-> f.at, leads |-> f.leads]

SweepSkips(p, j, c) ==
  /\ c \in firing[<<p, j>>].todo
  /\ NothingDue(c, j, firing[<<p, j>>].at)
  /\ firing' = [firing EXCEPT ![<<p, j>>] = Done(firing[<<p, j>>], c, {})]
  /\ newest' = NoRunYet
  /\ log' = {}
  /\ UNCHANGED <<covVars, period, leader, runVars>>

\* The contributors come from a fresh read of the coverage.
Bug_PlanFor(c, type, runLead, covLead, verifyCount) ==
  PlanStages(type, runLead, ResolveContributors(lead[c], Explicit[c]), verifyCount,
             IncludeDataChecker)

\* engine.create_run on a coverage whose lead the session sees as covLead.
PlanFor(c, type, runLead, covLead, verifyCount) ==
  PlanStages(type, runLead, ResolveContributors(covLead, Explicit[c]), verifyCount,
             IncludeDataChecker)

Newest(c, type, by, runLead, asked, wanted, plan) ==
  newest' = [type |-> type, by |-> by, cov |-> c, lead |-> runLead, asked |-> asked,
             wanted |-> wanted, plan |-> plan]

\* The scheduler passes no meta houses, so that only a missing house stops it.
SchedulerPlan(p, j, c) ==
  LET seen == firing[<<p, j>>].leads[c] IN PlanFor(c, JobType(j), seen, seen, 0)

MissingHouse(plan) == \E i \in DOMAIN plan : plan[i].house = NoHouse

\* An insert that meets another transaction's row of its trigger_ref waits.
RefPending(p, j, c) ==
  \E q \in Procs \ {p} : c \in firing[<<q, j>>].made /\ firing[<<q, j>>].at = firing[<<p, j>>].at

SweepCreates(p, j, c) ==
  /\ c \in firing[<<p, j>>].todo
  /\ ~NothingDue(c, j, firing[<<p, j>>].at)
  /\ ~RefPending(p, j, c)
  /\ ~MissingHouse(SchedulerPlan(p, j, c))
  /\ firing' = [firing EXCEPT ![<<p, j>>] = Done(firing[<<p, j>>], c, {c})]
  /\ Newest(c, JobType(j), j, firing[<<p, j>>].leads[c], FALSE, 0, SchedulerPlan(p, j, c))
  /\ log' = {}
  /\ UNCHANGED <<covVars, period, leader, runVars>>

\* run_job commits the runs with the row of the job's success.  The created_at of
\* a run is the start of its transaction.
JobCommits(p, j) ==
  LET f == firing[<<p, j>>] IN
  /\ Working(p, j)
  /\ f.todo = {}
  /\ count' = [ref \in Refs |->
       IF ref[1] \in f.made /\ ref[2] = j /\ ref[3] = f.at THEN count[ref] + 1 ELSE count[ref]]
  /\ reviewed' = [c \in Coverages |->
       IF j = "quarterly_sweep" /\ c \in f.made /\ f.at > reviewed[c] THEN f.at ELSE reviewed[c]]
  /\ log' = LogRow(j, "succeeded", f.found, f.at)
  /\ firing' = [firing EXCEPT ![<<p, j>>] = Idle]
  /\ newest' = NoRunYet
  /\ UNCHANGED <<covVars, period, leader>>

\* Any exception: everything the job did is rolled back, one row says so.
JobFails(p, j) ==
  /\ Working(p, j)
  /\ log' = LogRow(j, "failed", {}, period)
  /\ firing' = [firing EXCEPT ![<<p, j>>] = Idle]
  /\ newest' = NoRunYet
  /\ UNCHANGED <<covVars, period, leader, runVars>>

\* The process ends; its connections, and with them the lock, go.
ProcessDies(p) ==
  /\ firing' = [f \in Firings |-> IF f[1] = p THEN Idle ELSE firing[f]]
  /\ leader' = IF leader \in Pool[p] THEN NoConn ELSE leader
  /\ newest' = NoRunYet
  /\ log' = {}
  /\ UNCHANGED <<covVars, period, runVars>>

NextPeriod ==
  /\ period < LastPeriod
  /\ period' = period + 1
  /\ newest' = NoRunYet
  /\ log' = {}
  /\ UNCHANGED <<covVars, leader, firing, runVars>>

-----------------------------------------------------------------------------
(***************************************************************************)
(* The PM: runs on request, and what moves a coverage under a job.         *)
(***************************************************************************)

\* initiate, new_run and new_query.
PmCreates(c, type, requested, verifyCount) ==
  LET runLead == IF requested # NoHouse THEN requested ELSE lead[c]
      plan == PlanFor(c, type, runLead, lead[c], verifyCount) IN
  /\ ~PlanRefused(plan)
  /\ reviewed' = [reviewed EXCEPT ![c] = IF type = "deep_review" THEN period ELSE @]
  /\ Newest(c, type, "pm", runLead, requested # NoHouse,
            IF type = "initiation" THEN verifyCount ELSE 0, plan)
  /\ log' = {}
  /\ UNCHANGED <<covVars, period, leader, firing, count>>

\* The coverage state machine, seen from here: promote, demote, exit, the PM's
\* decision, which makes the lead_house of the initiation's params the coverage's,
\* a meta house too, and set_lead.
PmMoves(c) ==
  /\ \E s \in CoverageKinds, h \in Houses :
       /\ state' = [state EXCEPT ![c] = s]
       /\ lead' = [lead EXCEPT ![c] = h]
  /\ newest' = NoRunYet
  /\ log' = {}
  /\ UNCHANGED <<period, leader, firing, runVars>>

-----------------------------------------------------------------------------

JobStep(p, j) ==
  \/ \E k \in Conns : FireJob(p, j, k)
  \/ FirePendingSpec(p, j)
  \/ \E c \in Coverages : SweepSkips(p, j, c) \/ SweepCreates(p, j, c)
  \/ JobCommits(p, j)
  \/ JobFails(p, j)

Pm ==
  \E c \in Desk :
    \/ PmMoves(c)
    \/ \E type \in PmTypes, h \in Houses \cup {NoHouse}, n \in VerifyCounts :
         PmCreates(c, type, h, n)

Next ==
  \/ \E p \in Procs, j \in Jobs : JobStep(p, j)
  \/ \E p \in Procs : ProcessDies(p)
  \/ NextPeriod
  \/ Pm

Spec == Init /\ [][Next]_vars

-----------------------------------------------------------------------------
(***************************************************************************)
(* Properties.                                                             *)
(***************************************************************************)

\* However many processes fire a job, however often, and wherever one of them
\* dies, a coverage gets one run of it in a period (the trigger_ref and its
\* unique index).
OneRunPerPeriod ==
  \A c \in Coverages, j \in Jobs, n \in Periods : count[<<c, j, n>>] <= 1

\* The advisory lock: no two sweeps work at the same time, in one process or in
\* two, whatever process died before.
OneSweepAtATime ==
  \A p, q \in Procs, i, j \in Jobs :
    Working(p, i) /\ Working(q, j) => p = q /\ i = j

\* A job that is logged as succeeded has left no coverage it found without its
\* run of the period, or for a quarterly sweep without a review since the cutoff;
\* runs that an earlier, failed firing had made do not count.
SuccessMeansWork ==
  \A row \in log : row.status = "succeeded" /\ row.job # "retention" =>
    \A c \in row.found :
      \/ count[<<c, row.job, row.at>>] = 1
      \/ row.job = "quarterly_sweep" /\ RecentReview(c, row.at)

HousesOf(role) ==
  {newest.plan[i].house : i \in {n \in DOMAIN newest.plan : newest.plan[n].role = role}}

RolesAt(i) == newest.plan[i].role

\* No verifier is asked twice; an initiation gets no more verifiers than it asks
\* for, and the house that writes it closes it (plan_stages).
PlanIsSound ==
  LET plan == newest.plan
      checks == {i \in DOMAIN plan : RolesAt(i) = "verifier"} IN
  /\ \A i, k \in checks : plan[i].house = plan[k].house => i = k
  /\ newest.type = "initiation" =>
       /\ Cardinality(checks) <= (IF newest.wanted > 0 THEN newest.wanted ELSE 0)
       /\ RolesAt(1) = "author" /\ RolesAt(Len(plan)) = "finalizer"
       /\ plan[1].house = plan[Len(plan)].house

\* No meta house writes or verifies what the PM asks for; the scheduler, which
\* does not check, gets none as verifier unless the PM's override names one.
AnalystsOnly ==
  /\ newest.by = "pm" => (HousesOf("author") \cup HousesOf("verifier")) \cap MetaHouses = {}
  /\ newest.by \in Jobs =>
       HousesOf("verifier") \cap MetaHouses \subseteq Explicit[newest.cov]

\* Where the lead that writes is the coverage's own, it verifies only if the PM's
\* override names it, though the coverage may get another lead while the sweep
\* that plans the run is at work.
VerifiedByOthers ==
  newest.type \in RunTypes /\ ~newest.asked /\ newest.lead \in HousesOf("verifier") =>
    newest.lead \in Explicit[newest.cov]

\* Whoever asks for a run, and whatever lead and override its coverage has or gets
\* meanwhile, create_run plans it soundly.
PlansAreSound == PlanIsSound /\ AnalystsOnly /\ VerifiedByOthers
=============================================================================
