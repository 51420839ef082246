-------------------------- MODULE OrchestratorTick --------------------------
(***************************************************************************)
(* The orchestrator tick (core/orchestrator/engine.py) as the long         *)
(* transaction it is: tick promotes every queued run and advances every    *)
(* running one in one session, and its caller commits once, while stage    *)
(* workers and the cancel route commit transactions of their own.          *)
(*                                                                         *)
(* RunLifecycle takes each engine call as one committed step.  This module *)
(* takes those steps apart: what a SELECT loaded is acted on later, writes *)
(* stay invisible to others until the commit, rows written are locked, and *)
(* a call that raises takes the whole tick with it.                        *)
(*                                                                         *)
(* status .. ledger are the tables as the tick sees them, its own writes   *)
(* included; committed holds them without those writes.  One tick runs at  *)
(* a time.  Queue detail (claims, leases, attempts) is StageQueue's; of it *)
(* this module keeps that an attempt which was given up may still report.  *)
(* A reaper that overlaps such a report, and so gives out a finished stage *)
(* again, is StageQueue's run reopened_stage and is left out here.         *)
(***************************************************************************)
EXTENDS Integers, Sequences, FiniteSets, SequencesExt

CONSTANTS
  Runs, Coverages,
  CovOf,          \* runs.coverage_id
  TypeOf,         \* runs.type: "event_analysis" or "initiation"
  Prices,         \* the target prices an author may state
  NoPrice,        \* no target price stated
  TpChangePct,    \* fund.escalation.auto_cross_check.tp_change_pct
  Lingering,      \* bound: the stages whose reaped worker may go on in this instance
  Cancellable,    \* the runs the PM may cancel in this instance
  FirstCov,       \* the states a coverage may be found in
  MaxCrashes,     \* bound: how often the process dies in the middle of a tick
  NoRun

ASSUME TickAssumption ==
  /\ CovOf \in [Runs -> Coverages]
  /\ TypeOf \in [Runs -> {"event_analysis", "initiation"}]
  /\ Prices \subseteq Nat
  /\ NoPrice \notin Nat
  /\ TpChangePct \in Nat
  /\ Cancellable \subseteq Runs
  /\ MaxCrashes \in Nat
  /\ FirstCov \subseteq {"proposed", "failed", "active"}
  /\ NoRun \notin Runs

VARIABLES
  status,      \* runs.status
  lock,        \* coverage_run_locks
  cov,         \* coverage.state
  stage,       \* run_stages.status by role, "absent" without a row
  target,      \* the target price in the author stage's result
  ledger,      \* predictions of kind target_price, oldest first
  committed,   \* the same tables without the writes of the running tick
  dirty,       \* the run rows the running tick has updated
  phase,       \* where the tick is
  todo,        \* the runs its last SELECT loaded and it has not come to yet
  stray,       \* the stages of which an attempt was reaped and its worker goes on
  cancel,      \* where the PM's cancel request of a run is
  crashes

tableVars == <<status, lock, cov, stage, target, ledger>>
tickVars == <<dirty, phase, todo, crashes>>
vars == <<status, lock, cov, stage, target, ledger, committed, dirty, phase, todo,
          stray, cancel, crashes>>

Tables == [status |-> status, lock |-> lock, cov |-> cov, stage |-> stage,
           target |-> target, ledger |-> ledger]

Roles == {"author", "finalizer", "cross_check"}
Ended == {"succeeded", "failed", "cancelled"}

\* A stage row that failed after it had succeeded keeps its result: "overturned".
Failures == {"failed", "overturned"}
Terminal == {"succeeded"} \cup Failures
HasResult(row) == row \in {"succeeded", "overturned"}

\* A queued stage is on its first attempt, backing off, or on its last one.
Pending == {"queued", "waiting", "retrying"}
Claimable == {"queued", "retrying"}

TableTypes ==
  [status : [Runs -> {"queued", "running", "waiting_pm"} \cup Ended],
   lock : [Coverages -> Runs \cup {NoRun}],
   cov : [Coverages -> {"proposed", "initiating", "decision_pending", "failed", "active"}],
   stage : [Runs -> [Roles -> {"absent"} \cup Pending \cup Terminal]],
   target : [Runs -> Prices \cup {NoPrice}],
   ledger : [Coverages -> Seq([run : Runs, price : Prices])]]

TypeOK ==
  /\ Tables \in TableTypes
  /\ committed \in TableTypes
  /\ phase \in {"idle", "promote", "advance"}
  /\ dirty \subseteq Runs
  /\ todo \subseteq Runs
  /\ stray \subseteq Runs \X Roles
  /\ cancel \in [Runs -> {"none", "read", "missed", "holding", "done"}]
  /\ crashes \in 0 .. MaxCrashes
  /\ phase = "idle" => committed = Tables /\ dirty = {} /\ todo = {}

\* Runs as create_run left them: an initiation may be a retry on a failed
\* coverage (retry_run does not move it).
Init ==
  /\ status = [r \in Runs |-> "queued"]
  /\ lock = [c \in Coverages |-> NoRun]
  /\ cov \in [Coverages -> FirstCov]
  /\ stage = [r \in Runs |->
       [author |-> "queued", cross_check |-> "absent",
        finalizer |-> IF TypeOf[r] = "initiation" THEN "queued" ELSE "absent"]]
  /\ target = [r \in Runs |-> NoPrice]
  /\ ledger = [c \in Coverages |-> <<>>]
  /\ committed = Tables
  /\ dirty = {}
  /\ phase = "idle"
  /\ todo = {}
  /\ stray = {}
  /\ cancel = [r \in Runs |-> "none"]
  /\ crashes = 0

-----------------------------------------------------------------------------
(***************************************************************************)
(* Stage execution: by a worker with a transaction of its own, or by the   *)
(* runner the tick drains inside its transaction.                          *)
(***************************************************************************)

DependencyMet(r, role) == role = "author" \/ stage[r].author = "succeeded"

\* A claimed attempt ends; an author's result may state a target price.
StageEnds(r, role) ==
  /\ status[r] = "running"
  /\ stage[r][role] \in Claimable
  /\ DependencyMet(r, role)
  /\ \E outcome \in {"succeeded", "failed", "waiting"}, price \in Prices \cup {NoPrice} :
       /\ outcome = "waiting" => stage[r][role] = "queued"
       /\ (role # "author" \/ outcome # "succeeded") => price = NoPrice
       /\ stage' = [stage EXCEPT ![r][role] = outcome]
       /\ target' = [target EXCEPT ![r] = IF role = "author" THEN price ELSE @]

\* The worker only sees what is committed, and its rows are not the tick's.  A
\* stage that is queued again was reported as failed, or its worker was reaped
\* and does not know it.
WorkerEnds(r, role) ==
  /\ committed.status[r] = "running"
  /\ stage[r] = committed.stage[r]
  /\ StageEnds(r, role)
  /\ committed' = [committed EXCEPT !.stage[r] = stage'[r], !.target[r] = target'[r]]
  /\ \/ UNCHANGED stray
     \/ stage'[r][role] = "waiting" /\ <<r, role>> \in Lingering /\ stray' = stray \cup {<<r, role>>}
  /\ UNCHANGED <<status, lock, cov, ledger, tickVars, cancel>>

\* The row after fail_stage's terminal branch, which asks for no state and
\* leaves the result.
FailedRow(row) == IF HasResult(row) THEN "overturned" ELSE "failed"

\* The reaped worker, or the one that took its place, reports a failure that is
\* not retried, whatever became of the stage and of its run.
LateFailure(r, role) ==
  /\ <<r, role>> \in stray
  /\ stage[r][role] = committed.stage[r][role]
  /\ stage' = [stage EXCEPT ![r][role] = FailedRow(@)]
  /\ committed' = [committed EXCEPT !.stage[r][role] = stage'[r][role]]
  /\ stray' = stray \ {<<r, role>>}
  /\ UNCHANGED <<status, lock, cov, target, ledger, tickVars, cancel>>

\* runner.drain
Drain(r, role) ==
  /\ phase = "advance"
  /\ todo # {}
  /\ StageEnds(r, role)
  /\ UNCHANGED <<status, lock, cov, ledger, committed, tickVars, stray, cancel>>

\* available_at passes.
BackoffEnds(r, role) ==
  /\ stage[r][role] = "waiting"
  /\ committed.stage[r] = stage[r]
  /\ stage' = [stage EXCEPT ![r][role] = "retrying"]
  /\ committed' = [committed EXCEPT !.stage[r] = stage'[r]]
  /\ UNCHANGED <<status, lock, cov, target, ledger, tickVars, stray, cancel>>

-----------------------------------------------------------------------------
(***************************************************************************)
(* The PM's cancel request: read the run, delete its lock row, update the  *)
(* run, commit.                                                            *)
(***************************************************************************)

CancelRead(r) ==
  /\ r \in Cancellable
  /\ cancel[r] = "none"
  /\ committed.status[r] \in {"queued", "running", "waiting_pm"}
  /\ cancel' = [cancel EXCEPT ![r] = "read"]
  /\ UNCHANGED <<tableVars, committed, tickVars, stray>>

\* Another transaction's write of the lock row is waited for if the row is
\* there; a lock row the tick inserted and has not committed is not there.
LockRowHit(r) == committed.lock[CovOf[r]] = r

\* finish_run: Query.delete runs at once, before the flush of the run row.
CancelDelete(r) ==
  /\ cancel[r] = "read"
  /\ LockRowHit(r) => lock[CovOf[r]] = r
  /\ cancel' = [cancel EXCEPT ![r] = IF LockRowHit(r) THEN "holding" ELSE "missed"]
  /\ UNCHANGED <<tableVars, committed, tickVars, stray>>

\* The UPDATE waits for a tick that has updated the run, and then overwrites.
CancelCommit(r) ==
  LET freed == IF cancel[r] = "holding" THEN NoRun ELSE lock[CovOf[r]]
      freedC == IF cancel[r] = "holding" THEN NoRun ELSE committed.lock[CovOf[r]] IN
  /\ cancel[r] \in {"missed", "holding"}
  /\ r \notin dirty
  /\ cancel' = [cancel EXCEPT ![r] = "done"]
  /\ status' = [status EXCEPT ![r] = "cancelled"]
  /\ lock' = [lock EXCEPT ![CovOf[r]] = freed]
  /\ committed' = [committed EXCEPT !.status[r] = "cancelled", !.lock[CovOf[r]] = freedC]
  /\ UNCHANGED <<cov, stage, target, ledger, tickVars, stray>>

\* The request dies or is the victim of a deadlock with the tick.  The bound is
\* one request per run.
CancelAborts(r) ==
  /\ cancel[r] \in {"read", "missed", "holding"}
  /\ cancel' = [cancel EXCEPT ![r] = "done"]
  /\ UNCHANGED <<tableVars, committed, tickVars, stray>>

-----------------------------------------------------------------------------
(***************************************************************************)
(* tick, its first loop.                                                   *)
(***************************************************************************)

TickBegin ==
  /\ phase = "idle"
  /\ phase' = "promote"
  /\ todo' = {r \in Runs : status[r] = "queued"}
  /\ UNCHANGED <<tableVars, committed, dirty, stray, cancel, crashes>>

LockRowBusy(c) == \E r \in Runs : cancel[r] = "holding" /\ CovOf[r] = c

\* Any run may start.
Bug_OwnsLock(r) == TRUE


\* INSERT ... ON CONFLICT DO NOTHING, and whose row it is afterwards.
OwnsLock(r) == lock[CovOf[r]] \in {NoRun, r}

\* promote_run and start_run, on a run that was queued when it was loaded.
PromoteRun(r) ==
  LET c == CovOf[r] IN
  /\ phase = "promote"
  /\ r \in todo
  /\ ~LockRowBusy(c)
  /\ todo' = todo \ {r}
  /\ \/ /\ ~OwnsLock(r)
        /\ UNCHANGED <<status, lock, cov, dirty>>
     \/ /\ OwnsLock(r)
        /\ lock' = [lock EXCEPT ![c] = r]
        /\ status' = [status EXCEPT ![r] = "running"]
        /\ dirty' = dirty \cup {r}
        /\ cov' = IF TypeOf[r] = "initiation" /\ cov[c] = "proposed"
                    THEN [cov EXCEPT ![c] = "initiating"] ELSE cov
  /\ UNCHANGED <<stage, target, ledger, committed, phase, stray, cancel, crashes>>

SelectRunning ==
  /\ phase = "promote"
  /\ todo = {}
  /\ phase' = "advance"
  /\ todo' = {r \in Runs : status[r] = "running"}
  /\ UNCHANGED <<tableVars, committed, dirty, stray, cancel, crashes>>

-----------------------------------------------------------------------------
(***************************************************************************)
(* advance_run: register the predictions, perhaps append a cross-check,    *)
(* then settle the run, which was running when it was loaded.              *)
(***************************************************************************)

\* _last_target_price
LastTargetPrice(c) == IF ledger[c] = <<>> THEN NoPrice ELSE Last(ledger[c]).price

Distance(a, b) == IF a > b THEN a - b ELSE b - a

\* auto_cross_check: `if new_tp is not None and last_tp and ...`
Material(new, last) ==
  /\ NoPrice \notin {new, last}
  /\ last # 0
  /\ Distance(new, last) * 100 > TpChangePct * last

Delivered(r) == stage[r].author = "succeeded" /\ target[r] # NoPrice

Bug_Registered(r) == FALSE

\* The idempotency key is made from the stage and what it predicts.
Registered(r) == \E i \in DOMAIN ledger[CovOf[r]] : ledger[CovOf[r]][i].run = r

\* _register_predictions, register_from_stage: ON CONFLICT DO NOTHING.
LedgerAfter(r) ==
  IF Delivered(r) /\ ~Registered(r)
    THEN [ledger EXCEPT ![CovOf[r]] = Append(@, [run |-> r, price |-> target[r]])]
    ELSE ledger

\* The last price is read after the registration.
Bug_NeedsCrossCheck(r) ==
  /\ TypeOf[r] = "event_analysis"
  /\ Delivered(r)
  /\ Material(target[r], Last(LedgerAfter(r)[CovOf[r]]).price)
  /\ stage[r].cross_check = "absent"

\* _maybe_append_cross_check
NeedsCrossCheck(r) ==
  /\ TypeOf[r] = "event_analysis"
  /\ Delivered(r)
  /\ Material(target[r], LastTargetPrice(CovOf[r]))
  /\ stage[r].cross_check = "absent"

\* The stages the second SELECT returns.  The appended row is not among them:
\* it is added to the session and the session does not flush before a SELECT.
Seen(r) == {role \in Roles : stage[r][role] # "absent"}

AnyFailed(r) == \E role \in Seen(r) : stage[r][role] \in Failures

Bug_AllTerminal(r) == \E role \in Seen(r) : stage[r][role] \in Terminal

AllTerminal(r) == \A role \in Seen(r) : stage[r][role] \in Terminal

\* finish_run.  The DELETE waits while a cancel of this run holds the row.
FinishRun(r, to) ==
  /\ cancel[r] # "holding"
  /\ status' = [status EXCEPT ![r] = to]
  /\ lock' = [c \in Coverages |-> IF lock[c] = r THEN NoRun ELSE lock[c]]
  /\ dirty' = dirty \cup {r}

\* A flush of the run row alone.
MoveRun(r, to) ==
  /\ status' = [status EXCEPT ![r] = to]
  /\ dirty' = dirty \cup {r}
  /\ UNCHANGED <<lock, cov>>

FailRun(r) ==
  /\ AnyFailed(r)
  /\ FinishRun(r, "failed")
  /\ cov' = IF TypeOf[r] = "initiation" /\ cov[CovOf[r]] = "initiating"
              THEN [cov EXCEPT ![CovOf[r]] = "failed"] ELSE cov

\* _backoff_pending
BacksOff(r) == \E role \in Seen(r) : stage[r][role] = "waiting"

RequeueRun(r) ==
  /\ ~AnyFailed(r)
  /\ BacksOff(r)
  /\ MoveRun(r, "queued")

\* The run has spent more than its cap.
PauseForBudget(r) ==
  /\ ~AnyFailed(r)
  /\ ~BacksOff(r)
  /\ MoveRun(r, "waiting_pm")

LeaveRunning(r) ==
  /\ ~AnyFailed(r)
  /\ ~BacksOff(r)
  /\ ~AllTerminal(r)
  /\ UNCHANGED <<status, lock, cov, dirty>>

\* finalize_run raises when the coverage does not accept initiation_delivered.
FinalizeRun(r) ==
  /\ ~AnyFailed(r)
  /\ AllTerminal(r)
  /\ IF TypeOf[r] = "initiation"
       THEN /\ cov[CovOf[r]] = "initiating"
            /\ cov' = [cov EXCEPT ![CovOf[r]] = "decision_pending"]
            /\ status' = [status EXCEPT ![r] = "waiting_pm"]
            /\ dirty' = dirty \cup {r}
            /\ UNCHANGED lock
       ELSE FinishRun(r, "succeeded") /\ UNCHANGED cov

AdvanceRun(r) ==
  /\ phase = "advance"
  /\ r \in todo
  /\ todo' = todo \ {r}
  /\ ledger' = LedgerAfter(r)
  /\ stage' = IF NeedsCrossCheck(r) THEN [stage EXCEPT ![r].cross_check = "queued"] ELSE stage
  /\ \/ FailRun(r)
     \/ RequeueRun(r)
     \/ PauseForBudget(r)
     \/ LeaveRunning(r)
     \/ FinalizeRun(r)
  /\ UNCHANGED <<target, committed, phase, stray, cancel, crashes>>

-----------------------------------------------------------------------------
(***************************************************************************)
(* The end of the tick: its caller commits, or everything is undone.       *)
(***************************************************************************)

TickCommit ==
  /\ phase = "advance"
  /\ todo = {}
  /\ phase' = "idle"
  /\ committed' = Tables
  /\ dirty' = {}
  /\ UNCHANGED <<tableVars, todo, stray, cancel, crashes>>

Bug_RestoredLedger == ledger

RestoredLedger == committed.ledger

UndoTick ==
  /\ phase' = "idle"
  /\ status' = committed.status
  /\ lock' = committed.lock
  /\ cov' = committed.cov
  /\ stage' = committed.stage
  /\ target' = committed.target
  /\ ledger' = RestoredLedger
  /\ dirty' = {}
  /\ todo' = {}
  /\ UNCHANGED <<committed, stray, cancel>>

\* The run's initiation is complete and its coverage is not initiating.
Undeliverable(r) ==
  /\ TypeOf[r] = "initiation"
  /\ ~AnyFailed(r)
  /\ AllTerminal(r)
  /\ cov[CovOf[r]] # "initiating"

\* finalize_run raises IllegalTransition.
TickRaises ==
  /\ phase = "advance"
  /\ \E r \in todo : Undeliverable(r)
  /\ UndoTick
  /\ UNCHANGED crashes

\* The tick waits for a lock row that a cancel holds, and that cancel for a run
\* row the tick has updated: Postgres ends one of the two.
Deadlocked(r) ==
  /\ cancel[r] = "holding"
  /\ r \in dirty
  /\ \/ phase = "promote" /\ \E q \in todo : CovOf[q] = CovOf[r]
     \/ phase = "advance" /\ r \in todo /\ (AnyFailed(r) \/ AllTerminal(r))

TickIsVictim ==
  /\ \E r \in Runs : Deadlocked(r)
  /\ UndoTick
  /\ UNCHANGED crashes

TickCrashes ==
  /\ phase # "idle"
  /\ crashes < MaxCrashes
  /\ crashes' = crashes + 1
  /\ UndoTick

-----------------------------------------------------------------------------

Tick ==
  \/ TickBegin
  \/ SelectRunning
  \/ TickCommit
  \/ TickRaises
  \/ TickIsVictim
  \/ \E r \in Runs : PromoteRun(r) \/ AdvanceRun(r)

Stages == \E r \in Runs, role \in Roles :
  \/ WorkerEnds(r, role) \/ LateFailure(r, role)
  \/ Drain(r, role) \/ BackoffEnds(r, role)

Cancel ==
  \E r \in Runs : CancelRead(r) \/ CancelDelete(r) \/ CancelCommit(r) \/ CancelAborts(r)

Next == Tick \/ TickCrashes \/ Stages \/ Cancel

Spec == Init /\ [][Next]_vars

\* Ticks are made again and again, and with a bounded number of crashes each
\* goes on to its end; a stage that stays claimable is worked on; a backoff
\* passes; a request ends one way or the other.
FairSpec ==
  /\ Spec
  /\ WF_vars(Tick)
  /\ \A r \in Runs :
       /\ SF_vars(\E role \in Roles : WorkerEnds(r, role))
       /\ SF_vars(\E role \in Roles : BackoffEnds(r, role))
       /\ WF_vars(CancelDelete(r) \/ CancelAborts(r) \/ CancelCommit(r))

-----------------------------------------------------------------------------
(***************************************************************************)
(* Safety.  What is promised is promised of the committed tables; the      *)
(* properties are written for any copy T of them, because a tick that is   *)
(* to commit them must keep them in its own.                               *)
(***************************************************************************)

\* A target price that moves the last registered one by more than the rule
\* allows is never registered without a cross-check row in the same commit,
\* whatever ticks were undone and repeated in between (advance_run reads the
\* last price before it registers the new one).
ChecksMaterialChanges(T) ==
  \A c \in Coverages : \A i \in 2 .. Len(T.ledger[c]) :
    LET new == T.ledger[c][i] IN
      TypeOf[new.run] = "event_analysis" /\ Material(new.price, T.ledger[c][i - 1].price)
      => T.stage[new.run].cross_check # "absent"

MaterialChangeHasCrossCheck == ChecksMaterialChanges(committed)

\* However often a delivered stage is looked at again, by ticks that follow and
\* by ticks that are repeated, it predicts once (register_from_stage).
HasNoRepeats(T) ==
  \A c \in Coverages : \A i, j \in DOMAIN T.ledger[c] :
    T.ledger[c][i].run = T.ledger[c][j].run => i = j

PredictsOnce == HasNoRepeats(committed)

\* What stays in the ledger is the committed result of a stage of that coverage,
\* and what a succeeded run said is there: a tick that is undone takes back its
\* predictions with its stages and its run, none is lost when it is repeated, and
\* a late failure leaves the result the prediction came from (fail_stage).
LedgerFitsStages(T) ==
  /\ \A c \in Coverages : \A i \in DOMAIN T.ledger[c] :
       LET p == T.ledger[c][i] IN
         /\ CovOf[p.run] = c
         /\ HasResult(T.stage[p.run].author)
         /\ T.target[p.run] = p.price
  /\ \A r \in Runs : T.status[r] = "succeeded" /\ T.target[r] # NoPrice =>
       \E i \in DOMAIN T.ledger[CovOf[r]] : T.ledger[CovOf[r]][i].run = r

PredictionsAreDelivered == LedgerFitsStages(committed)

\* No run is reported as succeeded without a result of the stage that create_run
\* planned for it, and no coverage is put before the PM without an initiation of
\* its own whose stages all have theirs, although late failures of reaped workers
\* fall before and after the tick that looks at the stages.
EarnsSuccess(T) ==
  /\ \A r \in Runs : T.status[r] = "succeeded" => HasResult(T.stage[r].author)
  /\ \A c \in Coverages : T.cov[c] = "decision_pending" =>
       \E r \in Runs :
         /\ CovOf[r] = c
         /\ TypeOf[r] = "initiation"
         /\ HasResult(T.stage[r].author)
         /\ HasResult(T.stage[r].finalizer)

SuccessIsEarned == EarnsSuccess(committed)

\* Runs of one coverage that mutate it are never running together, not even
\* when ticks resurrect a run that was cancelled under them.
OneRunningRun ==
  \A r, q \in Runs :
    committed.status[r] = "running" /\ committed.status[q] = "running" /\ CovOf[r] = CovOf[q]
      => r = q

\* At most one mutating run of a coverage is running or waits for the PM.
OneRunInFlight ==
  \A r, q \in Runs :
    /\ {committed.status[r], committed.status[q]} \subseteq {"running", "waiting_pm"}
    /\ CovOf[r] = CovOf[q]
    => r = q

\* finish_run releases the lock: no committed lock belongs to an ended run.
EndedRunFreesTicker ==
  \A c \in Coverages : committed.lock[c] # NoRun => committed.status[committed.lock[c]] \notin Ended

\* A run is only finished when no stage of it is left to do; in particular a
\* cross-check that was appended is made before its run succeeds.
NothingLeftToDo ==
  \A r \in Runs : committed.status[r] = "succeeded" =>
    \A role \in Roles : committed.stage[r][role] \notin Pending

-----------------------------------------------------------------------------
(***************************************************************************)
(* Liveness.                                                               *)
(***************************************************************************)

\* The lock of the run's coverage is with a run that no tick will move.
Blocked(r) ==
  LET owner == committed.lock[CovOf[r]] IN
    owner \notin {NoRun, r} /\ committed.status[owner] \in Ended \cup {"waiting_pm"}

\* A tick has come to an initiation that it cannot deliver.
Poisoned == phase = "advance" /\ \E r \in todo : Undeliverable(r)

=============================================================================
