-------------------------- MODULE StageQueueProofs --------------------------
(***************************************************************************)
(* What holds of the stage queue for every set of runs, stages and         *)
(* workers, every dependency graph and every attempt limit.                *)
(*                                                                         *)
(* A claim opens attempt attempts + 1: that this row exists is             *)
(* AttemptsBounded, that it is unused is AttemptRowsAgree.  Reports and    *)
(* the reaper write by what they loaded, so the invariant says what is     *)
(* still true of a loaded row while its transaction is open (ViewOK,       *)
(* ReapOK): a stage that was running, or over, when it was read, or whose  *)
(* running attempt was found, cannot be claimed until the transaction      *)
(* ends, because the way back to a claim leads through a backoff.  The     *)
(* delivery properties need less: results are written and never cleared.   *)
(***************************************************************************)
EXTENDS StageQueue, Sums

NoneRunning(s) == \A n \in 1..MaxAttempts : attempt[s][n].state # "running"

ViewOK(w) ==
  view[w].step # "none" =>
    /\ job[w] \in Stages
    /\ view[w].status = "running" => view[w].attempts = attempts[job[w]] /\ view[w].holder # NoWorker
    /\ view[w].row # 0 => view[w].row = attempts[job[w]]
    /\ view[w].status # "queued" \/ view[w].row # 0 =>
         ~(status[job[w]] = "queued" /\ due[job[w]])
    /\ view[w].status \in Terminal => status[job[w]] # "running"
    /\ view[w].status = "running" /\ view[w].step # "read" /\ view[w].row = 0 =>
         NoneRunning(job[w])

ReapOK(s) ==
  BeingReaped(s) =>
    /\ reap[s].attempts = attempts[s]
    /\ reap[s].row # 0 => reap[s].row = attempts[s]
    /\ ~(status[s] = "queued" /\ due[s])
    /\ reap[s].step = "looked" /\ reap[s].row = 0 => NoneRunning(s)

SessionPart == (\A w \in Workers : ViewOK(w)) /\ (\A s \in Stages : ReapOK(s))

AttemptPart == AttemptsBounded /\ AttemptRowsAgree

StatusPart ==
  \A s \in Stages : status[s] # "skipped" /\ (status[s] = "succeeded" => s \in result)

DeliveryPart == StatusPart /\ DependencyDelivered /\ SucceededRunIsComplete

Inductive == TypeOK /\ AttemptPart /\ SessionPart /\ DeliveryPart

-----------------------------------------------------------------------------
(***************************************************************************)
(* Facts the actions share.                                                *)
(***************************************************************************)

\* The sums are over finite sets of natural numbers.
LEMMA CostsAreCountable ==
  ASSUME RowsOK, QueueAssumption
  PROVE  /\ \A r : Countable(cost, StagesOf(r)) /\ StageCosts(r) \in Nat
         /\ IsFiniteSet(1..MaxAttempts)
<1>1. ASSUME NEW r PROVE Countable(cost, StagesOf(r))
  <2>1. StagesOf(r) \in SUBSET Stages /\ IsFiniteSet(Stages)
    BY DEF StagesOf, QueueAssumption
  <2>2. IsFiniteSet(StagesOf(r))
    BY <2>1, FS_Subset
  <2> QED BY <2>1, <2>2 DEF Countable, RowsOK
<1>2. IsFiniteSet(1..MaxAttempts)
  <2>1. 1 \in Int /\ MaxAttempts \in Int
    BY DEF QueueAssumption
  <2> QED BY ONLY <2>1, FS_Interval
<1> QED BY <1>1, <1>2, SumIsNatural DEF StageCosts

\* A step that claims nothing, reopens no claim and elapses no backoff of s.
Settles(s) ==
  /\ attempts'[s] = attempts[s]
  /\ status'[s] = "running" => status[s] = "running"
  /\ status'[s] = "queued" /\ due'[s] => status[s] = "queued" /\ due[s]
  /\ \A n \in 1..MaxAttempts : attempt'[s][n].state = "running" => attempt[s][n].state = "running"

\* What an open report knows of its stage survives every such step.
LEMMA ViewStays ==
  ASSUME NEW w \in Workers, ViewOK(w), view'[w] = view[w], job'[w] = job[w],
         job[w] \in Stages => Settles(job[w])
  PROVE  ViewOK(w)'
BY DEF ViewOK, Settles, NoneRunning

\* A worker without an open report owes nothing.
LEMMA NoViewOK ==
  ASSUME NEW w \in Workers, view'[w] = NoView
  PROVE  ViewOK(w)'
BY DEF ViewOK, NoView

\* The same for the reaper.
LEMMA ReapStays ==
  ASSUME NEW s \in Stages, ReapOK(s), reap'[s] = reap[s] \/ reap'[s] = NoReap, Settles(s)
  PROVE  ReapOK(s)'
BY DEF ReapOK, BeingReaped, Settles, NoneRunning, NoReap

\* A step that moves no stage to succeeded or skipped without its result, claims
\* nothing whose dependency has none, and lets no run succeed without all.
LEMMA DeliveryKept ==
  ASSUME DeliveryPart, QueueAssumption, result \subseteq result',
         \A s \in Stages : /\ status'[s] # "skipped"
                           /\ status'[s] = "succeeded" => status[s] = "succeeded" \/ s \in result',
         \A s \in Stages : attempts'[s] > 0 /\ DependsOn[s] # NoStage =>
                             attempts[s] > 0 \/ DependsOn[s] \in result,
         \A r \in Runs : runStatus'[r] = "succeeded" \/ gate'[r] = "initiation_decision" =>
                           \/ runStatus[r] = "succeeded" \/ gate[r] = "initiation_decision"
                           \/ StagesOf(r) \subseteq result
  PROVE  DeliveryPart'
<1>1. StatusPart'
  BY DEF DeliveryPart, StatusPart
<1>2. DependencyDelivered'
  BY DEF DeliveryPart, DependencyDelivered, QueueAssumption
<1>3. SucceededRunIsComplete'
  BY DEF DeliveryPart, SucceededRunIsComplete, StagesOf
<1> QED BY <1>1, <1>2, <1>3 DEF DeliveryPart

\* A step that leaves the stage rows and the runs alone, but for the leases.
LEMMA RowsUntouched ==
  ASSUME Inductive, QueueAssumption, SessionPart', SessionsOK',
         UNCHANGED <<runVars, status, claimedBy, due, attempts, cost, attempt, result>>,
         leaseLive' \in [Stages -> BOOLEAN]
  PROVE  Inductive'
<1>1. TypeOK'
  BY DEF Inductive, TypeOK, RowsOK, runVars
<1>2. AttemptPart'
  BY DEF Inductive, AttemptPart, AttemptsBounded, AttemptRowsAgree
<1>3. DeliveryPart'
  BY DEF Inductive, DeliveryPart, StatusPart, DependencyDelivered, SucceededRunIsComplete, runVars
<1> QED BY <1>1, <1>2, <1>3 DEF Inductive

\* The SELECT of the running attempt finds the newest one, or there is none.
LEMMA LookFinds ==
  ASSUME AttemptRowsAgree, RowsOK, QueueAssumption, NEW s \in Stages
  PROVE  /\ RunningAttempt(s) \in 0..MaxAttempts
         /\ RunningAttempt(s) = 0 => NoneRunning(s)
         /\ RunningAttempt(s) # 0 =>
              RunningAttempt(s) = attempts[s] /\ status[s] \in {"running", "failed"}
<1> DEFINE running == {n \in 1..MaxAttempts : attempt[s][n].state = "running"}
<1>1. CASE running = {}
  BY <1>1 DEF RunningAttempt, NoneRunning, QueueAssumption
<1>2. CASE running # {}
  <2>1. RunningAttempt(s) \in running
    BY <1>2 DEF RunningAttempt
  <2> QED BY <2>1 DEF AttemptRowsAgree, QueueAssumption
<1> QED BY <1>1, <1>2

-----------------------------------------------------------------------------
(***************************************************************************)
(* The reads.                                                              *)
(***************************************************************************)

\* A transaction that only reads changes nothing but what its session holds.
LEMMA ReadsKeep ==
  ASSUME Inductive, QueueAssumption, UNCHANGED <<runVars, stageVars, job, reap>>,
         NEW w \in Workers, NEW v \in Views, view' = [view EXCEPT ![w] = v],
         ViewOK(w)'
  PROVE  Inductive'
<1>1. SessionsOK'
  BY DEF Inductive, TypeOK, SessionsOK
<1>2. \A s \in Stages : Settles(s)
  BY DEF Settles, stageVars
<1>3. ASSUME NEW x \in Workers, x # w PROVE ViewOK(x)'
  <2>1. view'[x] = view[x] /\ job'[x] = job[x]
    BY <1>3 DEF Inductive, TypeOK, SessionsOK
  <2> QED BY <1>2, <2>1, ViewStays DEF Inductive, SessionPart
<1>4. \A s \in Stages : ReapOK(s)'
  BY <1>2, ReapStays DEF Inductive, SessionPart
<1>5. SessionPart'
  BY <1>3, <1>4 DEF SessionPart
<1> QED BY <1>1, <1>5, RowsUntouched DEF stageVars, Inductive, TypeOK, RowsOK

\* session.get of the stage.
LEMMA ReportReadKeeps ==
  ASSUME Inductive, QueueAssumption, NEW w \in Workers, ReportRead(w)
  PROVE  Inductive'
<1> DEFINE s == job[w]
<1> DEFINE v == [NoView EXCEPT !.step = "read", !.status = status[s], !.attempts = attempts[s],
                      !.holder = claimedBy[s], !.cost = cost[s]]
<1>1. s \in Stages /\ TypeOK /\ AttemptRowsAgree
  BY DEF ReportRead, Inductive, TypeOK, SessionsOK, AttemptPart
<1>2. v \in Views
  <2>1. /\ status[s] \in StageStates /\ attempts[s] \in 0..MaxAttempts
        /\ claimedBy[s] \in Workers \cup {NoWorker} /\ cost[s] \in Nat
    BY <1>1 DEF TypeOK, RowsOK
  <2>2. NoView \in Views
    BY DEF Views, NoView, StageStates, QueueAssumption
  <2> QED BY <2>1, <2>2 DEF Views
<1>3. view' = [view EXCEPT ![w] = v] /\ UNCHANGED <<runVars, stageVars, job, reap>>
  BY DEF ReportRead
<1>4. view'[w] = v /\ job'[w] = s
  BY <1>1, <1>3 DEF TypeOK, SessionsOK
<1>5. /\ v.step = "read" /\ v.status = status[s] /\ v.attempts = attempts[s]
      /\ v.holder = claimedBy[s] /\ v.row = 0
  BY DEF NoView
<1>6. status[s] = "running" => claimedBy[s] # NoWorker
  BY <1>1 DEF AttemptRowsAgree, QueueAssumption
<1>7. ViewOK(w)'
  <2> HIDE DEF v, s
  <2> QED BY <1>1, <1>3, <1>4, <1>5, <1>6 DEF ViewOK, stageVars, Terminal
<1> QED BY <1>2, <1>3, <1>7, ReadsKeep

\* The SELECT of the running attempt, and the SUM.
LEMMA ReportLookKeeps ==
  ASSUME Inductive, QueueAssumption, NEW w \in Workers, ReportLook(w) \/ ReportSum(w)
  PROVE  Inductive'
<1> DEFINE s == job[w]
<1>1. TypeOK /\ AttemptRowsAgree /\ ViewOK(w) /\ view[w] \in Views /\ view[w].step # "none"
  BY DEF ReportLook, ReportSum, Inductive, TypeOK, SessionsOK, AttemptPart, SessionPart
<1>2. s \in Stages
  BY <1>1 DEF ViewOK
<1>3. CASE ReportLook(w)
  <2> DEFINE v == [view[w] EXCEPT !.step = "looked", !.row = RunningAttempt(s)]
  <2>1. /\ RunningAttempt(s) \in 0..MaxAttempts
        /\ RunningAttempt(s) = 0 => NoneRunning(s)
        /\ RunningAttempt(s) # 0 =>
             RunningAttempt(s) = attempts[s] /\ status[s] \in {"running", "failed"}
    BY <1>1, <1>2, LookFinds DEF TypeOK
  <2>2. v \in Views
    BY <1>1, <2>1 DEF Views
  <2>3. view' = [view EXCEPT ![w] = v] /\ UNCHANGED <<runVars, stageVars, job, reap>>
    BY <1>1, <1>3 DEF ReportLook, TypeOK, SessionsOK, Views
  <2>4. view'[w] = v /\ job'[w] = s
    BY <1>1, <2>3 DEF TypeOK, SessionsOK
  <2>5. /\ v.step = "looked" /\ v.status = view[w].status /\ v.attempts = view[w].attempts
        /\ v.holder = view[w].holder /\ v.row = RunningAttempt(s)
    BY <1>1 DEF Views
  <2>6. ViewOK(w)'
    <3> HIDE DEF v, s
    <3> QED BY <1>1, <1>2, <2>1, <2>3, <2>4, <2>5 DEF ViewOK, stageVars, NoneRunning, s
  <2> QED BY <2>2, <2>3, <2>6, ReadsKeep
<1>4. CASE ReportSum(w)
  <2> DEFINE r == RunOf[s]
  <2> DEFINE v == [view[w] EXCEPT !.step = "summed", !.total = StageCosts(r), !.spent = runCost[r]]
  <2>1. StageCosts(r) \in Nat /\ runCost[r] \in Nat
    BY <1>1, <1>2, CostsAreCountable DEF TypeOK, RowsOK, QueueAssumption
  <2>2. v \in Views
    BY <1>1, <2>1 DEF Views
  <2>3. view' = [view EXCEPT ![w] = v] /\ UNCHANGED <<runVars, stageVars, job, reap>>
    BY <1>1, <1>4 DEF ReportSum, TypeOK, SessionsOK, Views
  <2>4. view'[w] = v /\ job'[w] = s
    BY <1>1, <2>3 DEF TypeOK, SessionsOK
  <2>5. /\ v.step = "summed" /\ v.status = view[w].status /\ v.attempts = view[w].attempts
        /\ v.holder = view[w].holder /\ v.row = view[w].row /\ view[w].step = "looked"
    BY <1>1, <1>4 DEF Views, ReportSum
  <2>6. ViewOK(w)'
    <3> HIDE DEF v, s
    <3> QED BY <1>1, <1>2, <2>3, <2>4, <2>5 DEF ViewOK, stageVars, NoneRunning, s
  <2> QED BY <2>2, <2>3, <2>6, ReadsKeep
<1> QED BY <1>3, <1>4

-----------------------------------------------------------------------------
(***************************************************************************)
(* The commit of a report.                                                 *)
(***************************************************************************)

\* _close_attempt gives the outcome to the attempt that was found and to no other.
LEMMA CloseAttemptEffect ==
  ASSUME RowsOK, QueueAssumption, NEW w \in Workers, job[w] \in Stages, view[w] \in Views,
         NEW outcome \in {"succeeded", "failed"}, NEW c \in Costs, CloseAttempt(w, outcome, c)
  PROVE  /\ attempt' \in AttemptTables
         /\ cost' \in [Stages -> Nat]
         /\ \A t \in Stages : \A n \in 1..MaxAttempts :
              IF t = job[w] /\ n = view[w].row
                THEN attempt'[t][n] = Closed(attempt[t][n], outcome, c)
                ELSE attempt'[t][n] = attempt[t][n]
         /\ cost' = [cost EXCEPT ![job[w]] = Put(@, view[w].cost, view[w].cost + c)]
<1> DEFINE s == job[w]
<1> DEFINE row == view[w].row
<1>1. row \in 0..MaxAttempts /\ view[w].cost \in Nat /\ c \in Nat
  BY DEF Views, QueueAssumption
<1>2. \A t \in Stages : \A n \in 1..MaxAttempts :
        attempt[t][n] \in AttemptRows /\ Closed(attempt[t][n], outcome, c) \in AttemptRows
  <2>1. \A a \in AttemptRows : Closed(a, outcome, c) \in AttemptRows
    BY <1>1 DEF AttemptRows, AttemptStates, Closed, Put
  <2> QED BY <2>1 DEF RowsOK, AttemptTables
<1>3. attempt' = IF row = 0 THEN attempt
                 ELSE [attempt EXCEPT ![s][row] = Closed(@, outcome, c)]
  BY DEF CloseAttempt
<1>4. cost' = [cost EXCEPT ![s] = Put(@, view[w].cost, view[w].cost + c)]
  BY DEF CloseAttempt
<1>5. cost' \in [Stages -> Nat]
  BY <1>1, <1>4 DEF RowsOK, Put
<1>6. CASE row = 0
  BY <1>1, <1>3, <1>4, <1>5, <1>6 DEF RowsOK
<1>7. CASE row # 0
  <2>1. row \in 1..MaxAttempts
    BY <1>1, <1>7 DEF QueueAssumption
  <2> HIDE DEF row, s
  <2>2. attempt' = [attempt EXCEPT ![s] = [attempt[s] EXCEPT ![row] = Closed(attempt[s][row], outcome, c)]]
    BY <1>3, <1>7
  <2>3. s \in Stages
    BY DEF s
  <2>4. \A t \in Stages : \A n \in 1..MaxAttempts :
          IF t = s /\ n = row
            THEN attempt'[t][n] = Closed(attempt[t][n], outcome, c)
            ELSE attempt'[t][n] = attempt[t][n]
    BY <2>1, <2>2, <2>3 DEF RowsOK, AttemptTables
  <2>5. attempt' \in AttemptTables
    BY <1>2, <2>1, <2>2, <2>3 DEF RowsOK, AttemptTables
  <2> QED BY <1>4, <1>5, <2>4, <2>5 DEF s, row
<1> QED BY <1>6, <1>7

\* _release_claim clears the claims of the given stages and no others.
LEMMA ReleaseClaimEffect ==
  ASSUME RowsOK, QueueAssumption, NEW S, ReleaseClaim(S)
  PROVE  /\ claimedBy' \in [Stages -> Workers \cup {NoWorker}]
         /\ leaseLive' \in [Stages -> BOOLEAN]
         /\ \A s \in Stages : claimedBy'[s] = IF s \in S THEN NoWorker ELSE claimedBy[s]
  BY DEF RowsOK, ReleaseClaim

\* The three things a report does to its stage row.
ReportedAs(w, to, outcome) ==
  \/ to = "succeeded" /\ outcome = "succeeded" /\ LegalReport(w)
     /\ result' = result \cup {job[w]} /\ UNCHANGED due
  \/ to = "queued" /\ outcome = "failed" /\ LegalReport(w) /\ CanRetry(view[w].attempts)
     /\ due' = [due EXCEPT ![job[w]] = FALSE] /\ UNCHANGED result
  \/ to = "failed" /\ outcome = "failed" /\ UNCHANGED <<due, result>>

\* A report that commits keeps the invariant, however stale its view of the
\* stage: a stage it wrote is not running, and if it can be claimed again only
\* after a backoff.
LEMMA WriteReportKeeps ==
  ASSUME Inductive, QueueAssumption, NEW w \in Workers, NEW to, NEW outcome, NEW c \in Costs,
         WriteReport(w, to, outcome, c), ReportedAs(w, to, outcome)
  PROVE  Inductive'
<1> DEFINE s == job[w]
<1> DEFINE v == view[w]
<1>1. /\ RowsOK /\ SessionsOK /\ AttemptsBounded /\ AttemptRowsAgree /\ DeliveryPart
      /\ v \in Views /\ v.step = "summed" /\ ViewOK(w)
  BY DEF Inductive, TypeOK, SessionsOK, SessionPart, AttemptPart, WriteReport
<1>2. s \in Stages
  BY <1>1 DEF ViewOK
<1>3. outcome \in {"succeeded", "failed"} /\ to \in {"succeeded", "queued", "failed"}
  BY DEF ReportedAs
<1>4. /\ attempt' \in AttemptTables
      /\ cost' \in [Stages -> Nat]
      /\ \A t \in Stages : \A n \in 1..MaxAttempts :
           IF t = s /\ n = v.row THEN attempt'[t][n] = Closed(attempt[t][n], outcome, c)
                                 ELSE attempt'[t][n] = attempt[t][n]
  <2>1. CloseAttempt(w, outcome, c)
    BY DEF WriteReport
  <2> QED BY <1>1, <1>2, <1>3, <2>1, CloseAttemptEffect
<1>5. \A t \in Stages : \A n \in 1..MaxAttempts :
        /\ attempt'[t][n].worker = attempt[t][n].worker
        /\ attempt'[t][n].state = IF t = s /\ n = v.row THEN outcome ELSE attempt[t][n].state
  <2>1. \A a : Closed(a, outcome, c).state = outcome /\ Closed(a, outcome, c).worker = a.worker
    BY DEF Closed
  <2> QED BY <1>4, <2>1
<1>6. /\ status' = [status EXCEPT ![s] = Put(@, v.status, to)]
      /\ UNCHANGED <<runStatus, gate, attempts, reap>>
      /\ job' = [job EXCEPT ![w] = NoStage]
      /\ view' = [view EXCEPT ![w] = NoView]
      /\ ReleaseClaim(IF v.holder # NoWorker THEN {s} ELSE {})
  BY DEF WriteReport, EndJob
<1>7. /\ status' \in [Stages -> StageStates]
      /\ \A t \in Stages \ {s} : status'[t] = status[t]
      /\ status'[s] = IF v.status = to THEN status[s] ELSE to
  BY <1>1, <1>2, <1>3, <1>6 DEF RowsOK, StageStates, Put
<1>8. /\ claimedBy' \in [Stages -> Workers \cup {NoWorker}]
      /\ leaseLive' \in [Stages -> BOOLEAN]
      /\ \A t \in Stages \ {s} : claimedBy'[t] = claimedBy[t]
      /\ v.holder # NoWorker => claimedBy'[s] = NoWorker
      /\ v.holder = NoWorker => claimedBy'[s] = claimedBy[s]
  BY <1>1, <1>2, <1>6, ReleaseClaimEffect
<1>9. due' \in [Stages -> BOOLEAN] /\ result' \subseteq Stages /\ result \subseteq result'
  BY <1>1, <1>2 DEF ReportedAs, RowsOK
<1>9a. \A t \in Stages \ {s} : due'[t] = due[t]
  BY <1>1, <1>2 DEF ReportedAs, RowsOK
<1>9b. due' = [due EXCEPT ![s] = FALSE] \/ (due' = due /\ to # "queued")
  BY DEF ReportedAs
<1>10. runCost' \in [Runs -> Nat]
  BY <1>1, <1>2 DEF WriteReport, RollupRun, RowsOK, Views, Put, QueueAssumption
<1>11. TypeOK'
  <2>1. SessionsOK'
    <3>1. NoView \in Views
      BY DEF NoView, Views, StageStates, QueueAssumption
    <3> QED BY <1>1, <1>6, <3>1 DEF SessionsOK
  <2>2. RowsOK'
    BY <1>1, <1>4, <1>6, <1>7, <1>8, <1>9, <1>10 DEF RowsOK
  <2> QED BY <2>1, <2>2 DEF TypeOK
<1>12. to # "failed" => v.status = "running" /\ v.attempts = attempts[s] /\ v.holder # NoWorker
  BY <1>1 DEF ReportedAs, LegalReport, ViewOK
<1>13. status'[s] # "running"
  <2>1. CASE v.status = to
    <3>1. v.status = "failed"
      BY <1>3, <1>12, <2>1
    <3> QED BY <1>1, <1>7, <2>1, <3>1 DEF ViewOK, Terminal
  <2>2. CASE v.status # to
    BY <1>3, <1>7, <2>2
  <2> QED BY <2>1, <2>2
<1>14. v.row # 0 => v.row = attempts[s] /\ v.row \in 1..MaxAttempts
  BY <1>1, <1>2 DEF ViewOK, Views, QueueAssumption
<1>15. AttemptsBounded'
  <2>1. status'[s] = "queued" => attempts[s] < MaxAttempts
    <3>1. CASE status'[s] = status[s]
      BY <1>1, <1>2, <3>1 DEF AttemptsBounded
    <3>2. CASE status'[s] = to /\ to = "queued"
      <4>1. v.attempts < MaxAttempts /\ v.attempts = attempts[s]
        BY <1>12, <3>2 DEF ReportedAs, CanRetry
      <4> QED BY <4>1
    <3> QED BY <1>3, <1>7, <3>1, <3>2
  <2> QED BY <1>1, <1>6, <1>7, <2>1 DEF AttemptsBounded
<1>16. \A n \in 1..MaxAttempts :
         /\ attempt'[s][n].state = "none" <=> attempt[s][n].state = "none"
         /\ attempt'[s][n].state = "running" => attempt[s][n].state = "running" /\ n # v.row
  <2>1. v.row # 0 => attempt[s][v.row].state # "none"
    BY <1>1, <1>2, <1>14 DEF AttemptRowsAgree, RowsOK
  <2> QED BY <1>2, <1>3, <1>5, <2>1
<1>17. to # "failed" => \A n \in 1..MaxAttempts : attempt'[s][n].state # "running"
  <2> SUFFICES ASSUME to # "failed", NEW n \in 1..MaxAttempts, attempt'[s][n].state = "running"
               PROVE  FALSE
    OBVIOUS
  <2>1. attempt[s][n].state = "running" /\ n # v.row
    BY <1>16
  <2>2. n = attempts[s]
    BY <1>1, <1>2, <2>1 DEF AttemptRowsAgree
  <2>3. v.row = 0
    BY <1>14, <2>1, <2>2
  <2>4. NoneRunning(s)
    BY <1>1, <1>12, <2>3 DEF ViewOK
  <2> QED BY <2>1, <2>4 DEF NoneRunning
<1>18. AttemptRowsAgree'
  <2>1. ASSUME NEW t \in Stages, t # s
        PROVE  /\ status'[t] = status[t] /\ claimedBy'[t] = claimedBy[t] /\ attempts'[t] = attempts[t]
               /\ \A n \in 1..MaxAttempts : /\ attempt'[t][n].state = attempt[t][n].state
                                            /\ attempt'[t][n].worker = attempt[t][n].worker
    BY <1>5, <1>6, <1>7, <1>8, <2>1
  <2>2. \A n \in 1..MaxAttempts :
          attempt'[s][n].state = "running" => n = attempts[s] /\ status'[s] = "failed"
    <3> SUFFICES ASSUME NEW n \in 1..MaxAttempts, attempt'[s][n].state = "running"
                 PROVE  n = attempts[s] /\ status'[s] = "failed"
      OBVIOUS
    <3>1. n = attempts[s] /\ status[s] \in {"running", "failed"}
      BY <1>1, <1>2, <1>16 DEF AttemptRowsAgree
    <3>2. to = "failed"
      BY <1>17
    <3> QED BY <1>7, <1>13, <3>1, <3>2
  <2>3. claimedBy'[s] # NoWorker => status'[s] = "failed"
    <3> SUFFICES ASSUME claimedBy'[s] # NoWorker PROVE status'[s] = "failed"
      OBVIOUS
    <3>1. v.holder = NoWorker /\ claimedBy[s] # NoWorker
      BY <1>8
    <3>2. to = "failed" /\ status[s] \in {"running", "failed"}
      BY <1>1, <1>2, <1>12, <3>1 DEF AttemptRowsAgree
    <3> QED BY <1>7, <1>13, <3>2
  <2>4. \A n \in 1..MaxAttempts : attempt'[s][n].state = "none" <=> n > attempts'[s]
    BY <1>1, <1>2, <1>6, <1>16 DEF AttemptRowsAgree
  <2>5. ASSUME NEW t \in Stages
        PROVE  /\ \A n \in 1..MaxAttempts :
                    /\ attempt'[t][n].state = "none" <=> n > attempts'[t]
                    /\ attempt'[t][n].state = "running" =>
                         n = attempts'[t] /\ status'[t] \in {"running", "failed"}
               /\ status'[t] = "running" =>
                    /\ attempts'[t] > 0
                    /\ attempt'[t][attempts'[t]].state = "running"
                    /\ claimedBy'[t] \in Workers
                    /\ attempt'[t][attempts'[t]].worker = claimedBy'[t]
               /\ claimedBy'[t] # NoWorker => status'[t] \in {"running", "failed"}
    <3>1. CASE t = s
      BY <1>6, <1>13, <2>2, <2>3, <2>4, <3>1
    <3>2. CASE t # s
      <4>1. status[t] = "running" => attempts[t] \in 1..MaxAttempts
        BY <1>1 DEF AttemptRowsAgree, RowsOK, QueueAssumption
      <4> QED BY <1>1, <2>1, <3>2, <4>1 DEF AttemptRowsAgree
    <3> QED BY <3>1, <3>2
  <2> QED BY <2>5 DEF AttemptRowsAgree
<1>19. \A t \in Stages : Settles(t)
  <2>1. ASSUME NEW t \in Stages, t # s PROVE Settles(t)
    BY <1>5, <1>6, <1>7, <1>9a, <2>1 DEF Settles
  <2>2. status'[s] = "queued" /\ due'[s] => status[s] = "queued" /\ due[s]
    <3> SUFFICES ASSUME status'[s] = "queued", due'[s] PROVE status[s] = "queued" /\ due[s]
      OBVIOUS
    <3>1. to # "queued" /\ due' = due
      BY <1>1, <1>2, <1>9b DEF RowsOK
    <3>2. status'[s] = status[s]
      BY <1>7, <3>1
    <3> QED BY <3>1, <3>2
  <2>3. Settles(s)
    BY <1>2, <1>6, <1>13, <1>16, <2>2 DEF Settles
  <2> QED BY <2>1, <2>3
<1>20. SessionPart'
  <2>1. ViewOK(w)'
    <3>1. view'[w] = NoView
      BY <1>1, <1>6 DEF SessionsOK
    <3> QED BY <3>1, NoViewOK
  <2>2. ASSUME NEW x \in Workers, x # w PROVE ViewOK(x)'
    <3>1. view'[x] = view[x] /\ job'[x] = job[x] /\ ViewOK(x)
      BY <1>1, <1>6, <2>2 DEF SessionsOK, Inductive, SessionPart
    <3> QED BY <1>19, <3>1, ViewStays
  <2>3. \A t \in Stages : ReapOK(t)'
    BY <1>6, <1>19, ReapStays DEF Inductive, SessionPart
  <2> QED BY <2>1, <2>2, <2>3 DEF SessionPart
<1>21. DeliveryPart'
  <2>1. \A t \in Stages : /\ status'[t] # "skipped"
                          /\ status'[t] = "succeeded" => status[t] = "succeeded" \/ t \in result'
    <3>1. status'[s] # "skipped" /\ (status'[s] = "succeeded" => status[s] = "succeeded" \/ s \in result')
      <4>1. to = "succeeded" => s \in result'
        BY DEF ReportedAs
      <4> QED BY <1>1, <1>2, <1>3, <1>7, <4>1 DEF DeliveryPart, StatusPart
    <3> QED BY <1>1, <1>7, <3>1 DEF DeliveryPart, StatusPart
  <2> QED BY <1>1, <1>6, <1>9, <2>1, DeliveryKept
<1> QED BY <1>11, <1>15, <1>18, <1>20, <1>21 DEF Inductive, AttemptPart

\* A report that is refused, and a worker that stops, only close a session.
LEMMA EndJobKeeps ==
  ASSUME Inductive, QueueAssumption, NEW w \in Workers, EndJob(w), UNCHANGED <<runVars, stageVars>>
  PROVE  Inductive'
<1>1. /\ job' = [job EXCEPT ![w] = NoStage] /\ view' = [view EXCEPT ![w] = NoView]
      /\ UNCHANGED reap /\ SessionsOK
  BY DEF EndJob, Inductive, TypeOK
<1>2. SessionsOK'
  <2>1. NoView \in Views
    BY DEF NoView, Views, StageStates, QueueAssumption
  <2> QED BY <1>1, <2>1 DEF SessionsOK
<1>3. \A s \in Stages : Settles(s)
  BY DEF Settles, stageVars
<1>4. ViewOK(w)'
  BY <1>1, NoViewOK DEF SessionsOK
<1>5. ASSUME NEW x \in Workers, x # w PROVE ViewOK(x)'
  <2>1. view'[x] = view[x] /\ job'[x] = job[x]
    BY <1>1, <1>5 DEF SessionsOK
  <2> QED BY <1>3, <2>1, ViewStays DEF Inductive, SessionPart
<1>6. \A s \in Stages : ReapOK(s)'
  BY <1>1, <1>3, ReapStays DEF Inductive, SessionPart
<1>7. SessionPart'
  BY <1>4, <1>5, <1>6 DEF SessionPart
<1> QED BY <1>2, <1>7, RowsUntouched DEF stageVars, Inductive, TypeOK, RowsOK

\* complete_stage and fail_stage.
LEMMA ReportStepKeeps ==
  ASSUME Inductive, QueueAssumption, NEW w \in Workers, ReportStep(w)
  PROVE  Inductive'
<1>1. CASE ReportRead(w) \/ ReportLook(w) \/ ReportSum(w)
  BY <1>1, ReportReadKeeps, ReportLookKeeps
<1>2. ASSUME NEW c \in Costs, CompleteStage(w, c) PROVE Inductive'
  <2>1. CASE Refused(w)
    BY <2>1, EndJobKeeps DEF Refused
  <2>2. CASE LegalReport(w) /\ WriteReport(w, "succeeded", "succeeded", c)
             /\ result' = result \cup {job[w]} /\ UNCHANGED due
    <3>1. ReportedAs(w, "succeeded", "succeeded")
      BY <2>2 DEF ReportedAs
    <3> QED BY <2>2, <3>1, WriteReportKeeps
  <2> QED BY <1>2, <2>1, <2>2 DEF CompleteStage
<1>3. ASSUME NEW c \in Costs, NEW b \in BOOLEAN, FailStage(w, c, b) PROVE Inductive'
  <2>1. CASE Refused(w)
    BY <2>1, EndJobKeeps DEF Refused
  <2>2. CASE LegalReport(w) /\ CanRetry(view[w].attempts) /\ WriteReport(w, "queued", "failed", c)
             /\ due' = [due EXCEPT ![job[w]] = FALSE] /\ UNCHANGED result
    <3>1. ReportedAs(w, "queued", "failed")
      BY <2>2 DEF ReportedAs
    <3> QED BY <2>2, <3>1, WriteReportKeeps
  <2>3. CASE WriteReport(w, "failed", "failed", c) /\ UNCHANGED <<due, result>>
    <3>1. ReportedAs(w, "failed", "failed")
      BY <2>3 DEF ReportedAs
    <3> QED BY <2>3, <3>1, WriteReportKeeps
  <2> QED BY <1>3, <2>1, <2>2, <2>3 DEF FailStage
<1> QED BY <1>1, <1>2, <1>3 DEF ReportStep

-----------------------------------------------------------------------------
(***************************************************************************)
(* Claims and time.                                                        *)
(***************************************************************************)

\* claim_stage opens an unused attempt row, and only for a stage whose
\* dependency has delivered.  The open reports of that stage all read it while
\* it waited for a worker, and found no running attempt.
LEMMA ClaimKeeps ==
  ASSUME Inductive, QueueAssumption, NEW w \in Workers, Claim(w)
  PROVE  Inductive'
<1> DEFINE fresh == [state |-> "running", worker |-> w, cost |-> 0]
<1>1. PICK s \in CanRun[w] :
        /\ Claimable(s)
        /\ status' = [status EXCEPT ![s] = "running"]
        /\ claimedBy' = [claimedBy EXCEPT ![s] = w]
        /\ leaseLive' = [leaseLive EXCEPT ![s] = TRUE]
        /\ attempts' = [attempts EXCEPT ![s] = @ + 1]
        /\ attempt' = [attempt EXCEPT ![s][attempts[s] + 1] = fresh]
        /\ job' = [job EXCEPT ![w] = s]
  BY DEF Claim
<1>2. UNCHANGED <<runStatus, runCost, gate, due, cost, result, view, reap>> /\ job[w] = NoStage
  BY DEF Claim, runVars
<1>3. s \in Stages /\ RowsOK /\ SessionsOK /\ AttemptPart /\ DeliveryPart /\ SessionPart
  BY <1>1 DEF QueueAssumption, Inductive, TypeOK
<1>4. attempts[s] \in Nat /\ attempts[s] + 1 \in 1..MaxAttempts
  BY <1>1, <1>3 DEF AttemptPart, AttemptsBounded, Claimable, RowsOK, QueueAssumption
<1>5. fresh \in AttemptRows
  BY DEF AttemptRows, AttemptStates
<1>6. TypeOK'
  <2>1. attempt' \in AttemptTables
    BY <1>1, <1>3, <1>4, <1>5 DEF RowsOK, AttemptTables
  <2>2. RowsOK'
    BY <1>1, <1>2, <1>3, <1>4, <2>1 DEF RowsOK, StageStates, QueueAssumption
  <2>3. SessionsOK'
    BY <1>1, <1>2, <1>3 DEF SessionsOK
  <2> QED BY <2>2, <2>3 DEF TypeOK
<1>7. /\ attempt'[s][attempts[s] + 1] = fresh
      /\ \A n \in 1..MaxAttempts : n # attempts[s] + 1 => attempt'[s][n] = attempt[s][n]
      /\ \A t \in Stages \ {s} : attempt'[t] = attempt[t]
  BY <1>1, <1>3, <1>4 DEF RowsOK, AttemptTables
<1>8. ASSUME NEW t \in Stages, t # s
      PROVE  /\ attempt'[t] = attempt[t] /\ status'[t] = status[t]
             /\ claimedBy'[t] = claimedBy[t] /\ attempts'[t] = attempts[t]
  BY <1>1, <1>3, <1>7, <1>8 DEF RowsOK
<1>9. AttemptPart'
  <2>1. AttemptsBounded'
    BY <1>1, <1>3 DEF AttemptPart, AttemptsBounded, RowsOK
  <2>3. /\ status'[s] = "running" /\ claimedBy'[s] = w /\ attempts'[s] = attempts[s] + 1
    BY <1>1, <1>3 DEF RowsOK
  <2>4. \A n \in 1..MaxAttempts : n # attempts[s] + 1 =>
          /\ attempt'[s][n].state = "none" <=> n > attempts[s] + 1
          /\ attempt'[s][n].state # "running"
    <3>1. status[s] = "queued"
      BY <1>1 DEF Claimable
    <3> SUFFICES ASSUME NEW n \in 1..MaxAttempts, n # attempts[s] + 1
                 PROVE  /\ attempt'[s][n].state = "none" <=> n > attempts[s] + 1
                        /\ attempt'[s][n].state # "running"
      OBVIOUS
    <3>2. attempt[s][n].state = "none" <=> n > attempts[s]
      BY <1>3 DEF AttemptPart, AttemptRowsAgree
    <3>3. attempt[s][n].state # "running"
      BY <1>3, <3>1 DEF AttemptPart, AttemptRowsAgree
    <3>4. attempt'[s][n] = attempt[s][n]
      BY <1>7
    <3>5. n > attempts[s] <=> n > attempts[s] + 1
      BY <1>4
    <3> QED BY <3>2, <3>3, <3>4, <3>5
  <2>5. fresh.state = "running" /\ fresh.worker = w
    OBVIOUS
  <2>6. AttemptRowsAgree'
    <3>1. ASSUME NEW n \in 1..MaxAttempts
          PROVE  /\ attempt'[s][n].state = "none" <=> n > attempts'[s]
                 /\ attempt'[s][n].state = "running" => n = attempts'[s]
      BY <1>4, <1>7, <2>3, <2>4, <2>5
    <3>2. attempts'[s] > 0 /\ attempt'[s][attempts'[s]].state = "running"
          /\ claimedBy'[s] \in Workers
          /\ attempt'[s][attempts'[s]].worker = claimedBy'[s]
      BY <1>4, <1>7, <2>3, <2>5
    <3> QED BY <1>8, <2>3, <3>1, <3>2, <1>3 DEF AttemptPart, AttemptRowsAgree
  <2> QED BY <2>1, <2>6 DEF AttemptPart
<1>10. \A t \in Stages : attempts'[t] > 0 /\ DependsOn[t] # NoStage =>
                           attempts[t] > 0 \/ DependsOn[t] \in result
  <2>1. DependsOn[s] # NoStage => DependsOn[s] \in result
    BY <1>1, <1>3 DEF Claimable, DependencyMet, Satisfied, DeliveryPart, StatusPart,
                      QueueAssumption
  <2> QED BY <1>1, <1>3, <2>1 DEF RowsOK
<1>11. \A t \in Stages : /\ status'[t] # "skipped"
                         /\ status'[t] = "succeeded" => status[t] = "succeeded"
  BY <1>1, <1>3 DEF RowsOK, DeliveryPart, StatusPart
<1>12. DeliveryPart'
  BY <1>2, <1>3, <1>10, <1>11, DeliveryKept
<1>13. ASSUME NEW t \in Stages, t # s PROVE Settles(t)
  BY <1>2, <1>8, <1>13 DEF Settles
<1>14. ASSUME NEW x \in Workers PROVE ViewOK(x)'
  <2>1. ViewOK(x)
    BY <1>3 DEF SessionPart
  <2>2. CASE view[x].step = "none"
    BY <1>2, <2>2 DEF ViewOK
  <2>3. CASE view[x].step # "none" /\ job[x] # s
    <3>1. job'[x] = job[x] /\ view'[x] = view[x]
      BY <1>1, <1>2, <1>3, <2>1, <2>3 DEF ViewOK, QueueAssumption, SessionsOK
    <3> QED BY <1>13, <2>1, <2>3, <3>1, ViewStays
  <2>4. CASE view[x].step # "none" /\ job[x] = s
    <3>1. view[x].status = "queued" /\ view[x].row = 0
      BY <1>1, <2>1, <2>4 DEF ViewOK, Claimable
    <3>2. job'[x] = s /\ view'[x] = view[x]
      BY <1>1, <1>2, <1>3, <2>4 DEF SessionsOK
    <3> QED BY <1>3, <3>1, <3>2 DEF ViewOK, Terminal
  <2> QED BY <2>2, <2>3, <2>4
<1>15. ASSUME NEW t \in Stages PROVE ReapOK(t)'
  <2>1. ReapOK(t)
    BY <1>3 DEF SessionPart
  <2>2. CASE t = s
    BY <1>1, <1>2, <2>1, <2>2 DEF ReapOK, BeingReaped, Claimable
  <2>3. CASE t # s
    BY <1>2, <1>13, <2>1, <2>3, ReapStays
  <2> QED BY <2>2, <2>3
<1>16. SessionPart'
  BY <1>14, <1>15 DEF SessionPart
<1> QED BY <1>6, <1>9, <1>12, <1>16 DEF Inductive

\* A backoff elapses only when no transaction that has read the stage is open.
LEMMA BackoffKeeps ==
  ASSUME Inductive, QueueAssumption, NEW s \in Stages, BackoffElapses(s)
  PROVE  Inductive'
<1>1. /\ due' = [due EXCEPT ![s] = TRUE]
      /\ UNCHANGED <<runStatus, runCost, gate, status, claimedBy, leaseLive, attempts, cost,
                     attempt, result, job, view, reap>>
  BY DEF BackoffElapses, runVars, sessionVars
<1>2. TypeOK'
  BY <1>1 DEF Inductive, TypeOK, RowsOK, SessionsOK
<1>3. AttemptPart'
  BY <1>1 DEF Inductive, AttemptPart, AttemptsBounded, AttemptRowsAgree
<1>4. DeliveryPart'
  BY <1>1 DEF Inductive, DeliveryPart, StatusPart, DependencyDelivered, SucceededRunIsComplete
<1>5. ASSUME NEW t \in Stages, t # s PROVE Settles(t)
  <2>1. due'[t] = due[t]
    BY <1>1, <1>5 DEF Inductive, TypeOK, RowsOK
  <2> QED BY <1>1, <2>1 DEF Settles
<1>6. ASSUME NEW w \in Workers PROVE ViewOK(w)'
  <2>1. ViewOK(w)
    BY DEF Inductive, SessionPart
  <2>2. CASE view[w].step = "none"
    BY <1>1, <2>2 DEF ViewOK
  <2>3. CASE view[w].step # "none"
    <3>1. job[w] # s
      BY <2>3 DEF BackoffElapses, BeingReported
    <3> QED BY <1>1, <1>5, <2>1, <3>1, ViewStays
  <2> QED BY <2>2, <2>3
<1>7. ASSUME NEW t \in Stages PROVE ReapOK(t)'
  <2>1. CASE t = s
    BY <1>1, <2>1 DEF BackoffElapses, ReapOK, BeingReaped
  <2>2. CASE t # s
    BY <1>1, <1>5, <2>2, ReapStays DEF Inductive, SessionPart
  <2> QED BY <2>1, <2>2
<1>8. SessionPart'
  BY <1>6, <1>7 DEF SessionPart
<1> QED BY <1>2, <1>3, <1>4, <1>8 DEF Inductive

\* Heartbeats and lapsing leases.
LEMMA LeaseKeeps ==
  ASSUME Inductive, QueueAssumption,
         UNCHANGED <<runVars, status, claimedBy, due, attempts, cost, attempt, result, sessionVars>>,
         leaseLive' \in [Stages -> BOOLEAN]
  PROVE  Inductive'
<1>1. SessionPart' /\ SessionsOK'
  BY DEF Inductive, TypeOK, SessionsOK, SessionPart, sessionVars, ViewOK, ReapOK, BeingReaped,
         NoneRunning
<1> QED BY <1>1, RowsUntouched

-----------------------------------------------------------------------------
(***************************************************************************)
(* reap_expired.                                                           *)
(***************************************************************************)

\* The reads of the reaper, and its rollback.
LEMMA ReapReadsKeep ==
  ASSUME Inductive, QueueAssumption, ReapSelect \/ ReapRollsBack \/ \E s \in Stages : ReapLook(s)
  PROVE  Inductive'
<1>1. UNCHANGED <<runVars, stageVars, job, view>>
  BY DEF ReapSelect, ReapRollsBack, ReapLook
<1>2. RowsOK /\ SessionsOK /\ AttemptRowsAgree /\ SessionPart
  BY DEF Inductive, TypeOK, AttemptPart
<1>3. \A s \in Stages : Settles(s)
  BY <1>1 DEF Settles, stageVars
<1>4. \A w \in Workers : ViewOK(w)'
  BY <1>1, <1>2, <1>3, ViewStays DEF SessionPart
<1>5. NoReap \in ReapViews
  BY DEF NoReap, ReapViews, QueueAssumption
<1>6. CASE ReapSelect
  <2> DEFINE v(s) == [NoReap EXCEPT !.step = "read", !.attempts = attempts[s]]
  <2>1. \A s \in Stages : /\ v(s) \in ReapViews
                          /\ v(s).step = "read" /\ v(s).attempts = attempts[s] /\ v(s).row = 0
    BY <1>2, <1>5 DEF NoReap, ReapViews, RowsOK
  <2> HIDE DEF v
  <2>2. \A s \in Stages : reap'[s] = IF s \in Expired THEN v(s) ELSE NoReap
    BY <1>6 DEF ReapSelect, v
  <2>3. reap' \in [Stages -> ReapViews]
    BY <1>5, <1>6, <2>1 DEF ReapSelect, v
  <2>4. \A s \in Stages : ReapOK(s)'
    <3> TAKE s \in Stages
    <3>1. CASE s \in Expired
      BY <1>1, <2>1, <2>2, <3>1 DEF ReapOK, Expired, stageVars
    <3>2. CASE s \notin Expired
      BY <2>2, <3>2 DEF ReapOK, BeingReaped, NoReap
    <3> QED BY <3>1, <3>2
  <2>5. SessionPart' /\ SessionsOK'
    BY <1>1, <1>2, <1>4, <2>3, <2>4 DEF SessionPart, SessionsOK
  <2> QED BY <1>1, <1>2, <2>5, RowsUntouched DEF stageVars, RowsOK
<1>7. CASE ReapRollsBack
  <2>1. reap' = [s \in Stages |-> NoReap]
    BY <1>7 DEF ReapRollsBack
  <2>2. \A s \in Stages : ReapOK(s)'
    BY <1>2, <1>3, <2>1, ReapStays DEF SessionPart
  <2>3. SessionPart' /\ SessionsOK'
    BY <1>1, <1>2, <1>4, <1>5, <2>1, <2>2 DEF SessionPart, SessionsOK
  <2> QED BY <1>1, <1>2, <2>3, RowsUntouched DEF stageVars, RowsOK
<1>8. ASSUME NEW s \in Stages, ReapLook(s) PROVE Inductive'
  <2> DEFINE v == [reap[s] EXCEPT !.step = "looked", !.row = RunningAttempt(s)]
  <2>1. /\ RunningAttempt(s) \in 0..MaxAttempts
        /\ RunningAttempt(s) = 0 => NoneRunning(s)
        /\ RunningAttempt(s) # 0 => RunningAttempt(s) = attempts[s]
    BY <1>2, LookFinds
  <2>2. reap[s] \in ReapViews /\ reap[s].step = "read" /\ ReapOK(s)
    BY <1>2, <1>8 DEF SessionsOK, ReapLook, SessionPart
  <2>3. v \in ReapViews /\ v.step = "looked" /\ v.attempts = reap[s].attempts /\ v.row = RunningAttempt(s)
    BY <2>1, <2>2 DEF ReapViews
  <2>4. reap' = [reap EXCEPT ![s] = v]
    BY <1>2, <1>8 DEF ReapLook, SessionsOK, ReapViews
  <2> HIDE DEF v
  <2>5. ReapOK(s)'
    <3>1. reap'[s] = v
      BY <1>2, <2>4 DEF SessionsOK
    <3> QED BY <1>1, <2>1, <2>2, <2>3, <3>1 DEF ReapOK, BeingReaped, NoneRunning, stageVars
  <2>6. ASSUME NEW t \in Stages, t # s PROVE ReapOK(t)'
    <3>1. reap'[t] = reap[t]
      BY <1>2, <2>4, <2>6 DEF SessionsOK
    <3> QED BY <1>2, <1>3, <3>1, ReapStays DEF SessionPart
  <2>7. SessionPart' /\ SessionsOK'
    BY <1>1, <1>2, <1>4, <2>3, <2>4, <2>5, <2>6 DEF SessionPart, SessionsOK
  <2> QED BY <1>1, <1>2, <2>7, RowsUntouched DEF stageVars, RowsOK
<1> QED BY <1>6, <1>7, <1>8

\* The reaper takes back every stage it selected, also those that a report has
\* ended since: it reopens them behind a backoff or fails them, and closes the
\* newest attempt if that is what it found running.
LEMMA ReapCommitKeeps ==
  ASSUME Inductive, QueueAssumption, ReapCommit
  PROVE  Inductive'
<1>1. /\ RowsOK /\ SessionsOK /\ AttemptsBounded /\ AttemptRowsAgree /\ SessionPart /\ DeliveryPart
      /\ Reaping \subseteq Stages
  BY DEF Inductive, TypeOK, AttemptPart, Reaping
<1>2. UNCHANGED <<runStatus, runCost, gate, attempts, cost, result, job, view>>
  BY DEF ReapCommit, runVars
<1>3. \A s \in Reaping : /\ reap[s].step = "looked" /\ reap[s].attempts = attempts[s]
                         /\ reap[s].row # 0 => reap[s].row = attempts[s]
                         /\ reap[s].row = 0 => NoneRunning(s)
                         /\ ~(status[s] = "queued" /\ due[s])
  BY <1>1 DEF ReapCommit, Reaping, SessionPart, ReapOK
<1>4. \A s \in Stages : \A n \in 1..MaxAttempts :
        attempt'[s][n] = IF s \in Reaping /\ n = reap[s].row
                           THEN [attempt[s][n] EXCEPT !.state = "failed"] ELSE attempt[s][n]
  BY DEF ReapCommit
<1>5. \A s \in Stages : \A n \in 1..MaxAttempts :
        /\ attempt[s][n] \in AttemptRows
        /\ [attempt[s][n] EXCEPT !.state = "failed"] \in AttemptRows
        /\ [attempt[s][n] EXCEPT !.state = "failed"].state = "failed"
        /\ [attempt[s][n] EXCEPT !.state = "failed"].worker = attempt[s][n].worker
  <2>1. \A a \in AttemptRows : /\ [a EXCEPT !.state = "failed"] \in AttemptRows
                               /\ [a EXCEPT !.state = "failed"].state = "failed"
                               /\ [a EXCEPT !.state = "failed"].worker = a.worker
    BY DEF AttemptRows, AttemptStates
  <2> QED BY <1>1, <2>1 DEF RowsOK, AttemptTables
<1>6. \A s \in Stages : \A n \in 1..MaxAttempts :
        /\ attempt'[s][n].worker = attempt[s][n].worker
        /\ attempt'[s][n].state =
             IF s \in Reaping /\ n = reap[s].row THEN "failed" ELSE attempt[s][n].state
  <2> TAKE s \in Stages
  <2> TAKE n \in 1..MaxAttempts
  <2>1. CASE s \in Reaping /\ n = reap[s].row
    <3>1. attempt'[s][n] = [attempt[s][n] EXCEPT !.state = "failed"]
      BY <1>4, <2>1
    <3> QED BY <1>5, <2>1, <3>1
  <2>2. CASE ~(s \in Reaping /\ n = reap[s].row)
    BY <1>4, <2>2
  <2> QED BY <2>1, <2>2
<1>7. attempt' \in AttemptTables
  BY <1>5 DEF ReapCommit, AttemptTables
<1>8. \A s \in Stages :
        /\ s \notin Reaping => status'[s] = status[s]
        /\ s \in Reaping => status'[s] = IF CanRetry(attempts[s]) THEN "queued" ELSE "failed"
  BY <1>3 DEF ReapCommit
<1>9. /\ status' \in [Stages -> StageStates]
      /\ due' \in [Stages -> BOOLEAN]
      /\ reap' = [s \in Stages |-> NoReap]
  BY <1>1 DEF ReapCommit, RowsOK, StageStates
<1>10. \A s \in Stages : status'[s] = "queued" /\ due'[s] => s \notin Reaping /\ due[s]
  <2> SUFFICES ASSUME NEW s \in Stages, status'[s] = "queued", due'[s]
               PROVE  s \notin Reaping /\ due[s]
    OBVIOUS
  <2>1. due[s] /\ ~(s \in Reaping /\ CanRetry(reap[s].attempts))
    BY DEF ReapCommit
  <2>2. s \in Reaping => CanRetry(reap[s].attempts)
    BY <1>3, <1>8
  <2> QED BY <2>1, <2>2
<1>11. /\ claimedBy' \in [Stages -> Workers \cup {NoWorker}]
       /\ leaseLive' \in [Stages -> BOOLEAN]
       /\ \A s \in Stages : claimedBy'[s] = IF s \in Reaping THEN NoWorker ELSE claimedBy[s]
  BY <1>1, ReleaseClaimEffect DEF ReapCommit
<1>12. TypeOK'
  <2>1. SessionsOK'
    <3>1. NoReap \in ReapViews
      BY DEF NoReap, ReapViews, QueueAssumption
    <3> QED BY <1>1, <1>2, <1>9, <3>1 DEF SessionsOK
  <2>2. RowsOK'
    BY <1>1, <1>2, <1>7, <1>9, <1>11 DEF RowsOK
  <2> QED BY <2>1, <2>2 DEF TypeOK
<1>13. AttemptsBounded'
  BY <1>1, <1>2, <1>8 DEF AttemptsBounded, CanRetry
<1>14. ASSUME NEW s \in Stages, s \in Reaping
       PROVE  /\ status'[s] # "running" /\ claimedBy'[s] = NoWorker
              /\ \A n \in 1..MaxAttempts :
                   /\ attempt'[s][n].state # "running"
                   /\ attempt'[s][n].state = "none" <=> attempt[s][n].state = "none"
  <2>1. status'[s] # "running" /\ claimedBy'[s] = NoWorker
    BY <1>8, <1>11, <1>14
  <2>2. ASSUME NEW n \in 1..MaxAttempts PROVE attempt'[s][n].state # "running"
    <3>1. attempt[s][n].state = "running" => n = reap[s].row
      <4>1. attempt[s][n].state = "running" => n = attempts[s] /\ ~NoneRunning(s)
        BY <1>1, <2>2 DEF AttemptRowsAgree, NoneRunning
      <4> QED BY <1>3, <1>14, <4>1
    <3> QED BY <1>6, <1>14, <3>1
  <2>3. ASSUME NEW n \in 1..MaxAttempts
        PROVE  attempt'[s][n].state = "none" <=> attempt[s][n].state = "none"
    <3>1. n = reap[s].row => attempt[s][n].state # "none"
      <4>1. n = reap[s].row => n = attempts[s]
        BY <1>3, <1>14, <2>3 DEF QueueAssumption
      <4> QED BY <1>1, <2>3, <4>1 DEF AttemptRowsAgree, RowsOK
    <3> QED BY <1>6, <1>14, <3>1
  <2> QED BY <2>1, <2>2, <2>3
<1>15. ASSUME NEW s \in Stages, s \notin Reaping
       PROVE  /\ status'[s] = status[s] /\ claimedBy'[s] = claimedBy[s]
              /\ \A n \in 1..MaxAttempts : attempt'[s][n] = attempt[s][n]
  BY <1>4, <1>8, <1>11, <1>15
<1>16. AttemptRowsAgree'
  <2>1. ASSUME NEW s \in Stages
        PROVE  /\ \A n \in 1..MaxAttempts :
                    /\ attempt'[s][n].state = "none" <=> n > attempts'[s]
                    /\ attempt'[s][n].state = "running" =>
                         n = attempts'[s] /\ status'[s] \in {"running", "failed"}
               /\ status'[s] = "running" =>
                    /\ attempts'[s] > 0
                    /\ attempt'[s][attempts'[s]].state = "running"
                    /\ claimedBy'[s] \in Workers
                    /\ attempt'[s][attempts'[s]].worker = claimedBy'[s]
               /\ claimedBy'[s] # NoWorker => status'[s] \in {"running", "failed"}
    <3>1. CASE s \in Reaping
      BY <1>1, <1>2, <1>14, <3>1 DEF AttemptRowsAgree
    <3>2. CASE s \notin Reaping
      <4>1. status[s] = "running" => attempts[s] \in 1..MaxAttempts
        BY <1>1 DEF AttemptRowsAgree, RowsOK, QueueAssumption
      <4> QED BY <1>1, <1>2, <1>15, <3>2, <4>1 DEF AttemptRowsAgree
    <3> QED BY <3>1, <3>2
  <2> QED BY <2>1 DEF AttemptRowsAgree
<1>17. \A s \in Stages : Settles(s)
  <2> TAKE s \in Stages
  <2>1. CASE s \in Reaping
    BY <1>2, <1>10, <1>14, <2>1 DEF Settles
  <2>2. CASE s \notin Reaping
    BY <1>2, <1>10, <1>15, <2>2 DEF Settles
  <2> QED BY <2>1, <2>2
<1>18. SessionPart'
  BY <1>1, <1>2, <1>9, <1>17, ViewStays, ReapStays DEF SessionPart
<1>19. DeliveryPart'
  <2>1. \A s \in Stages : status'[s] # "skipped" /\ (status'[s] = "succeeded" => status[s] = "succeeded")
    BY <1>1, <1>8 DEF DeliveryPart, StatusPart
  <2> QED BY <1>1, <1>2, <2>1, DeliveryKept
<1> QED BY <1>12, <1>13, <1>16, <1>18, <1>19 DEF Inductive, AttemptPart

-----------------------------------------------------------------------------
(***************************************************************************)
(* Runs, and the invariant.                                                *)
(***************************************************************************)

\* A run that advance_run lets succeed has only succeeded stages.
LEMMA RunStepKeeps ==
  ASSUME Inductive, QueueAssumption, NEW r \in Runs,
         StartRun(r) \/ AdvanceRun(r) \/ Decide(r) \/ CancelRun(r)
  PROVE  Inductive'
<1>1. UNCHANGED <<runCost, stageVars, sessionVars>>
  BY DEF StartRun, AdvanceRun, Decide, CancelRun
<1>2. RowsOK /\ SessionsOK /\ DeliveryPart
  BY DEF Inductive, TypeOK
<1>3. /\ runStatus' \in [Runs -> RunStates]
      /\ gate' \in [Runs -> {"none", "budget_cap", "initiation_decision"}]
  BY <1>2 DEF StartRun, AdvanceRun, Decide, CancelRun, SetRun, OpenGate, RowsOK, RunStates
<1>4. TypeOK'
  BY <1>1, <1>2, <1>3 DEF TypeOK, RowsOK, SessionsOK, stageVars, sessionVars
<1>5. AttemptPart' /\ SessionPart'
  <2>1. AttemptPart'
    BY <1>1 DEF Inductive, AttemptPart, AttemptsBounded, AttemptRowsAgree, stageVars
  <2>2. SessionPart'
    BY <1>1 DEF Inductive, SessionPart, ViewOK, ReapOK, BeingReaped, NoneRunning, stageVars,
                sessionVars
  <2> QED BY <2>1, <2>2
<1>6. ASSUME ~SomeFailed(r), AllTerminal(r) PROVE StagesOf(r) \subseteq result
  BY <1>2, <1>6 DEF SomeFailed, AllTerminal, Terminal, StagesOf, DeliveryPart, StatusPart
<1>7. \A q \in Runs : runStatus'[q] = "succeeded" \/ gate'[q] = "initiation_decision" =>
                        \/ runStatus[q] = "succeeded" \/ gate[q] = "initiation_decision"
                        \/ StagesOf(q) \subseteq result
  <2>1. CASE AdvanceRun(r)
    BY <1>2, <1>6, <2>1 DEF AdvanceRun, SetRun, OpenGate, RowsOK
  <2>2. CASE StartRun(r) \/ Decide(r) \/ CancelRun(r)
    BY <1>2, <2>2 DEF StartRun, Decide, CancelRun, SetRun, RowsOK
  <2> QED BY <2>1, <2>2
<1>8. DeliveryPart'
  <2>1. \A s \in Stages : status'[s] # "skipped" /\ (status'[s] = "succeeded" => status[s] = "succeeded")
    BY <1>1, <1>2 DEF DeliveryPart, StatusPart, stageVars
  <2> QED BY <1>1, <1>2, <1>7, <2>1, DeliveryKept DEF stageVars
<1> QED BY <1>4, <1>5, <1>8 DEF Inductive

\* The rows create_run committed satisfy the invariant.
LEMMA InitInductive == Init => Inductive
<1> SUFFICES ASSUME Init PROVE Inductive
  OBVIOUS
<1> USE QueueAssumption
<1>1. TypeOK
  <2>1. NoAttempt \in AttemptRows /\ NoView \in Views /\ NoReap \in ReapViews
    BY DEF NoAttempt, AttemptRows, AttemptStates, NoView, Views, NoReap, ReapViews, StageStates,
           QueueAssumption
  <2>2. RowsOK
    BY <2>1 DEF Init, RowsOK, AttemptTables, RunStates, StageStates, QueueAssumption
  <2>3. SessionsOK
    BY <2>1 DEF Init, SessionsOK
  <2> QED BY <2>2, <2>3 DEF TypeOK
<1>2. AttemptsBounded
  BY DEF Init, AttemptsBounded, QueueAssumption
<1>3. AttemptRowsAgree
  <2>1. NoAttempt.state = "none"
    BY DEF NoAttempt
  <2> QED BY <2>1 DEF Init, AttemptRowsAgree
<1>4. SessionPart
  BY DEF Init, SessionPart, ViewOK, ReapOK, BeingReaped, NoView, NoReap
<1>5. DeliveryPart
  BY DEF Init, DeliveryPart, StatusPart, DependencyDelivered, SucceededRunIsComplete
<1> QED BY <1>1, <1>2, <1>3, <1>4, <1>5 DEF Inductive, AttemptPart

\* Every step keeps the invariant.
LEMMA NextInductive == Inductive /\ [Next]_vars => Inductive'
<1> SUFFICES ASSUME Inductive, [Next]_vars PROVE Inductive'
  OBVIOUS
<1> USE QueueAssumption
<1>1. ASSUME NEW w \in Workers, Claim(w) PROVE Inductive'
  BY <1>1, ClaimKeeps
<1>2. ASSUME NEW w \in Workers, Heartbeat(w) PROVE Inductive'
  <2>1. leaseLive' \in [Stages -> BOOLEAN]
    BY <1>2 DEF Heartbeat, Inductive, TypeOK, RowsOK, SessionsOK
  <2> QED BY <1>2, <2>1, LeaseKeeps DEF Heartbeat
<1>3. ASSUME NEW w \in Workers, ReportStep(w) PROVE Inductive'
  BY <1>3, ReportStepKeeps
<1>4. ASSUME NEW w \in Workers, WorkerStops(w) PROVE Inductive'
  BY <1>4, EndJobKeeps DEF WorkerStops
<1>5. ASSUME NEW s \in Stages, LeaseExpires(s) PROVE Inductive'
  <2>1. leaseLive' \in [Stages -> BOOLEAN]
    BY <1>5 DEF LeaseExpires, Inductive, TypeOK, RowsOK
  <2> QED BY <1>5, <2>1, LeaseKeeps DEF LeaseExpires
<1>6. ASSUME NEW s \in Stages, BackoffElapses(s) PROVE Inductive'
  BY <1>6, BackoffKeeps
<1>7. CASE ReapSelect \/ ReapEnds
  BY <1>7, ReapReadsKeep, ReapCommitKeeps DEF ReapEnds
<1>8. ASSUME NEW r \in Runs, StartRun(r) \/ AdvanceRun(r) \/ Decide(r) \/ CancelRun(r)
      PROVE  Inductive'
  BY <1>8, RunStepKeeps
<1>9. CASE UNCHANGED vars
  <2>1. leaseLive' \in [Stages -> BOOLEAN]
    BY <1>9 DEF vars, stageVars, Inductive, TypeOK, RowsOK
  <2> QED BY <1>9, <2>1, LeaseKeeps DEF vars, stageVars
<1> QED BY <1>1, <1>2, <1>3, <1>4, <1>5, <1>6, <1>7, <1>8, <1>9 DEF Next

\* The invariant holds in every state.
THEOREM InductiveInvariant == Spec => []Inductive
  BY InitInductive, NextInductive, PTL DEF Spec

\* The rows and what the open transactions have loaded keep their types; the
\* run's cost is a sum that some transaction read (_rollup_run).
THEOREM TypeCorrect == Spec => []TypeOK
<1>1. Inductive => TypeOK
  BY DEF Inductive
<1> QED BY <1>1, InductiveInvariant, PTL

\* No stage waits for a worker without an attempt left (claim_stage, fail_stage,
\* reap_expired), also when the row that was tested is no longer the row.
THEOREM RetriesAreBounded == Spec => []AttemptsBounded
<1>1. Inductive => AttemptsBounded
  BY DEF Inductive, AttemptPart
<1> QED BY <1>1, InductiveInvariant, PTL

\* The attempt rows and the claim of a stage tell the same story, through
\* reports and reapings that overlap.
THEOREM AttemptsAreConsistent == Spec => []AttemptRowsAgree
<1>1. Inductive => AttemptRowsAgree
  BY DEF Inductive, AttemptPart
<1> QED BY <1>1, InductiveInvariant, PTL

\* No stage is ever executed before the stage it depends on has stored its
\* result, and the result stays (claim_stage, complete_stage).
THEOREM DependenciesAreDelivered == Spec => []DependencyDelivered
<1>1. Inductive => DependencyDelivered
  BY DEF Inductive, DeliveryPart
<1> QED BY <1>1, InductiveInvariant, PTL

\* A run succeeds, or is put before the PM, only with the results of all its stages.
THEOREM SuccessIsComplete == Spec => []SucceededRunIsComplete
<1>1. Inductive => SucceededRunIsComplete
  BY DEF Inductive, DeliveryPart
<1> QED BY <1>1, InductiveInvariant, PTL

-----------------------------------------------------------------------------
(***************************************************************************)
(* Stages that are over.                                                   *)
(***************************************************************************)

\* Only the commit of a report or of a reaping that loaded a stage while it ran
\* makes it claimable again once it is over.
LEMMA NextReopensByOverlap == Inductive /\ [Next]_vars => ReopensByOverlap
<1> SUFFICES ASSUME Inductive, [Next]_vars, NEW t \in Stages,
                    status[t] \in Terminal, status'[t] \notin Terminal
             PROVE  LoadedRunning(t) /\ ~due'[t]
  BY DEF ReopensByOverlap
<1>0. RowsOK /\ SessionsOK /\ SessionPart
  BY DEF Inductive, TypeOK
<1>1. ~UNCHANGED status
  OBVIOUS
<1>2. ASSUME NEW w \in Workers, Claim(w) PROVE FALSE
  BY <1>0, <1>2 DEF Claim, Claimable, Terminal, RowsOK
<1>3. ASSUME NEW w \in Workers, NEW to, NEW outcome, NEW c, to \in {"succeeded", "failed"},
             WriteReport(w, to, outcome, c)
      PROVE  FALSE
  BY <1>0, <1>3 DEF WriteReport, Put, Terminal, RowsOK
<1>4. ASSUME NEW w \in Workers, NEW c, LegalReport(w), WriteReport(w, "queued", "failed", c),
             due' = [due EXCEPT ![job[w]] = FALSE]
      PROVE  LoadedRunning(t) /\ ~due'[t]
  <2>1. job[w] = t
    BY <1>0, <1>4 DEF WriteReport, RowsOK
  <2>2. view[w].step = "summed" /\ view[w].status = "running"
    BY <1>4 DEF WriteReport, LegalReport
  <2>3. LoadedRunning(t)
    BY <2>1, <2>2 DEF LoadedRunning
  <2>4. ~due'[t]
    BY <1>0, <1>4, <2>1 DEF RowsOK
  <2> QED BY <2>3, <2>4
<1>5. CASE ReapCommit
  <2>1. t \in Reaping /\ CanRetry(reap[t].attempts)
    BY <1>5 DEF ReapCommit, Terminal
  <2>2. ~due'[t]
    BY <1>5, <2>1 DEF ReapCommit
  <2> QED BY <2>1, <2>2 DEF LoadedRunning, Reaping
<1>6. ASSUME NEW w \in Workers, ReportStep(w) PROVE LoadedRunning(t) /\ ~due'[t]
  <2>1. CASE ReportRead(w) \/ ReportLook(w) \/ ReportSum(w) \/ Refused(w)
    BY <1>1, <2>1 DEF ReportRead, ReportLook, ReportSum, Refused, stageVars
  <2>2. ASSUME NEW c \in Costs, CompleteStage(w, c) PROVE LoadedRunning(t) /\ ~due'[t]
    BY <1>3, <2>1, <2>2 DEF CompleteStage
  <2>3. ASSUME NEW c \in Costs, NEW b \in BOOLEAN, FailStage(w, c, b)
        PROVE  LoadedRunning(t) /\ ~due'[t]
    BY <1>3, <1>4, <2>1, <2>3 DEF FailStage
  <2> QED BY <1>6, <2>1, <2>2, <2>3 DEF ReportStep
<1>7. ASSUME NEW w \in Workers, Heartbeat(w) \/ WorkerStops(w) PROVE FALSE
  BY <1>1, <1>7 DEF Heartbeat, WorkerStops, stageVars
<1>8. ASSUME NEW s \in Stages, LeaseExpires(s) \/ BackoffElapses(s) \/ ReapLook(s) PROVE FALSE
  BY <1>1, <1>8 DEF LeaseExpires, BackoffElapses, ReapLook, stageVars
<1>9. ASSUME NEW r \in Runs, StartRun(r) \/ AdvanceRun(r) \/ Decide(r) \/ CancelRun(r)
      PROVE  FALSE
  BY <1>1, <1>9 DEF StartRun, AdvanceRun, Decide, CancelRun, stageVars
<1>10. CASE ReapSelect \/ ReapRollsBack \/ UNCHANGED vars
  BY <1>1, <1>10 DEF ReapSelect, ReapRollsBack, vars, stageVars
<1> QED BY <1>2, <1>5, <1>6, <1>7, <1>8, <1>9, <1>10 DEF Next, ReapEnds

\* What a step may not do: give out a stage that is over, unless it belongs to a
\* transaction that overlapped the one which ended it (stage_transition in
\* fail_stage refuses every other; run reopened_stage shows that one).
THEOREM StagesReopenOnlyByOverlap == Spec => ReopenedOnlyByOverlap
<1>1. Inductive /\ [Next]_vars => [ReopensByOverlap]_vars
  BY NextReopensByOverlap
<1> QED BY <1>1, InductiveInvariant, PTL DEF Spec, ReopenedOnlyByOverlap

-----------------------------------------------------------------------------
(***************************************************************************)
(* Costs.  An attempt is free until it is closed.  A report that read the  *)
(* cost the stage still has adds its charge to it, and the same charge to  *)
(* the attempt it closes.                                                  *)
(***************************************************************************)

OpenAttemptsAreFree ==
  \A s \in Stages : \A n \in 1..MaxAttempts :
    attempt[s][n].state \in {"none", "running"} => attempt[s][n].cost = 0

\* The costs of a stage's attempts, as a function of their number.
CostsOf(s) == [n \in 1..MaxAttempts |-> attempt[s][n].cost]

\* What the attempts of a stage cost is the sum of that function.
LEMMA AttemptCostsAreCountable ==
  ASSUME RowsOK, QueueAssumption, NEW s \in Stages
  PROVE  /\ Countable(CostsOf(s), 1..MaxAttempts)
         /\ AttemptCosts(s) = SumFunctionOnSet(CostsOf(s), 1..MaxAttempts)
         /\ AttemptCosts(s) \in Nat
<1>1. \A n \in 1..MaxAttempts : attempt[s][n].cost \in Nat
  BY DEF RowsOK, AttemptTables, AttemptRows
<1>2. Countable(CostsOf(s), 1..MaxAttempts)
  BY <1>1, CostsAreCountable DEF Countable, CostsOf
<1>3. AttemptCosts(s) = SumFunctionOnSet(CostsOf(s), 1..MaxAttempts)
  BY DEF AttemptCosts, CostsOf
<1> QED BY <1>2, <1>3, SumIsNatural

\* A step that charges nothing: claims, reaping, and all that is not a report.
LEMMA FreeStep ==
  ASSUME RowsOK, QueueAssumption, UNCHANGED cost, OpenAttemptsAreFree,
         \A s \in Stages : \A n \in 1..MaxAttempts :
           /\ attempt'[s][n].cost = attempt[s][n].cost
           /\ attempt'[s][n].state \in {"none", "running"} =>
                attempt[s][n].state \in {"none", "running"}
  PROVE  OpenAttemptsAreFree' /\ BalanceKept
<1>1. OpenAttemptsAreFree'
  BY DEF OpenAttemptsAreFree
<1>2. ASSUME NEW s \in Stages PROVE Charged(s)' = Charged(s)
  <2>1. CostsOf(s)' = CostsOf(s)
    BY DEF CostsOf
  <2>2. AttemptCosts(s)' = AttemptCosts(s)
    BY <2>1 DEF AttemptCosts, CostsOf
  <2> QED BY <2>2 DEF Charged
<1>3. \A s \in Stages : ~(Charged(s)' < Charged(s))
  <2> TAKE s \in Stages
  <2>1. Charged(s) \in Int
    BY AttemptCostsAreCountable DEF Charged, RowsOK
  <2> QED BY <1>2, <2>1
<1> QED BY <1>1, <1>2, <1>3 DEF BalanceKept

\* A report charges the stage and the attempt it closes.
LEMMA WriteReportCharges ==
  ASSUME Inductive, OpenAttemptsAreFree, QueueAssumption, NEW w \in Workers,
         NEW to, NEW outcome \in {"succeeded", "failed"}, NEW c \in Costs,
         WriteReport(w, to, outcome, c)
  PROVE  OpenAttemptsAreFree' /\ BalanceKept
<1> DEFINE s == job[w]
<1> DEFINE v == view[w]
<1> DEFINE k == view[w].row
<1>1. RowsOK /\ v \in Views /\ v.step = "summed" /\ s \in Stages /\ c \in Nat
      /\ k \in 0..MaxAttempts
  <2>1. RowsOK /\ v \in Views /\ v.step = "summed" /\ c \in Nat
    BY DEF Inductive, TypeOK, SessionsOK, WriteReport, QueueAssumption
  <2>2. s \in Stages
    BY <2>1 DEF Inductive, SessionPart, ViewOK
  <2> QED BY <2>1, <2>2 DEF Views
<1>2. /\ attempt' \in AttemptTables
      /\ \A t \in Stages : \A n \in 1..MaxAttempts :
           IF t = s /\ n = k THEN attempt'[t][n] = Closed(attempt[t][n], outcome, c)
                             ELSE attempt'[t][n] = attempt[t][n]
      /\ cost' = [cost EXCEPT ![s] = Put(@, v.cost, v.cost + c)]
  <2>1. CloseAttempt(w, outcome, c)
    BY DEF WriteReport
  <2> QED BY <1>1, <2>1, CloseAttemptEffect
<1>3. \A a : Closed(a, outcome, c).state = outcome /\ Closed(a, outcome, c).cost = Put(a.cost, 0, c)
  BY DEF Closed
<1>4. OpenAttemptsAreFree'
  BY <1>2, <1>3 DEF OpenAttemptsAreFree
<1>5. ASSUME NEW t \in Stages, t # s PROVE Charged(t)' = Charged(t)
  <2>1. \A n \in 1..MaxAttempts : attempt'[t][n] = attempt[t][n]
    BY <1>2, <1>5
  <2>2. AttemptCosts(t)' = AttemptCosts(t)
    BY <2>1 DEF AttemptCosts
  <2>3. cost'[t] = cost[t]
    BY <1>1, <1>2, <1>5 DEF RowsOK
  <2> QED BY <2>2, <2>3 DEF Charged
<1>6. \A t \in Stages : cost[t] \in Nat /\ AttemptCosts(t) \in Nat
  BY <1>1, AttemptCostsAreCountable DEF RowsOK
<1> DEFINE before == SumFunctionOnSet(CostsOf(s), 1..MaxAttempts)
<1> DEFINE after == SumFunctionOnSet([n \in 1..MaxAttempts |-> attempt'[s][n].cost], 1..MaxAttempts)
<1>7. v.cost = cost[s] => cost'[s] = cost[s] + c
  BY <1>1, <1>2 DEF RowsOK, Put
<1>8. before \in Nat /\ before = AttemptCosts(s)
  BY <1>1, AttemptCostsAreCountable
<1>9. CASE k = 0
  <2>1. \A n \in 1..MaxAttempts : attempt'[s][n] = attempt[s][n]
    BY <1>1, <1>2, <1>9 DEF QueueAssumption
  <2>2. after = before
    BY <2>1 DEF CostsOf
  <2>3. v.cost = cost[s] => ~(cost'[s] - after < cost[s] - before)
    BY <1>1, <1>6, <1>7, <1>8, <2>2
  <2>4. Unattached(w)
    BY <1>9 DEF Unattached
  <2> QED
    <3>1. ASSUME NEW t \in Stages, Charged(t)' # Charged(t)
          PROVE  \E x \in Workers : job[x] = t /\ view[x].step = "summed" /\ (Overtakes(x) \/ Unattached(x))
      BY <1>1, <1>5, <2>4, <3>1
    <3>2. ASSUME NEW t \in Stages, Charged(t)' < Charged(t)
          PROVE  \E x \in Workers : job[x] = t /\ view[x].step = "summed" /\ Overtakes(x)
      <4>1. t = s
        <5>1. Charged(t) \in Int
          BY <1>6 DEF Charged
        <5> QED BY <1>5, <3>2, <5>1
      <4>2. Charged(t)' = cost'[s] - after /\ Charged(t) = cost[s] - before
        BY <1>8, <4>1 DEF Charged, AttemptCosts
      <4>3. Overtakes(w)
        BY <2>3, <3>2, <4>2 DEF Overtakes
      <4> QED BY <1>1, <4>1, <4>3
    <3> QED BY <1>4, <3>1, <3>2 DEF BalanceKept
<1>10. CASE k # 0
  <2> DEFINE x == attempt[s][k].cost
  <2>1. k \in 1..MaxAttempts
    BY <1>1, <1>10 DEF QueueAssumption
  <2>2. x \in Nat /\ attempt'[s][k].cost = Put(x, 0, c) /\ Put(x, 0, c) \in Nat
    <3>1. attempt[s][k] \in AttemptRows
      BY <1>1, <2>1 DEF RowsOK, AttemptTables
    <3>2. attempt'[s][k] = Closed(attempt[s][k], outcome, c)
      BY <1>1, <1>2, <2>1
    <3> QED BY <1>1, <1>3, <3>1, <3>2 DEF AttemptRows, Put
  <2>3. \A n \in (1..MaxAttempts) \ {k} : attempt'[s][n] = attempt[s][n]
    BY <1>1, <1>2
  <2>4. after = before + Put(x, 0, c) - x
    <3> DEFINE g == [n \in 1..MaxAttempts |-> attempt'[s][n].cost]
    <3>1. g[k] = Put(x, 0, c) /\ CostsOf(s)[k] = x /\ g[k] \in Nat
      BY <2>1, <2>2 DEF CostsOf
    <3>2. \A n \in (1..MaxAttempts) \ {k} : g[n] = CostsOf(s)[n]
      BY <2>3 DEF CostsOf
    <3>3. Countable(CostsOf(s), 1..MaxAttempts)
      BY <1>1, AttemptCostsAreCountable
    <3> HIDE DEF g, k, s
    <3>4. SumFunctionOnSet(g, 1..MaxAttempts) = before + g[k] - CostsOf(s)[k]
      BY <2>1, <3>1, <3>2, <3>3, SumAfterChange
    <3> QED BY <3>1, <3>4 DEF g
  <2> HIDE DEF after, before, x
  <2>5. v.cost = cost[s] => ~(cost'[s] - after < cost[s] - before)
    BY <1>1, <1>6, <1>7, <1>8, <2>2, <2>4 DEF Put
  <2>6. v.cost = cost[s] /\ x = 0 => cost'[s] - after = cost[s] - before
    BY <1>1, <1>6, <1>7, <1>8, <2>2, <2>4 DEF Put
  <2>7. ~Unattached(w) => x = 0
    BY <1>1, <1>10, <2>1 DEF Unattached, OpenAttemptsAreFree, x
  <2> QED
    <3>0. ASSUME NEW t \in Stages, t = s
          PROVE  Charged(t)' = cost'[s] - after /\ Charged(t) = cost[s] - before
      BY <1>8, <3>0 DEF Charged, AttemptCosts, after, before
    <3>1. ASSUME NEW t \in Stages, Charged(t)' # Charged(t)
          PROVE  \E y \in Workers : job[y] = t /\ view[y].step = "summed" /\ (Overtakes(y) \/ Unattached(y))
      <4>1. t = s
        BY <1>5, <3>1
      <4>2. Overtakes(w) \/ Unattached(w)
        BY <2>6, <2>7, <3>0, <3>1, <4>1 DEF Overtakes
      <4> QED BY <1>1, <4>1, <4>2
    <3>2. ASSUME NEW t \in Stages, Charged(t)' < Charged(t)
          PROVE  \E y \in Workers : job[y] = t /\ view[y].step = "summed" /\ Overtakes(y)
      <4>1. t = s
        <5>1. Charged(t) \in Int
          BY <1>6 DEF Charged
        <5> QED BY <1>5, <3>2, <5>1
      <4>2. Overtakes(w)
        BY <2>5, <3>0, <3>2, <4>1 DEF Overtakes
      <4> QED BY <1>1, <4>1, <4>2
    <3> QED BY <1>4, <3>1, <3>2 DEF BalanceKept
<1> QED BY <1>9, <1>10

\* Every step keeps the balance, and attempts free until they are closed.
LEMMA NextBalances ==
  Inductive /\ OpenAttemptsAreFree /\ [Next]_vars => OpenAttemptsAreFree' /\ BalanceKept
<1> SUFFICES ASSUME Inductive, OpenAttemptsAreFree, [Next]_vars
             PROVE  OpenAttemptsAreFree' /\ BalanceKept
  OBVIOUS
<1> USE QueueAssumption
<1>0. RowsOK /\ AttemptPart
  BY DEF Inductive, TypeOK
<1>1. CASE UNCHANGED <<cost, attempt>>
  BY <1>0, <1>1, FreeStep
<1>2. ASSUME NEW w \in Workers, Claim(w) PROVE OpenAttemptsAreFree' /\ BalanceKept
  <2>1. PICK s \in CanRun[w] :
          /\ Claimable(s)
          /\ attempt' = [attempt EXCEPT ![s][attempts[s] + 1] =
                           [state |-> "running", worker |-> w, cost |-> 0]]
    BY <1>2 DEF Claim
  <2>2. s \in Stages /\ attempts[s] + 1 \in 1..MaxAttempts
    BY <1>0, <2>1 DEF QueueAssumption, AttemptPart, AttemptsBounded, Claimable, RowsOK
  <2>3. attempt[s][attempts[s] + 1].state = "none"
    BY <1>0, <2>2 DEF AttemptPart, AttemptRowsAgree, RowsOK
  <2>4. attempt[s][attempts[s] + 1].cost = 0
    BY <2>2, <2>3 DEF OpenAttemptsAreFree
  <2>5. \A t \in Stages : \A n \in 1..MaxAttempts :
          IF t = s /\ n = attempts[s] + 1
            THEN attempt'[t][n].cost = 0
            ELSE attempt'[t][n] = attempt[t][n]
    BY <1>0, <2>1, <2>2 DEF RowsOK, AttemptTables
  <2>6. UNCHANGED cost
    BY <1>2 DEF Claim
  <2> QED BY <2>3, <2>4, <2>5, <2>6, <1>0, FreeStep
<1>3. ASSUME NEW w \in Workers, ReportStep(w) PROVE OpenAttemptsAreFree' /\ BalanceKept
  <2>1. CASE ReportRead(w) \/ ReportLook(w) \/ ReportSum(w) \/ Refused(w)
    BY <1>1, <2>1 DEF ReportRead, ReportLook, ReportSum, Refused, stageVars
  <2>2. ASSUME NEW c \in Costs, CompleteStage(w, c) PROVE OpenAttemptsAreFree' /\ BalanceKept
    BY <2>1, <2>2, WriteReportCharges DEF CompleteStage
  <2>3. ASSUME NEW c \in Costs, NEW b \in BOOLEAN, FailStage(w, c, b)
        PROVE  OpenAttemptsAreFree' /\ BalanceKept
    BY <2>1, <2>3, WriteReportCharges DEF FailStage
  <2> QED BY <1>3, <2>1, <2>2, <2>3 DEF ReportStep
<1>4. CASE ReapCommit
  <2>1. \A s \in Stages : \A n \in 1..MaxAttempts :
          attempt'[s][n] = IF s \in Reaping /\ n = reap[s].row
                             THEN [attempt[s][n] EXCEPT !.state = "failed"] ELSE attempt[s][n]
    BY <1>4 DEF ReapCommit
  <2>2. \A a \in AttemptRows : /\ [a EXCEPT !.state = "failed"].state = "failed"
                               /\ [a EXCEPT !.state = "failed"].cost = a.cost
    BY DEF AttemptRows
  <2>3. \A s \in Stages : \A n \in 1..MaxAttempts :
          /\ attempt'[s][n].cost = attempt[s][n].cost
          /\ attempt'[s][n].state \in {"none", "running"} => attempt[s][n].state \in {"none", "running"}
    <3> TAKE s \in Stages
    <3> TAKE n \in 1..MaxAttempts
    <3>1. attempt[s][n] \in AttemptRows
      BY <1>0 DEF RowsOK, AttemptTables
    <3>2. CASE s \in Reaping /\ n = reap[s].row
      BY <2>1, <2>2, <3>1, <3>2
    <3>3. CASE ~(s \in Reaping /\ n = reap[s].row)
      BY <2>1, <3>3
    <3> QED BY <3>2, <3>3
  <2>4. UNCHANGED cost
    BY <1>4 DEF ReapCommit
  <2> QED BY <2>3, <2>4, <1>0, FreeStep
<1>5. ASSUME NEW w \in Workers, Heartbeat(w) \/ WorkerStops(w) PROVE UNCHANGED <<cost, attempt>>
  BY <1>5 DEF Heartbeat, WorkerStops, stageVars
<1>6. ASSUME NEW s \in Stages, LeaseExpires(s) \/ BackoffElapses(s) \/ ReapLook(s)
      PROVE  UNCHANGED <<cost, attempt>>
  BY <1>6 DEF LeaseExpires, BackoffElapses, ReapLook, stageVars
<1>7. ASSUME NEW r \in Runs, StartRun(r) \/ AdvanceRun(r) \/ Decide(r) \/ CancelRun(r)
      PROVE  UNCHANGED <<cost, attempt>>
  BY <1>7 DEF StartRun, AdvanceRun, Decide, CancelRun, stageVars
<1>8. CASE ReapSelect \/ ReapRollsBack \/ UNCHANGED vars
  BY <1>1, <1>8 DEF ReapSelect, ReapRollsBack, vars, stageVars
<1> QED BY <1>1, <1>2, <1>3, <1>4, <1>5, <1>6, <1>7, <1>8 DEF Next, ReapEnds

\* The charge of a stage and the costs of its attempts move together, except
\* under a report whose attempt is already closed; and only a report that
\* overlapped another of the same stage loses a charge (_close_attempt).
THEOREM ChargesAreBalanced == Spec => ChargesBalance
<1>1. Init => OpenAttemptsAreFree
  BY DEF Init, OpenAttemptsAreFree, NoAttempt
<1>2. Inductive /\ OpenAttemptsAreFree /\ [Next]_vars => OpenAttemptsAreFree' /\ [BalanceKept]_vars
  BY NextBalances
<1> QED BY <1>1, <1>2, InductiveInvariant, PTL DEF Spec, ChargesBalance

=============================================================================
