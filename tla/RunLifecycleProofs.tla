------------------------- MODULE RunLifecycleProofs -------------------------
(***************************************************************************)
(* What holds of coverage, runs, locks and gates for every number of       *)
(* tickers, runs, gates and houses.                                        *)
(*                                                                         *)
(* None of the properties of RunLifecycle is inductive alone.  LockHeld    *)
(* needs LockNotLeaked (a queued run must not find its own stale lock row  *)
(* on a ticker another run works on), the gate properties need to know     *)
(* that an unused gate row names no run and which runs a decision gate can *)
(* belong to.  Inductive collects these facts.                             *)
(*                                                                         *)
(* Each route and engine call is one committed step here; what does not    *)
(* survive a cancel inside an open tick is refuted in OrchestratorTick.    *)
(***************************************************************************)
EXTENDS RunLifecycle, TLAPS

LockPart == LockHeld /\ LockNotLeaked

GatePart ==
  /\ GatesFitRuns
  /\ \A g \in GateIds : gate[g].state = "none" => gate[g].run = NoRun
  /\ \A g \in GateIds :
       gate[g].kind = "initiation_decision" => type[gate[g].run] = "initiation"

Inductive == TypeOK /\ LockPart /\ GatePart /\ LiveOnlyByDecision

-----------------------------------------------------------------------------
(***************************************************************************)
(* The transition tables.                                                  *)
(***************************************************************************)

\* A coverage becomes active or watched only from such a state or by a decision.
LEMMA LiveEntries ==
  ASSUME NEW from, NEW action, NEW to \in {"active", "watch"},
         <<from, action, to>> \in CoverageEntries
  PROVE  from \in {"active", "watch"} \/ action \in Decisions
  BY DEF CoverageEntries, Decisions

\* finish_run's three actions end a run that had not ended.
LEMMA EndEntries ==
  ASSUME NEW from, NEW action \in {"succeed", "fail", "cancel"}, NEW to,
         <<from, action, to>> \in RunEntries
  PROVE  /\ from \in {"queued", "running", "waiting_pm"}
         /\ to \in Ended
         /\ action = "succeed" => to = "succeeded" /\ from \in {"running", "waiting_pm"}
         /\ action = "fail" => to = "failed" /\ from = "running"
         /\ action = "cancel" => to = "cancelled"
  BY DEF RunEntries, Ended

-----------------------------------------------------------------------------
(***************************************************************************)
(* How the helpers treat each part of the invariant.                       *)
(***************************************************************************)

\* finish_run releases the ending run's lock and no other.
LEMMA FinishKeepsLocks ==
  ASSUME TypeOK, LockPart, NEW r \in RunIds,
         NEW action \in {"succeed", "fail", "cancel"},
         FinishRun(r, action), UNCHANGED runIds
  PROVE  LockPart'
<1>1. PICK to \in RunStates :
        <<status[r], action, to>> \in RunEntries /\ status' = [status EXCEPT ![r] = to]
  BY DEF FinishRun, RunTransition
<1>2. to \in Ended
  BY <1>1, EndEntries
<1>3. type' = type /\ covOf' = covOf
  BY DEF runIds
<1>4. \A c \in Coverages : lock'[c] = IF lock[c] = r THEN NoRun ELSE lock[c]
  BY DEF FinishRun, ReleaseLock
<1>5. \A q \in RunIds : status'[q] = IF q = r THEN to ELSE status[q]
  BY <1>1 DEF TypeOK
<1>6. LockHeld'
  BY <1>2, <1>3, <1>4, <1>5 DEF LockPart, LockHeld, InFlight, Mutating, Ended, TypeOK
<1>7. LockNotLeaked'
  BY <1>2, <1>3, <1>4, <1>5 DEF LockPart, LockNotLeaked, Mutating, TypeOK
<1> QED BY <1>6, <1>7 DEF LockPart

\* finish_run keeps the types of the run and lock rows.
LEMMA FinishKeepsTypes ==
  ASSUME TypeOK, NEW r \in RunIds, NEW action, FinishRun(r, action)
  PROVE  /\ status' \in [RunIds -> RunStates \cup {"none"}]
         /\ lock' \in [Coverages -> RunIds \cup {NoRun}]
  BY DEF TypeOK, FinishRun, RunTransition, ReleaseLock

\* Moving a run among queued, running and waiting_pm keeps the locks when the
\* run owns the lock wherever it needs it afterwards.
LEMMA MoveKeepsLocks ==
  ASSUME TypeOK, LockPart, NEW r \in RunIds, NEW to \in {"queued", "waiting_pm"},
         status[r] = "running",
         status' = [status EXCEPT ![r] = to], UNCHANGED <<runIds, lock>>
  PROVE  LockPart'
<1>1. LockHeld'
  BY DEF LockPart, LockHeld, InFlight, Mutating, TypeOK, runIds
<1>2. LockNotLeaked'
  BY DEF LockPart, LockNotLeaked, Mutating, TypeOK, runIds
<1> QED BY <1>1, <1>2 DEF LockPart

\* Opening the gate of a running run keeps the gates in order.
LEMMA OpenKeepsGates ==
  ASSUME TypeOK, GatePart, NEW r \in RunIds, NEW kind \in {"budget_cap", "initiation_decision"},
         status[r] = "running", kind = "initiation_decision" => type[r] = "initiation",
         OpenGate(r, kind), status' = [status EXCEPT ![r] = "waiting_pm"], UNCHANGED type
  PROVE  GatePart' /\ gate' \in [GateIds ->
           [state : {"none", "open", "answered", "cancelled"}, run : RunIds \cup {NoRun},
            kind : {"none", "budget_cap", "initiation_decision"},
            answer : Answers \cup Decisions \cup {"none"}]]
<1> DEFINE row == [state |-> "open", run |-> r, kind |-> kind, answer |-> "none"]
<1>1. PICK g \in GateIds : gate[g].state = "none" /\ gate' = [gate EXCEPT ![g] = row]
  BY DEF OpenGate
<1>2. \A h \in GateIds : gate'[h] = IF h = g THEN row ELSE gate[h]
  BY <1>1 DEF TypeOK
<1>3. \A h \in GateIds : gate[h].run # r
  BY LifecycleAssumption DEF GatePart, GatesFitRuns
<1>4. \A q \in RunIds : status'[q] = IF q = r THEN "waiting_pm" ELSE status[q]
  BY DEF TypeOK
<1>5. GatesFitRuns'
  <2>1. ASSUME NEW h \in GateIds, gate'[h].state # "none"
        PROVE  /\ gate'[h].run \in RunIds
               /\ status'[gate'[h].run] \in {"waiting_pm", "succeeded", "cancelled"}
               /\ gate'[h].state = "open" => status'[gate'[h].run] # "succeeded"
    BY <1>2, <1>4, <2>1 DEF GatePart, GatesFitRuns
  <2>2. ASSUME NEW h \in GateIds, gate'[h].state # "none",
               NEW k \in GateIds, gate'[k].run = gate'[h].run
        PROVE  k = h
    BY <1>2, <1>3, <2>2 DEF GatePart, GatesFitRuns
  <2>3. ASSUME NEW q \in RunIds, status'[q] = "waiting_pm"
        PROVE  \E h \in GateIds : gate'[h].run = q
    <3>1. CASE q = r
      BY <1>2, <3>1
    <3>2. CASE q # r
      <4>1. PICK h \in GateIds : gate[h].run = q
        BY <1>4, <2>3, <3>2 DEF GatePart, GatesFitRuns
      <4>2. h # g
        BY <1>1, <4>1, LifecycleAssumption DEF GatePart
      <4> QED BY <1>2, <4>1, <4>2
    <3> QED BY <3>1, <3>2
  <2> QED BY <2>1, <2>2, <2>3 DEF GatesFitRuns
<1>6. \A h \in GateIds : gate'[h].state = "none" => gate'[h].run = NoRun
  BY <1>2 DEF GatePart
<1>7. \A h \in GateIds :
        gate'[h].kind = "initiation_decision" => type'[gate'[h].run] = "initiation"
  BY <1>2 DEF GatePart
<1>8. row \in [state : {"none", "open", "answered", "cancelled"}, run : RunIds \cup {NoRun},
               kind : {"none", "budget_cap", "initiation_decision"},
               answer : Answers \cup Decisions \cup {"none"}]
  OBVIOUS
<1> QED BY <1>1, <1>5, <1>6, <1>7, <1>8 DEF GatePart, TypeOK

\* A run moving to another status keeps the gates, as long as a run with a gate
\* only goes on to cancelled, or to succeeded with that gate answered.
LEMMA MoveKeepsGates ==
  ASSUME TypeOK, GatePart, NEW r \in RunIds, NEW to \in RunStates,
         (status[r] # "waiting_pm" /\ to # "waiting_pm") \/ to = "cancelled",
         status[r] \notin Ended,
         status' = [status EXCEPT ![r] = to], UNCHANGED <<type, gate>>
  PROVE  GatePart'
<1>1. \A q \in RunIds : status'[q] = IF q = r THEN to ELSE status[q]
  BY DEF TypeOK
<1>2. to # "cancelled" => \A g \in GateIds : gate[g].run # r
  BY LifecycleAssumption DEF GatePart, GatesFitRuns, Ended
<1>3. GatesFitRuns'
  BY <1>1, <1>2 DEF GatePart, GatesFitRuns
<1> QED BY <1>3 DEF GatePart

-----------------------------------------------------------------------------
(***************************************************************************)
(* One lemma per kind of action.                                           *)
(***************************************************************************)

\* Routes that only move the coverage: propose, promote, demote, exit and
\* re_propose; set_lead also writes a house.
LEMMA CoverageRoutesKeep ==
  ASSUME Inductive, NEW c \in Coverages,
         NEW action \in {"propose", "promote", "demote", "exit", "re_propose", "set_lead"},
         CovTransition(c, action),
         \/ UNCHANGED leadHouse
         \/ \E h \in Houses : leadHouse' = [leadHouse EXCEPT ![c] = h],
         UNCHANGED <<status, runIds, stages, overCap, lock, gate>>
  PROVE  Inductive'
<1>1. PICK to \in CoverageStates :
        <<cov[c], action, to>> \in CoverageEntries /\ cov' = [cov EXCEPT ![c] = to]
  BY DEF CovTransition
<1>2. \A d \in Coverages : cov'[d] = IF d = c THEN to ELSE cov[d]
  BY <1>1 DEF Inductive, TypeOK
<1>3. TypeOK'
  BY <1>1 DEF Inductive, TypeOK, runIds
<1>4. LockPart'
  BY DEF Inductive, LockPart, LockHeld, LockNotLeaked, InFlight, Mutating, runIds
<1>5. GatePart'
  BY DEF Inductive, GatePart, GatesFitRuns, runIds
<1>6. to \in {"active", "watch"} => cov[c] \in {"active", "watch"}
  BY <1>1, LiveEntries DEF Decisions
<1>7. LiveOnlyByDecision'
  BY <1>2, <1>6 DEF Inductive, LiveOnlyByDecision, runIds
<1> QED BY <1>3, <1>4, <1>5, <1>7 DEF Inductive

\* create_run, from the initiate, new run and retry routes.
LEMMA CreateRunKeeps ==
  ASSUME Inductive, NEW r \in RunIds, NEW t \in AllTypes, NEW c \in Coverages,
         NEW asked \in Params, CreateRun(r, t, c, asked)
  PROVE  Inductive'
<1> DEFINE lead == IF asked.lead # NoHouse THEN asked.lead ELSE leadHouse[c]
<1>1. /\ status[r] = "none"
      /\ status' = [status EXCEPT ![r] = "queued"]
      /\ type' = [type EXCEPT ![r] = t]
      /\ covOf' = [covOf EXCEPT ![r] = c]
      /\ params' = [params EXCEPT ![r] = WithLead(asked, lead)]
      /\ cov' = cov /\ leadHouse' = leadHouse /\ stages' = stages
      /\ overCap' = overCap /\ lock' = lock /\ gate' = gate
  BY DEF CreateRun, covVars
<1>2. TypeOK'
  <2>1. WithLead(asked, lead) \in Params
    BY DEF WithLead, Params, Inductive, TypeOK
  <2> QED BY <1>1, <2>1 DEF Inductive, TypeOK, RunStates
<1>3. \A q \in RunIds : q # r =>
        /\ status'[q] = status[q] /\ type'[q] = type[q]
        /\ covOf'[q] = covOf[q]
  BY <1>1 DEF Inductive, TypeOK
<1>4. status'[r] = "queued" /\ type'[r] = t
  BY <1>1 DEF Inductive, TypeOK
<1>5. \A d \in Coverages : lock[d] # r
  BY <1>1, LifecycleAssumption DEF Inductive, LockPart, LockNotLeaked
<1>6. LockPart'
  BY <1>1, <1>3, <1>4, <1>5 DEF Inductive, TypeOK, LockPart, LockHeld, LockNotLeaked, InFlight, Mutating
<1>7. \A g \in GateIds : gate[g].run # r
  BY <1>1, LifecycleAssumption DEF Inductive, GatePart, GatesFitRuns
<1>8. GatesFitRuns'
  BY <1>1, <1>3, <1>4, <1>7 DEF Inductive, GatePart, GatesFitRuns
<1>9. ASSUME NEW g \in GateIds, gate[g].kind = "initiation_decision"
      PROVE  type'[gate[g].run] = "initiation"
  <2>1. gate[g].run # r
    BY <1>7
  <2> QED BY <1>1, <1>9, <2>1 DEF Inductive, GatePart, TypeOK
<1>10. GatePart'
  BY <1>1, <1>8, <1>9 DEF Inductive, GatePart
<1>11. LiveOnlyByDecision'
  BY <1>1, <1>3 DEF Inductive, LiveOnlyByDecision
<1> QED BY <1>2, <1>6, <1>10, <1>11 DEF Inductive

\* cancel_run releases the run's own lock and leaves gates and coverage alone.
LEMMA CancelRunKeeps ==
  ASSUME Inductive, NEW r \in RunIds, CancelRun(r)
  PROVE  Inductive'
<1>1. /\ FinishRun(r, "cancel") /\ UNCHANGED runIds
      /\ cov' = cov /\ leadHouse' = leadHouse /\ stages' = stages /\ overCap' = overCap
      /\ gate' = gate /\ type' = type /\ covOf' = covOf /\ params' = params
  BY DEF CancelRun, covVars, runIds
<1>2. PICK to \in RunStates :
        <<status[r], "cancel", to>> \in RunEntries /\ status' = [status EXCEPT ![r] = to]
  BY <1>1 DEF FinishRun, RunTransition
<1>3. to = "cancelled" /\ status[r] \in {"queued", "running", "waiting_pm"}
  BY <1>2, EndEntries
<1>4. TypeOK'
  BY <1>1, FinishKeepsTypes DEF Inductive, TypeOK
<1>5. LockPart'
  BY <1>1, FinishKeepsLocks DEF Inductive
<1>6. GatePart'
  BY <1>1, <1>2, <1>3, MoveKeepsGates DEF Inductive, Ended
<1>7. \A q \in RunIds : status'[q] = IF q = r THEN "cancelled" ELSE status[q]
  BY <1>2, <1>3 DEF Inductive, TypeOK
<1>8. LiveOnlyByDecision'
  BY <1>1, <1>3, <1>7 DEF Inductive, LiveOnlyByDecision
<1> QED BY <1>4, <1>5, <1>6, <1>8 DEF Inductive

\* answer_gate only ever turns a gate that exists into an answered one.
LEMMA AnswerGateKeeps ==
  ASSUME Inductive, NEW g \in GateIds, NEW answer \in Answers, AnswerGate(g, answer)
  PROVE  Inductive'
<1>1. /\ gate[g].state # "none"
      /\ gate' = [gate EXCEPT ![g] = Answered(g, answer)]
      /\ cov' = cov /\ leadHouse' = leadHouse /\ status' = status /\ stages' = stages
      /\ overCap' = overCap /\ lock' = lock
      /\ type' = type /\ covOf' = covOf /\ params' = params
  BY DEF AnswerGate, covVars, runIds
<1>2. TypeOK'
  BY <1>1 DEF Inductive, TypeOK, Answered
<1>3. \A h \in GateIds :
        /\ gate'[h].run = gate[h].run /\ gate'[h].kind = gate[h].kind
        /\ gate'[h].state = IF h = g THEN "answered" ELSE gate[h].state
  BY <1>1 DEF Inductive, TypeOK, Answered
<1>4. GatePart'
  BY <1>1, <1>3 DEF Inductive, GatePart, GatesFitRuns
<1>5. LockPart' /\ LiveOnlyByDecision'
  BY <1>1 DEF Inductive, LockPart, LockHeld, LockNotLeaked, InFlight, Mutating,
              LiveOnlyByDecision
<1> QED BY <1>2, <1>4, <1>5 DEF Inductive

\* decide makes the coverage live and in the same step succeeds the
\* initiation run that the answered gate belongs to.
LEMMA DecideKeeps ==
  ASSUME Inductive, NEW c \in Coverages, NEW d \in Decisions, Decide(c, d)
  PROVE  Inductive'
<1>1. PICK g \in GateIds :
        /\ gate[g].state = "open"
        /\ covOf[gate[g].run] = c
        /\ d \in AllowedAnswers(g)
        /\ CovTransition(c, d)
        /\ gate' = [gate EXCEPT ![g] = Answered(g, d)]
        /\ FinishRun(gate[g].run, "succeed")
        /\ UNCHANGED <<leadHouse, runIds, stages, overCap>>
  BY DEF Decide
<1> DEFINE r == gate[g].run
<1>2. r \in RunIds
  BY <1>1 DEF Inductive, GatePart, GatesFitRuns
<1> HIDE DEF r
<1>3. PICK to \in CoverageStates :
        <<cov[c], d, to>> \in CoverageEntries /\ cov' = [cov EXCEPT ![c] = to]
  BY <1>1 DEF CovTransition
<1>4. PICK st \in RunStates :
        <<status[r], "succeed", st>> \in RunEntries /\ status' = [status EXCEPT ![r] = st]
  BY <1>1 DEF FinishRun, RunTransition, r
<1>5. st = "succeeded" /\ status[r] \in {"running", "waiting_pm"}
  BY <1>4, EndEntries
<1>6. type[r] = "initiation"
  BY <1>1 DEF Inductive, GatePart, AllowedAnswers, Decisions, r
<1>7. /\ type' = type /\ covOf' = covOf /\ params' = params /\ leadHouse' = leadHouse
      /\ stages' = stages /\ overCap' = overCap
  BY <1>1 DEF runIds
<1>8. \A q \in RunIds : status'[q] = IF q = r THEN "succeeded" ELSE status[q]
  BY <1>4, <1>5 DEF Inductive, TypeOK
<1>9. \A b \in Coverages : cov'[b] = IF b = c THEN to ELSE cov[b]
  BY <1>3 DEF Inductive, TypeOK
<1>10. \A h \in GateIds :
         /\ gate'[h].run = gate[h].run /\ gate'[h].kind = gate[h].kind
         /\ gate'[h].state = IF h = g THEN "answered" ELSE gate[h].state
  BY <1>1 DEF Inductive, TypeOK, Answered
<1>11. TypeOK'
  <2>1. status' \in [RunIds -> RunStates \cup {"none"}] /\ lock' \in [Coverages -> RunIds \cup {NoRun}]
    BY <1>1, <1>2, FinishKeepsTypes DEF Inductive, r
  <2> QED BY <1>1, <1>3, <1>7, <2>1 DEF Inductive, TypeOK, Answered
<1>12. LockPart'
  BY <1>1, <1>2, FinishKeepsLocks DEF Inductive, r
<1>13. GatePart'
  <2>1. \A h \in GateIds : gate[h].run = r => h = g
    BY <1>1 DEF Inductive, GatePart, GatesFitRuns, r
  <2>2. \A q \in RunIds : status'[q] = "waiting_pm" => status[q] = "waiting_pm"
    BY <1>8
  <2>3. GatesFitRuns'
    BY <1>1, <1>2, <1>8, <1>10, <2>1, <2>2 DEF Inductive, GatePart, GatesFitRuns
  <2> QED BY <1>7, <1>10, <2>3 DEF Inductive, GatePart
<1>14. LiveOnlyByDecision'
  <2> SUFFICES ASSUME NEW b \in Coverages, cov'[b] \in {"active", "watch"}
               PROVE  \E q \in RunIds : covOf'[q] = b /\ type'[q] = "initiation"
                                        /\ status'[q] = "succeeded"
    BY DEF LiveOnlyByDecision
  <2>1. CASE b = c
    BY <1>1, <1>2, <1>6, <1>7, <1>8, <2>1 DEF r
  <2>2. CASE b # c
    BY <1>7, <1>8, <1>9, <2>2 DEF Inductive, LiveOnlyByDecision
  <2> QED BY <2>1, <2>2
<1> QED BY <1>11, <1>12, <1>13, <1>14 DEF Inductive

\* promote_run takes the lock before it runs, and gives a coverage it starts
\* the lead of the run's params.
LEMMA PromoteRunKeeps ==
  ASSUME Inductive, NEW r \in RunIds, PromoteRun(r)
  PROVE  Inductive'
<1> DEFINE c == covOf[r]
<1>1. /\ status[r] = "queued" /\ status' = [status EXCEPT ![r] = "running"]
      /\ type' = type /\ covOf' = covOf /\ params' = params
      /\ overCap' = overCap /\ gate' = gate /\ AcquireLock(r)
      /\ stages' = [stages EXCEPT ![r] = IF @ = "new" THEN "pending" ELSE @]
  BY DEF PromoteRun, runIds
<1>2. c \in Coverages
  BY DEF Inductive, TypeOK
<1>3. \/ /\ type[r] = "initiation" /\ cov[c] = "proposed"
         /\ cov' = [cov EXCEPT ![c] = "initiating"]
         /\ leadHouse' = [leadHouse EXCEPT ![c] = LeadParam(r)]
      \/ cov' = cov /\ leadHouse' = leadHouse
  <2>1. CASE StartsInitiation(r)
    <3>1. PICK to \in CoverageStates :
            /\ <<cov[c], "start_initiation", to>> \in CoverageEntries
            /\ cov' = [cov EXCEPT ![c] = to]
      BY <2>1 DEF PromoteRun, CovTransition
    <3>2. to = "initiating"
      BY <3>1 DEF CoverageEntries
    <3> QED BY <2>1, <3>1, <3>2 DEF PromoteRun, StartsInitiation
  <2>2. CASE ~StartsInitiation(r)
    BY <2>2 DEF PromoteRun, covVars
  <2> QED BY <2>1, <2>2
<1>4. IF Mutating(r)
        THEN lock[c] \in {NoRun, r} /\ lock' = [lock EXCEPT ![c] = r]
        ELSE lock' = lock
  BY <1>1 DEF AcquireLock
<1> HIDE DEF c
<1>5. TypeOK'
  <2>1. cov' \in [Coverages -> CoverageStates \cup {"none"}]
    BY <1>2, <1>3 DEF Inductive, TypeOK, CoverageStates
  <2>2. leadHouse' \in [Coverages -> Houses \cup {NoHouse}]
    BY <1>2, <1>3 DEF Inductive, TypeOK, Params, LeadParam
  <2>3. lock' \in [Coverages -> RunIds \cup {NoRun}]
    BY <1>2, <1>4 DEF Inductive, TypeOK
  <2>4. stages' \in [RunIds -> StagePictures]
    BY <1>1 DEF Inductive, TypeOK, StagePictures
  <2> QED BY <1>1, <2>1, <2>2, <2>3, <2>4 DEF Inductive, TypeOK, RunStates
<1>6. \A q \in RunIds : status'[q] = IF q = r THEN "running" ELSE status[q]
  BY <1>1 DEF Inductive, TypeOK
<1>7. LockPart'
  <2>1. CASE Mutating(r)
    <3>1. \A b \in Coverages : lock'[b] = IF b = c THEN r ELSE lock[b]
      BY <1>4, <2>1 DEF Inductive, TypeOK
    <3>2. lock[c] \in {NoRun, r}
      BY <1>4, <2>1
    <3>3. ASSUME NEW q \in RunIds, q # r, InFlight(q), Mutating(q)
          PROVE  covOf[q] # c
      BY <3>2, <3>3, LifecycleAssumption DEF Inductive, LockPart, LockHeld
    <3>4. LockHeld'
      BY <1>1, <1>2, <1>6, <3>1, <3>3 DEF Inductive, LockPart, LockHeld, InFlight, Mutating, TypeOK, c
    <3>5. LockNotLeaked'
      BY <1>1, <1>2, <1>6, <2>1, <3>1 DEF Inductive, LockPart, LockNotLeaked, Mutating, TypeOK, c
    <3> QED BY <3>4, <3>5 DEF LockPart
  <2>2. CASE ~Mutating(r)
    <3>1. lock' = lock
      BY <1>4, <2>2
    <3>2. \A b \in Coverages : lock[b] # r
      BY <2>2, LifecycleAssumption DEF Inductive, LockPart, LockNotLeaked
    <3>3. LockHeld'
      BY <1>1, <1>6, <2>2, <3>1 DEF Inductive, LockPart, LockHeld, InFlight, Mutating
    <3>4. LockNotLeaked'
      BY <1>1, <1>6, <3>1, <3>2 DEF Inductive, LockPart, LockNotLeaked, Mutating, TypeOK
    <3> QED BY <3>3, <3>4 DEF LockPart
  <2> QED BY <2>1, <2>2
<1>8. GatePart'
  <2>1. "running" \in RunStates /\ status[r] \notin Ended
    BY <1>1 DEF RunStates, Ended
  <2> QED BY <1>1, <2>1, MoveKeepsGates DEF Inductive
<1>9. LiveOnlyByDecision'
  <2>1. \A b \in Coverages : cov'[b] \in {"active", "watch"} => cov[b] \in {"active", "watch"}
    BY <1>2, <1>3 DEF Inductive, TypeOK
  <2> QED BY <1>1, <1>6, <2>1 DEF Inductive, LiveOnlyByDecision
<1> QED BY <1>5, <1>7, <1>8, <1>9 DEF Inductive

\* Progress of the stages changes nothing the other tables depend on.
LEMMA StagesMoveKeeps ==
  ASSUME Inductive, NEW r \in RunIds, NEW to \in StagePictures, StagesMove(r, to)
  PROVE  Inductive'
<1>1. /\ stages' = [stages EXCEPT ![r] = to]
      /\ \E b \in BOOLEAN : overCap' = [overCap EXCEPT ![r] = overCap[r] \/ b]
      /\ cov' = cov /\ leadHouse' = leadHouse /\ status' = status /\ lock' = lock
      /\ gate' = gate /\ type' = type /\ covOf' = covOf /\ params' = params
  BY DEF StagesMove, covVars, runIds
<1>2. overCap' \in [RunIds -> BOOLEAN]
  BY <1>1 DEF Inductive, TypeOK
<1>3. TypeOK'
  BY <1>1, <1>2 DEF Inductive, TypeOK
<1>4. LockPart' /\ GatePart' /\ LiveOnlyByDecision'
  BY <1>1 DEF Inductive, LockPart, LockHeld, LockNotLeaked, InFlight, Mutating,
              GatePart, GatesFitRuns, LiveOnlyByDecision
<1> QED BY <1>3, <1>4 DEF Inductive

\* The four ways advance_run moves a run on.
LEMMA AdvanceRunKeeps ==
  ASSUME Inductive, NEW r \in RunIds, AdvanceRun(r)
  PROVE  Inductive'
<1> DEFINE c == covOf[r]
<1>1. /\ status[r] = "running" /\ type' = type /\ covOf' = covOf /\ params' = params
      /\ UNCHANGED runIds /\ stages' = stages /\ overCap' = overCap
  BY DEF AdvanceRun, runIds
<1>2. c \in Coverages
  BY DEF Inductive, TypeOK
<1>3. status[r] \notin Ended
  BY <1>1 DEF Ended
<1>4. ASSUME NEW st \in RunStates, status' = [status EXCEPT ![r] = st],
             NEW to \in CoverageStates, to \notin {"active", "watch", "initiating"},
             cov' = cov \/ cov' = [cov EXCEPT ![c] = to],
             to = "decision_pending" => cov[c] = "initiating",
             leadHouse' = leadHouse
      PROVE  /\ status' \in [RunIds -> RunStates \cup {"none"}]
             /\ cov' \in [Coverages -> CoverageStates \cup {"none"}]
             /\ LiveOnlyByDecision'
  <2>1. \A q \in RunIds \ {r} : status'[q] = status[q]
    BY <1>4 DEF Inductive, TypeOK
  <2>2. \A b \in Coverages : cov'[b] = cov[b] \/ (b = c /\ cov'[b] = to)
    BY <1>4 DEF Inductive, TypeOK
  <2>3. LiveOnlyByDecision'
    BY <1>1, <1>3, <1>4, <2>1, <2>2 DEF Inductive, LiveOnlyByDecision, Ended
  <2> QED BY <1>2, <1>4, <2>3 DEF Inductive, TypeOK
<1>5. CASE AdvanceFail(r)
  <2>1. PICK st \in RunStates :
          <<status[r], "fail", st>> \in RunEntries /\ status' = [status EXCEPT ![r] = st]
    BY <1>5 DEF AdvanceFail, FinishRun, RunTransition
  <2>2. st = "failed"
    BY <2>1, EndEntries
  <2>3. cov' = cov \/ cov' = [cov EXCEPT ![c] = "failed"]
    <3>1. ASSUME NEW to, <<cov[c], "initiation_failed", to>> \in CoverageEntries
          PROVE  to = "failed"
      BY <3>1 DEF CoverageEntries
    <3> QED BY <1>5, <3>1 DEF AdvanceFail, CovTransition
  <2>4. leadHouse' = leadHouse /\ gate' = gate /\ FinishRun(r, "fail")
    BY <1>5 DEF AdvanceFail
  <2>5. "failed" \in CoverageStates
    BY DEF CoverageStates
  <2>6. /\ status' \in [RunIds -> RunStates \cup {"none"}]
        /\ cov' \in [Coverages -> CoverageStates \cup {"none"}]
        /\ LiveOnlyByDecision'
    BY <1>4, <2>1, <2>3, <2>4, <2>5
  <2>7. TypeOK'
    BY <1>1, <2>4, <2>6, FinishKeepsTypes DEF Inductive, TypeOK
  <2>8. LockPart'
    BY <1>1, <2>4, FinishKeepsLocks DEF Inductive
  <2>9. GatePart'
    BY <1>1, <1>3, <2>1, <2>2, <2>4, MoveKeepsGates DEF Inductive
  <2> QED BY <2>6, <2>7, <2>8, <2>9 DEF Inductive
<1>6. CASE AdvanceRequeue(r)
  <2>1. PICK st \in RunStates :
          <<status[r], "requeue", st>> \in RunEntries /\ status' = [status EXCEPT ![r] = st]
    BY <1>6 DEF AdvanceRequeue, RunTransition
  <2>2. st = "queued"
    BY <2>1 DEF RunEntries
  <2>3. cov' = cov /\ leadHouse' = leadHouse /\ lock' = lock /\ gate' = gate
    BY <1>6 DEF AdvanceRequeue, covVars
  <2>4. "failed" \in CoverageStates
    BY DEF CoverageStates
  <2>5. /\ status' \in [RunIds -> RunStates \cup {"none"}] /\ LiveOnlyByDecision'
    BY <1>4, <2>1, <2>3, <2>4
  <2>6. TypeOK'
    BY <1>1, <2>3, <2>5 DEF Inductive, TypeOK
  <2>7. LockPart'
    BY <1>1, <2>1, <2>2, <2>3, MoveKeepsLocks DEF Inductive
  <2>8. GatePart'
    BY <1>1, <1>3, <2>1, <2>2, <2>3, MoveKeepsGates DEF Inductive
  <2> QED BY <2>5, <2>6, <2>7, <2>8 DEF Inductive
<1>7. ASSUME NEW kind \in {"budget_cap", "initiation_decision"},
             kind = "initiation_decision" => type[r] = "initiation",
             OpenGate(r, kind), RunTransition(r, "open_gate"),
             \/ cov' = cov
             \/ cov[c] = "initiating" /\ cov' = [cov EXCEPT ![c] = "decision_pending"],
             leadHouse' = leadHouse, lock' = lock
      PROVE  Inductive'
  <2>1. PICK st \in RunStates :
          <<status[r], "open_gate", st>> \in RunEntries /\ status' = [status EXCEPT ![r] = st]
    BY <1>7 DEF RunTransition
  <2>2. st = "waiting_pm"
    BY <2>1 DEF RunEntries
  <2>3. /\ status' \in [RunIds -> RunStates \cup {"none"}]
        /\ cov' \in [Coverages -> CoverageStates \cup {"none"}]
        /\ LiveOnlyByDecision'
    <3>1. "failed" \in CoverageStates /\ "decision_pending" \in CoverageStates
      BY DEF CoverageStates
    <3>2. CASE cov' = cov
      BY <1>4, <1>7, <2>1, <3>1, <3>2
    <3>3. CASE cov[c] = "initiating" /\ cov' = [cov EXCEPT ![c] = "decision_pending"]
      BY <1>4, <1>7, <2>1, <3>1, <3>3
    <3> QED BY <1>7, <3>2, <3>3
  <2>4. GatePart' /\ gate' \in [GateIds ->
           [state : {"none", "open", "answered", "cancelled"}, run : RunIds \cup {NoRun},
            kind : {"none", "budget_cap", "initiation_decision"},
            answer : Answers \cup Decisions \cup {"none"}]]
    BY <1>1, <1>7, <2>1, <2>2, OpenKeepsGates DEF Inductive
  <2>5. TypeOK'
    BY <1>1, <1>7, <2>3, <2>4 DEF Inductive, TypeOK
  <2>6. LockPart'
    BY <1>1, <1>7, <2>1, <2>2, MoveKeepsLocks DEF Inductive
  <2> QED BY <2>3, <2>4, <2>5, <2>6 DEF Inductive
<1>8. CASE AdvancePause(r)
  BY <1>7, <1>8 DEF AdvancePause, covVars
<1>9. CASE AdvanceFinalize(r) /\ type[r] = "initiation"
  <2>1. PICK to \in CoverageStates :
          /\ <<cov[c], "initiation_delivered", to>> \in CoverageEntries
          /\ cov' = [cov EXCEPT ![c] = to]
    BY <1>9 DEF AdvanceFinalize, CovTransition
  <2>2. cov[c] = "initiating" /\ to = "decision_pending"
    BY <2>1 DEF CoverageEntries
  <2> QED BY <1>7, <1>9, <2>1, <2>2 DEF AdvanceFinalize
<1>10. CASE AdvanceFinalize(r) /\ type[r] # "initiation"
  <2>1. PICK st \in RunStates :
          <<status[r], "succeed", st>> \in RunEntries /\ status' = [status EXCEPT ![r] = st]
    BY <1>10 DEF AdvanceFinalize, FinishRun, RunTransition
  <2>2. st = "succeeded"
    BY <2>1, EndEntries
  <2>3. cov' = cov /\ leadHouse' = leadHouse /\ gate' = gate /\ FinishRun(r, "succeed")
    BY <1>10 DEF AdvanceFinalize, covVars
  <2>4. "failed" \in CoverageStates
    BY DEF CoverageStates
  <2>5. /\ status' \in [RunIds -> RunStates \cup {"none"}] /\ LiveOnlyByDecision'
    BY <1>4, <2>1, <2>3, <2>4
  <2>6. TypeOK'
    BY <1>1, <2>3, <2>5, FinishKeepsTypes DEF Inductive, TypeOK
  <2>7. LockPart'
    BY <1>1, <2>3, FinishKeepsLocks DEF Inductive
  <2>8. GatePart'
    BY <1>1, <1>3, <2>1, <2>2, <2>3, MoveKeepsGates DEF Inductive
  <2> QED BY <2>5, <2>6, <2>7, <2>8 DEF Inductive
<1> QED BY <1>5, <1>6, <1>8, <1>9, <1>10 DEF AdvanceRun

-----------------------------------------------------------------------------
(***************************************************************************)
(* The theorems.                                                           *)
(***************************************************************************)

\* The empty database satisfies the invariant.
LEMMA InitInductive == Init => Inductive
<1> SUFFICES ASSUME Init PROVE Inductive
  OBVIOUS
<1>1. (CHOOSE c \in Coverages : TRUE) \in Coverages
  BY LifecycleAssumption
<1>2. TypeOK
  BY <1>1 DEF Init, TypeOK, AllTypes, StagePictures, NoGate, Params
<1>3. LockPart /\ GatePart /\ LiveOnlyByDecision
  BY DEF Init, NoGate, LockPart, LockHeld, LockNotLeaked, InFlight, GatePart, GatesFitRuns,
         LiveOnlyByDecision
<1> QED BY <1>2, <1>3 DEF Inductive

\* Every route and every step of the orchestrator keeps the invariant.
LEMMA NextInductive == Inductive /\ [Next]_vars => Inductive'
<1> SUFFICES ASSUME Inductive, [Next]_vars PROVE Inductive'
  OBVIOUS
<1>1. CASE UNCHANGED vars
  BY <1>1 DEF vars, Inductive, TypeOK, LockPart, LockHeld, LockNotLeaked, InFlight, Mutating,
              GatePart, GatesFitRuns, LiveOnlyByDecision
<1>2. ASSUME NEW c \in Coverages,
             Propose(c) \/ Promote(c) \/ Demote(c) \/ Exit(c) \/ RePropose(c)
      PROVE  Inductive'
  BY <1>2, CoverageRoutesKeep DEF Propose, Promote, Demote, Exit, RePropose
<1>3. ASSUME NEW c \in Coverages, NEW h \in Houses, SetLead(c, h)
      PROVE  Inductive'
  BY <1>3, CoverageRoutesKeep DEF SetLead
<1>4. ASSUME NEW r \in RunIds, NewRun(r)
      PROVE  Inductive'
  BY <1>4, CreateRunKeeps, LifecycleAssumption DEF NewRun
<1>5. ASSUME NEW r \in RunIds, NEW old \in RunIds, RetryRun(old, r)
      PROVE  Inductive'
  <2>1. type[old] \in AllTypes /\ covOf[old] \in Coverages /\ params[old] \in Params
    BY DEF Inductive, TypeOK
  <2> QED BY <1>5, <2>1, CreateRunKeeps DEF RetryRun
<1>6. CASE PmStep
  BY <1>2, <1>3, <1>4, <1>5, <1>6, DecideKeeps, CancelRunKeeps, AnswerGateKeeps DEF PmStep
<1>7. CASE \E r \in RunIds : PromoteRun(r) \/ AdvanceRun(r) \/ Progress(r)
  BY <1>7, PromoteRunKeeps, AdvanceRunKeeps, StagesMoveKeeps DEF Progress
<1> QED BY <1>1, <1>6, <1>7 DEF Next

\* The invariant all the results below follow from holds in every state.
THEOREM InductiveInvariant == Spec => []Inductive
  BY InitInductive, NextInductive, PTL DEF Spec

\* Every variable keeps its type.
THEOREM TypeCorrect == Spec => []TypeOK
<1>1. Inductive => TypeOK
  BY DEF Inductive
<1> QED BY <1>1, InductiveInvariant, PTL

\* With each call committed by itself, a mutating run that runs or waits for the
\* PM holds its ticker's lock (start_run, requeue_run and finish_run together).
THEOREM LocksAreHeld == Spec => []LockHeld
<1>1. Inductive => LockHeld
  BY DEF Inductive, LockPart
<1> QED BY <1>1, InductiveInvariant, PTL

\* With each call committed by itself, two mutating runs never work on the same
\* ticker at once (start_run).
THEOREM DossiersAreSerialized == Spec => []OneMutatingRun
<1>1. Inductive => OneMutatingRun
  BY DEF Inductive, LockPart, LockHeld, OneMutatingRun
<1> QED BY <1>1, InductiveInvariant, PTL

\* finish_run leaves no lock behind: with each engine call committed by itself,
\* every lock row has a live owner.
THEOREM LocksAreReleased == Spec => []LockNotLeaked
<1>1. Inductive => LockNotLeaked
  BY DEF Inductive, LockPart
<1> QED BY <1>1, InductiveInvariant, PTL

\* A run opens at most one gate and waits only at one; only a waiting or a
\* cancelled run has it open.
THEOREM GatesAreConsistent == Spec => []GatesFitRuns
<1>1. Inductive => GatesFitRuns
  BY DEF Inductive, GatePart
<1> QED BY <1>1, InductiveInvariant, PTL

\* No ticker goes live without a succeeded initiation of its own.
THEOREM LiveMeansDecided == Spec => []LiveOnlyByDecision
<1>1. Inductive => LiveOnlyByDecision
  BY DEF Inductive
<1> QED BY <1>1, InductiveInvariant, PTL

=============================================================================
