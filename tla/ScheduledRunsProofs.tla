------------------------ MODULE ScheduledRunsProofs ------------------------
(***************************************************************************)
(* Proofs about ScheduledRuns for any number of processes, connections,    *)
(* jobs, coverages and periods: the advisory lock lets one sweep work at a *)
(* time, and with it the trigger_ref gives one run per coverage and period.*)
(* A sweep's account of the coverages it found then says what a log row    *)
(* that reports success stands for.  Last, the plans create_run makes.     *)
(***************************************************************************)
EXTENDS ScheduledRuns, PlannerProofs

LeadsOK == lead \in Leads

\* A coverage's lead is a house or missing.
LEMMA LeadsHold == Spec => []LeadsOK
<1>1. Init => LeadsOK
  BY SchedulerAssumption DEF Init, LeadsOK, Leads
<1>2. LeadsOK /\ [Next]_vars => LeadsOK'
  <2> SUFFICES ASSUME LeadsOK, [Next]_vars PROVE LeadsOK'
    OBVIOUS
  <2>1. ASSUME NEW c \in Desk, PmMoves(c) PROVE LeadsOK'
    BY <2>1 DEF PmMoves, LeadsOK, Leads
  <2>2. ASSUME lead' = lead PROVE LeadsOK'
    BY <2>2 DEF LeadsOK, Leads
  <2>3. ASSUME NEW p \in Procs, NEW j \in Jobs, JobStep(p, j) PROVE lead' = lead
    BY <2>3 DEF JobStep, FireJob, FirePendingSpec, SweepSkips, SweepCreates, JobCommits, JobFails,
                covVars
  <2>4. ASSUME \/ \E p \in Procs : ProcessDies(p)
               \/ NextPeriod
               \/ UNCHANGED vars
        PROVE  lead' = lead
    BY <2>4 DEF ProcessDies, NextPeriod, vars, covVars
  <2>5. ASSUME NEW c, NEW type, NEW h, NEW n, PmCreates(c, type, h, n)
        PROVE  lead' = lead
    BY <2>5 DEF PmCreates, covVars
  <2> QED BY <2>1, <2>2, <2>3, <2>4, <2>5 DEF Next, Pm
<1> QED BY <1>1, <1>2, PTL DEF Spec

\* The tables the argument is about.
RowsOK ==
  /\ period \in Periods
  /\ leader \in Conns \cup {NoConn}
  /\ firing \in [Firings -> FiringRows]
  /\ count \in [Refs -> Nat]

\* Whoever works does so on the connection that holds the lock, out of the pool
\* of its own process.
WorksAsLeader ==
  \A f \in Firings : firing[f].conn # NoConn =>
    firing[f].conn = leader /\ leader \in Pool[f[1]]

\* What a sweep has inserted is in no committed run yet.
MadeIsNew ==
  \A f \in Firings : \A c \in firing[f].made :
    /\ firing[f].conn # NoConn
    /\ count[<<c, f[2], firing[f].at>>] = 0

\* A firing without a connection has nothing to do.
IdleRests == \A f \in Firings : firing[f].conn = NoConn => firing[f].todo = {}

Alone == \A f, g \in Firings : firing[f].conn # NoConn /\ firing[g].conn # NoConn => f = g

AtMostOnce == \A ref \in Refs : count[ref] <= 1

IInv == RowsOK /\ WorksAsLeader /\ Alone /\ MadeIsNew /\ IdleRests /\ AtMostOnce

\* A firing that gets the lock finds no other sweep at work.
LEMMA LockExcludes ==
  ASSUME IInv, NEW p \in Procs, NEW k \in FreeConns(p), TryLock(k)
  PROVE  \A f \in Firings : firing[f].conn = NoConn
<1> SUFFICES ASSUME NEW f \in Firings, firing[f].conn # NoConn PROVE FALSE
  OBVIOUS
<1>1. firing[f].conn = leader /\ leader \in Pool[f[1]]
  BY DEF IInv, WorksAsLeader
<1>2. leader = k /\ k \in Pool[p]
  BY <1>1 DEF TryLock, FreeConns
<1>3. f[1] \in Procs /\ f[2] \in Jobs /\ f = <<f[1], f[2]>>
  BY DEF Firings
<1>4. f[1] = p
  BY <1>1, <1>2, <1>3, SchedulerAssumption
<1>5. firing[<<p, f[2]>>].conn # k
  BY <1>3 DEF FreeConns
<1> QED BY <1>1, <1>2, <1>3, <1>4, <1>5

LEMMA InitIInv == Init => IInv
<1> SUFFICES ASSUME Init PROVE IInv
  OBVIOUS
<1>1. 1 \in Periods
  BY SchedulerAssumption DEF Periods
<1>2. Idle \in FiringRows
  BY <1>1 DEF Idle, FiringRows, Leads
<1>3. RowsOK
  BY <1>1, <1>2 DEF Init, RowsOK
<1>4. \A f \in Firings : firing[f].conn = NoConn /\ firing[f].made = {} /\ firing[f].todo = {}
  BY DEF Init, Idle
<1>5. AtMostOnce
  BY DEF Init, AtMostOnce
<1> QED BY <1>3, <1>4, <1>5 DEF IInv, WorksAsLeader, Alone, MadeIsNew, IdleRests

\* Steps of a sweep that leave its connection and the runs alone.
LEMMA FireStep ==
  ASSUME IInv, LeadsOK, NEW p \in Procs, NEW j \in Jobs, NEW k \in Conns, FireJob(p, j, k)
  PROVE  IInv'
<1> DEFINE new == Fired(k, j)
<1>0. <<p, j>> \in Firings
  BY DEF Firings
<1>1. \A f \in Firings : firing[f].conn = NoConn
  BY LockExcludes DEF FireJob
<1>2. k \in Pool[p] /\ leader' = k /\ UNCHANGED <<period, count>>
  BY DEF FireJob, FreeConns, runVars
<1>3. Loaded(j) \in SUBSET Coverages
  BY DEF Loaded, FireJob, Sweeps
<1>4. new \in FiringRows
  BY <1>3 DEF Fired, FiringRows, Leads, LeadsOK, IInv, RowsOK
<1>5. firing' = [firing EXCEPT ![<<p, j>>] = new]
  BY DEF FireJob
<1> HIDE DEF new
<1>6. firing' \in [Firings -> FiringRows]
  BY <1>4, <1>5 DEF IInv, RowsOK
<1>7. RowsOK'
  BY <1>2, <1>6 DEF IInv, RowsOK, Refs, Firings, FiringRows
<1>8. \A f \in Firings : f # <<p, j>> => firing'[f] = firing[f]
  BY <1>5 DEF IInv, RowsOK
<1>9. firing'[<<p, j>>] = new /\ new.conn = k /\ new.made = {}
  BY <1>0, <1>5 DEF IInv, RowsOK, new, Fired
<1>10. WorksAsLeader' /\ Alone'
  BY <1>1, <1>2, <1>8, <1>9 DEF WorksAsLeader, Alone
<1>11. MadeIsNew'
  BY <1>1, <1>2, <1>8, <1>9 DEF IInv, MadeIsNew
<1>12. AtMostOnce'
  BY <1>2 DEF IInv, AtMostOnce
<1>13. k # NoConn
  BY SchedulerAssumption DEF Conns
<1>14. IdleRests'
  BY <1>8, <1>9, <1>13 DEF IInv, IdleRests
<1> QED BY <1>7, <1>10, <1>11, <1>12, <1>14 DEF IInv

\* SweepSkips and SweepCreates: one coverage of one sweep.
LEMMA SweepStep ==
  ASSUME IInv, NEW p \in Procs, NEW j \in Jobs, NEW c \in Coverages, NEW new \in SUBSET {c},
         c \in firing[<<p, j>>].todo,
         new = {} \/ ~RefTaken(c, j, firing[<<p, j>>].at),
         firing[<<p, j>>].conn # NoConn,
         firing' = [firing EXCEPT ![<<p, j>>] = Done(firing[<<p, j>>], c, new)],
         UNCHANGED <<period, leader, count>>
  PROVE  IInv'
<1> DEFINE old == firing[<<p, j>>]
<1>0. <<p, j>> \in Firings /\ old \in FiringRows
  BY DEF Firings, IInv, RowsOK
<1>1. Done(old, c, new) \in FiringRows
  BY <1>0 DEF Done, FiringRows
<1>2. firing' \in [Firings -> FiringRows]
  BY <1>1 DEF IInv, RowsOK
<1>3. RowsOK'
  BY <1>2 DEF IInv, RowsOK, Refs, Firings, FiringRows
<1>4. \A f \in Firings : f # <<p, j>> => firing'[f] = firing[f]
  BY DEF IInv, RowsOK
<1>5. firing'[<<p, j>>] = Done(old, c, new)
  BY <1>0 DEF IInv, RowsOK
<1>6. /\ firing'[<<p, j>>].conn = old.conn
      /\ firing'[<<p, j>>].at = old.at
      /\ firing'[<<p, j>>].made = old.made \cup new
  BY <1>5 DEF Done
<1>7. WorksAsLeader' /\ Alone'
  BY <1>0, <1>4, <1>6 DEF IInv, WorksAsLeader, Alone
<1>8. old.at \in Periods /\ <<c, j, old.at>> \in Refs
  BY <1>0 DEF FiringRows, Refs
<1>9. new # {} => count[<<c, j, old.at>>] = 0
  BY <1>8 DEF RefTaken, IInv, RowsOK
<1>10. ASSUME NEW f \in Firings, NEW d \in firing'[f].made
       PROVE  firing'[f].conn # NoConn /\ count'[<<d, f[2], firing'[f].at>>] = 0
  <2>1. CASE f # <<p, j>>
    BY <1>10, <2>1, <1>4 DEF IInv, MadeIsNew
  <2>2. CASE f = <<p, j>>
    <3>1. d \in old.made \/ (d = c /\ new # {})
      BY <1>10, <2>2, <1>6
    <3>2. f[2] = j
      BY <2>2
    <3>3. CASE d \in old.made
      BY <1>0, <1>6, <2>2, <3>3 DEF IInv, MadeIsNew
    <3>4. CASE d = c /\ new # {}
      BY <1>6, <1>9, <2>2, <3>2, <3>4
    <3> QED BY <3>1, <3>3, <3>4
  <2> QED BY <2>1, <2>2
<1>11. MadeIsNew'
  BY <1>10 DEF MadeIsNew
<1>12. AtMostOnce'
  BY DEF IInv, AtMostOnce
<1>13. IdleRests'
  BY <1>4, <1>6 DEF IInv, IdleRests
<1> QED BY <1>3, <1>7, <1>11, <1>12, <1>13 DEF IInv

\* Firings end, by commit, failure or death, and the runs stay.
LEMMA EndStep ==
  ASSUME IInv, NEW gone \in SUBSET Firings,
         firing' = [f \in Firings |-> IF f \in gone THEN Idle ELSE firing[f]],
         leader' = leader \/ (leader' = NoConn /\ \A f \in Firings \ gone : firing[f].conn = NoConn),
         UNCHANGED <<period, count>>
  PROVE  IInv'
<1>1. 1 \in Periods
  BY SchedulerAssumption DEF Periods
<1>2. Idle \in FiringRows /\ Idle.conn = NoConn /\ Idle.made = {} /\ Idle.todo = {}
  BY <1>1 DEF Idle, FiringRows, Leads
<1>3. firing' \in [Firings -> FiringRows]
  BY <1>2 DEF IInv, RowsOK
<1>4. RowsOK'
  BY <1>3 DEF IInv, RowsOK, Refs, Firings, FiringRows
<1>5. \A f \in Firings : (f \in gone /\ firing'[f] = Idle) \/ (f \notin gone /\ firing'[f] = firing[f])
  OBVIOUS
<1>6. WorksAsLeader' /\ Alone'
  BY <1>2, <1>5 DEF IInv, WorksAsLeader, Alone
<1>7. MadeIsNew'
  BY <1>2, <1>5 DEF IInv, MadeIsNew
<1>8. AtMostOnce'
  BY DEF IInv, AtMostOnce
<1>9. IdleRests'
  BY <1>2, <1>5 DEF IInv, IdleRests
<1> QED BY <1>4, <1>6, <1>7, <1>8, <1>9 DEF IInv

LEMMA CommitStep ==
  ASSUME IInv, NEW p \in Procs, NEW j \in Jobs, JobCommits(p, j)
  PROVE  IInv'
<1> DEFINE old == firing[<<p, j>>]
<1>0. <<p, j>> \in Firings /\ old \in FiringRows /\ old.conn # NoConn
  BY DEF Firings, IInv, RowsOK, JobCommits, Working
<1>1. 1 \in Periods
  BY SchedulerAssumption DEF Periods
<1>2. Idle \in FiringRows /\ Idle.conn = NoConn /\ Idle.made = {} /\ Idle.todo = {}
  BY <1>1 DEF Idle, FiringRows, Leads
<1>3. firing' = [firing EXCEPT ![<<p, j>>] = Idle] /\ UNCHANGED <<period, leader>>
  BY DEF JobCommits
<1>4. \A f \in Firings : firing'[f].conn = NoConn /\ firing'[f].made = {} /\ firing'[f].todo = {}
  <2> SUFFICES ASSUME NEW f \in Firings PROVE firing'[f].conn = NoConn /\ firing'[f].made = {} /\ firing'[f].todo = {}
    OBVIOUS
  <2>1. CASE f = <<p, j>>
    BY <2>1, <1>2, <1>3 DEF IInv, RowsOK
  <2>2. CASE f # <<p, j>>
    <3>1. firing'[f] = firing[f]
      BY <2>2, <1>3 DEF IInv, RowsOK
    <3>2. firing[f].conn = NoConn
      BY <2>2, <1>0 DEF IInv, Alone
    <3>3. firing[f].made = {}
      BY <3>2 DEF IInv, MadeIsNew
    <3>4. firing[f].todo = {}
      BY <3>2 DEF IInv, IdleRests
    <3> QED BY <3>1, <3>2, <3>3, <3>4
  <2> QED BY <2>1, <2>2
<1>5. count' = [ref \in Refs |->
         IF ref[1] \in old.made /\ ref[2] = j /\ ref[3] = old.at
           THEN count[ref] + 1 ELSE count[ref]]
  BY DEF JobCommits
<1>6. count' \in [Refs -> Nat]
  BY <1>5 DEF IInv, RowsOK
<1>7. firing' \in [Firings -> FiringRows]
  BY <1>2, <1>3 DEF IInv, RowsOK
<1>8. RowsOK'
  BY <1>3, <1>6, <1>7 DEF IInv, RowsOK, Refs, Firings, FiringRows
<1>9. ASSUME NEW ref \in Refs PROVE count'[ref] <= 1
  <2>1. ref = <<ref[1], ref[2], ref[3]>>
    BY DEF Refs
  <2>2. CASE ref[1] \in old.made /\ ref[2] = j /\ ref[3] = old.at
    <3>1. count[<<ref[1], j, old.at>>] = 0
      BY <2>2, <1>0 DEF IInv, MadeIsNew
    <3>2. count[ref] = 0
      BY <2>1, <2>2, <3>1
    <3>3. count'[ref] = count[ref] + 1
      BY <1>5, <2>2
    <3> QED BY <3>2, <3>3
  <2>3. CASE ~(ref[1] \in old.made /\ ref[2] = j /\ ref[3] = old.at)
    BY <2>3, <1>5 DEF IInv, AtMostOnce
  <2> QED BY <2>2, <2>3
<1>10. AtMostOnce'
  BY <1>9 DEF AtMostOnce
<1> QED BY <1>4, <1>8, <1>10 DEF IInv, WorksAsLeader, Alone, MadeIsNew, IdleRests

LEMMA SkipStep ==
  ASSUME IInv, UNCHANGED <<leader, firing, count>>, period' \in Periods
  PROVE  IInv'
BY DEF IInv, RowsOK, WorksAsLeader, Alone, MadeIsNew, IdleRests, AtMostOnce, Refs, Firings, FiringRows

\* Every step of the scheduler and of the PM preserves the invariant.
LEMMA NextIInv == IInv /\ LeadsOK /\ [Next]_vars => IInv'
<1> SUFFICES ASSUME IInv, LeadsOK, [Next]_vars PROVE IInv'
  OBVIOUS
<1>0. period \in Periods
  BY DEF IInv, RowsOK
<1>1. ASSUME NEW p \in Procs, NEW j \in Jobs, JobStep(p, j) PROVE IInv'
  <2>0. <<p, j>> \in Firings
    BY DEF Firings
  <2>1. ASSUME NEW k \in Conns, FireJob(p, j, k) PROVE IInv'
    BY <2>1, FireStep
  <2>2. CASE FirePendingSpec(p, j)
    BY <2>2, <1>0, SkipStep DEF FirePendingSpec, runVars
  <2>3. ASSUME NEW c \in Coverages, SweepSkips(p, j, c) \/ SweepCreates(p, j, c) PROVE IInv'
    <3>1. c \in firing[<<p, j>>].todo /\ UNCHANGED <<period, leader, count>>
      BY <2>3 DEF SweepSkips, SweepCreates, runVars
    <3>2. firing[<<p, j>>].conn # NoConn
      BY <2>0, <3>1 DEF IInv, IdleRests
    <3>3. CASE SweepSkips(p, j, c)
      <4>1. firing' = [firing EXCEPT ![<<p, j>>] = Done(firing[<<p, j>>], c, {})]
        BY <3>3 DEF SweepSkips
      <4>2. {} \in SUBSET {c}
        OBVIOUS
      <4> QED BY <3>1, <3>2, <4>1, <4>2, SweepStep
    <3>4. CASE SweepCreates(p, j, c)
      <4>1. firing' = [firing EXCEPT ![<<p, j>>] = Done(firing[<<p, j>>], c, {c})]
        BY <3>4 DEF SweepCreates
      <4>2. {c} \in SUBSET {c}
        OBVIOUS
      <4>3. ~RefTaken(c, j, firing[<<p, j>>].at)
        BY <3>4 DEF SweepCreates, NothingDue, HasRun
      <4> QED BY <3>1, <3>2, <4>1, <4>2, <4>3, SweepStep
    <3> QED BY <2>3, <3>3, <3>4
  <2>4. CASE JobCommits(p, j)
    BY <2>4, CommitStep
  <2>5. CASE JobFails(p, j)
    <3>1. {<<p, j>>} \in SUBSET Firings
      BY <2>0
    <3>2. firing' = [f \in Firings |-> IF f \in {<<p, j>>} THEN Idle ELSE firing[f]]
      BY <2>5 DEF JobFails, IInv, RowsOK
    <3>3. leader' = leader /\ UNCHANGED <<period, count>>
      BY <2>5 DEF JobFails, runVars
    <3> QED BY <3>1, <3>2, <3>3, EndStep
  <2> QED BY <1>1, <2>1, <2>2, <2>3, <2>4, <2>5 DEF JobStep
<1>2. ASSUME NEW p \in Procs, ProcessDies(p) PROVE IInv'
  <2> DEFINE gone == {f \in Firings : f[1] = p}
  <2>1. firing' = [f \in Firings |-> IF f \in gone THEN Idle ELSE firing[f]]
    BY <1>2 DEF ProcessDies
  <2>2. UNCHANGED <<period, count>>
    BY <1>2 DEF ProcessDies, runVars
  <2>3. ASSUME leader \in Pool[p], NEW f \in Firings \ gone PROVE firing[f].conn = NoConn
    <3>1. f[1] \in Procs /\ f[1] # p
      BY <2>3 DEF Firings
    <3>2. leader \notin Pool[f[1]]
      BY <2>3, <3>1, SchedulerAssumption
    <3> QED BY <3>2 DEF IInv, WorksAsLeader
  <2>4. leader' = leader \/ (leader' = NoConn /\ \A f \in Firings \ gone : firing[f].conn = NoConn)
    BY <1>2, <2>3 DEF ProcessDies
  <2>5. gone \in SUBSET Firings
    OBVIOUS
  <2> HIDE DEF gone
  <2> QED BY <2>1, <2>2, <2>4, <2>5, EndStep
<1>3. CASE NextPeriod
  <2>1. period' \in Periods
    BY <1>0, <1>3, SchedulerAssumption DEF NextPeriod, Periods
  <2> QED BY <1>3, <2>1, SkipStep DEF NextPeriod, runVars
<1>4. CASE Pm
  BY <1>0, <1>4, SkipStep DEF Pm, PmMoves, PmCreates, runVars
<1>5. CASE UNCHANGED vars
  BY <1>0, <1>5, SkipStep DEF vars
<1> QED BY <1>1, <1>2, <1>3, <1>4, <1>5 DEF Next

\* The inductive invariant holds in every reachable state.
THEOREM IInvHolds == Spec => []IInv
<1> QED BY InitIInv, NextIInv, LeadsHold, PTL DEF Spec

\* For any number of processes, pools and jobs, and wherever a process dies, the
\* advisory lock (leader.py) lets one sweep work at a time.
THEOREM SweepsExclude == Spec => []OneSweepAtATime
<1>1. IInv => OneSweepAtATime
  <2> SUFFICES ASSUME IInv, NEW p \in Procs, NEW q \in Procs, NEW i \in Jobs, NEW j \in Jobs,
                      Working(p, i), Working(q, j)
               PROVE  p = q /\ i = j
    BY DEF OneSweepAtATime
  <2>1. <<p, i>> \in Firings /\ <<q, j>> \in Firings
    BY DEF Firings
  <2>2. <<p, i>> = <<q, j>>
    BY <2>1 DEF IInv, Alone, Working
  <2> QED BY <2>2
<1> QED BY <1>1, IInvHolds, PTL

\* For any number of processes, coverages and periods, a coverage gets at most one
\* run of a job in a period: the lookup of jobs.py and the unique index on the
\* trigger_ref, under the lock.
THEOREM RunsAreUnique == Spec => []OneRunPerPeriod
<1>1. IInv => OneRunPerPeriod
  BY DEF IInv, AtMostOnce, OneRunPerPeriod, Refs
<1> QED BY <1>1, IInvHolds, PTL

-----------------------------------------------------------------------------
(***************************************************************************)
(* What a sweep has done: for each coverage it found and is through with,  *)
(* it has inserted a run, or there was one, or there is a recent review.   *)
(***************************************************************************)

\* The tables the first part leaves open; a review is not from the future.
TablesOK ==
  /\ state \in [Coverages -> CoverageKinds]
  /\ lead \in [Coverages -> Houses \cup {NoHouse}]
  /\ reviewed \in [Coverages -> 0 .. LastPeriod]
  /\ log \in SUBSET [job : Jobs, status : {"succeeded", "skipped", "failed"},
                     found : SUBSET Coverages, at : Periods]

NotAhead ==
  /\ \A c \in Coverages : reviewed[c] <= period
  /\ \A f \in Firings : firing[f].at <= period

Accounted(f, c) ==
  \/ c \in firing[f].made
  \/ RefTaken(c, f[2], firing[f].at)
  \/ f[2] = "quarterly_sweep" /\ RecentReview(c, firing[f].at)

SweepsKeepAccount ==
  \A f \in Firings : firing[f].conn # NoConn =>
    \A c \in firing[f].found \ firing[f].todo : Accounted(f, c)

WorkInv == TablesOK /\ NotAhead /\ SweepsKeepAccount /\ SuccessMeansWork

\* No step takes back a run or a review.
LEMMA RunsStay ==
  ASSUME IInv, TablesOK, NotAhead, [Next]_vars
  PROVE  /\ reviewed' \in [Coverages -> 0 .. LastPeriod]
         /\ \A c \in Coverages : reviewed'[c] >= reviewed[c] /\ reviewed'[c] <= period
         /\ \A ref \in Refs : count'[ref] >= count[ref]
<1>1. /\ reviewed \in [Coverages -> 0 .. LastPeriod]
      /\ count \in [Refs -> Nat]
      /\ period \in 1 .. LastPeriod
      /\ LastPeriod \in Nat
  BY SchedulerAssumption DEF TablesOK, IInv, RowsOK, Periods
<1>2. CASE UNCHANGED <<count, reviewed>>
  BY <1>1, <1>2 DEF NotAhead
<1>3. ASSUME NEW p \in Procs, NEW j \in Jobs, JobCommits(p, j)
      PROVE  /\ reviewed' \in [Coverages -> 0 .. LastPeriod]
             /\ \A c \in Coverages : reviewed'[c] >= reviewed[c] /\ reviewed'[c] <= period
             /\ \A ref \in Refs : count'[ref] >= count[ref]
  <2> DEFINE f == firing[<<p, j>>]
  <2>1. f.at \in 1 .. period
    <3>1. <<p, j>> \in Firings /\ f \in FiringRows
      BY DEF Firings, IInv, RowsOK
    <3>2. f.at \in 1 .. LastPeriod /\ f.at <= period
      BY <3>1 DEF FiringRows, NotAhead, Periods
    <3> HIDE DEF f
    <3> QED BY <1>1, <3>2
  <2>2. /\ count' = [ref \in Refs |->
              IF ref[1] \in f.made /\ ref[2] = j /\ ref[3] = f.at
                THEN count[ref] + 1 ELSE count[ref]]
        /\ reviewed' = [c \in Coverages |->
              IF j = "quarterly_sweep" /\ c \in f.made /\ f.at > reviewed[c]
                THEN f.at ELSE reviewed[c]]
    BY <1>3 DEF JobCommits
  <2> HIDE DEF f
  <2>3. \A c \in Coverages : reviewed[c] \in 0 .. LastPeriod /\ reviewed[c] <= period
    BY <1>1 DEF NotAhead
  <2>4. \A c \in Coverages : /\ reviewed'[c] \in 0 .. LastPeriod
                             /\ reviewed'[c] >= reviewed[c] /\ reviewed'[c] <= period
    BY <1>1, <2>1, <2>2, <2>3
  <2>5. \A ref \in Refs : count'[ref] >= count[ref]
    BY <1>1, <2>2
  <2> QED BY <2>2, <2>4, <2>5
<1>4. ASSUME NEW c \in Coverages, NEW type, NEW h, NEW n, PmCreates(c, type, h, n)
      PROVE  /\ reviewed' \in [Coverages -> 0 .. LastPeriod]
             /\ \A d \in Coverages : reviewed'[d] >= reviewed[d] /\ reviewed'[d] <= period
             /\ count' = count
  <2>1. /\ reviewed' = [reviewed EXCEPT ![c] = IF type = "deep_review" THEN period ELSE reviewed[c]]
        /\ count' = count
    BY <1>4 DEF PmCreates
  <2>2. \A d \in Coverages : reviewed[d] \in 0 .. LastPeriod /\ reviewed[d] <= period
    BY <1>1 DEF NotAhead
  <2> QED BY <1>1, <2>1, <2>2
<1>5. ASSUME NEW p \in Procs, NEW j \in Jobs, JobStep(p, j), ~JobCommits(p, j)
      PROVE  UNCHANGED <<count, reviewed>>
  BY <1>5 DEF JobStep, FireJob, FirePendingSpec, SweepSkips, SweepCreates, JobFails, runVars
<1>6. ASSUME \/ \E p \in Procs : ProcessDies(p)
             \/ NextPeriod
             \/ \E c \in Desk : PmMoves(c)
             \/ UNCHANGED vars
      PROVE  UNCHANGED <<count, reviewed>>
  BY <1>6 DEF ProcessDies, NextPeriod, PmMoves, runVars, vars
<1>7. Desk \subseteq Coverages
  BY SchedulerAssumption
<1> QED BY <1>1, <1>2, <1>3, <1>4, <1>5, <1>6, <1>7 DEF Next, Pm

\* How a firing changes in a step: it begins with everything to do, is through
\* with one coverage, ends, or stays.
LEMMA FiringMoves ==
  ASSUME IInv, [Next]_vars, NEW f \in Firings
  PROVE  \/ firing'[f] = firing[f]
         \/ firing'[f].conn = NoConn
         \/ firing'[f].todo = firing'[f].found
         \/ \E c \in firing[f].todo, new \in SUBSET Coverages :
              /\ firing'[f] = Done(firing[f], c, new)
              /\ c \in new \/ NothingDue(c, f[2], firing[f].at)
<1>1. firing \in [Firings -> FiringRows]
  BY DEF IInv, RowsOK
<1>2. Idle.conn = NoConn
  BY DEF Idle
<1>3. ASSUME NEW p \in Procs, NEW j \in Jobs, NEW x,
             firing' = [firing EXCEPT ![<<p, j>>] = x]
      PROVE  firing'[f] = firing[f] \/ (f = <<p, j>> /\ firing'[f] = x)
  BY <1>1, <1>3
<1>4. ASSUME NEW p \in Procs, NEW j \in Jobs, NEW k \in Conns, FireJob(p, j, k)
      PROVE  firing'[f] = firing[f] \/ firing'[f].todo = firing'[f].found
  <2> DEFINE new == Fired(k, j)
  <2>1. firing' = [firing EXCEPT ![<<p, j>>] = new]
    BY <1>4 DEF FireJob
  <2>2. new.todo = new.found
    BY DEF Fired
  <2> HIDE DEF new
  <2> QED BY <1>3, <2>1, <2>2
<1>5. ASSUME NEW p \in Procs, NEW j \in Jobs, NEW c \in Coverages,
             SweepSkips(p, j, c) \/ SweepCreates(p, j, c)
      PROVE  \/ firing'[f] = firing[f]
             \/ \E d \in firing[f].todo, new \in SUBSET Coverages :
                  /\ firing'[f] = Done(firing[f], d, new)
                  /\ d \in new \/ NothingDue(d, f[2], firing[f].at)
  <2>1. PICK new \in SUBSET Coverages :
          /\ c \in firing[<<p, j>>].todo
          /\ firing' = [firing EXCEPT ![<<p, j>>] = Done(firing[<<p, j>>], c, new)]
          /\ c \in new \/ NothingDue(c, j, firing[<<p, j>>].at)
    <3>1. CASE SweepSkips(p, j, c)
      <4> WITNESS {} \in SUBSET Coverages
      <4> QED BY <3>1 DEF SweepSkips
    <3>2. CASE SweepCreates(p, j, c)
      <4> WITNESS {c} \in SUBSET Coverages
      <4> QED BY <3>2 DEF SweepCreates
    <3> QED BY <1>5, <3>1, <3>2
  <2>2. firing'[f] = firing[f] \/ (f = <<p, j>> /\ firing'[f] = Done(firing[<<p, j>>], c, new))
    BY <1>3, <2>1
  <2> QED BY <2>1, <2>2
<1>6. ASSUME NEW p \in Procs, NEW j \in Jobs, JobCommits(p, j) \/ JobFails(p, j)
      PROVE  firing'[f] = firing[f] \/ firing'[f].conn = NoConn
  <2>1. firing' = [firing EXCEPT ![<<p, j>>] = Idle]
    BY <1>6 DEF JobCommits, JobFails
  <2> QED BY <1>2, <1>3, <2>1
<1>7. ASSUME NEW p \in Procs, ProcessDies(p)
      PROVE  firing'[f] = firing[f] \/ firing'[f].conn = NoConn
  BY <1>2, <1>7 DEF ProcessDies
<1>8. ASSUME \/ \E p \in Procs, j \in Jobs : FirePendingSpec(p, j)
             \/ NextPeriod
             \/ Pm
             \/ UNCHANGED vars
      PROVE  firing' = firing
  BY <1>8 DEF FirePendingSpec, NextPeriod, Pm, PmCreates, PmMoves, vars
<1> QED BY <1>4, <1>5, <1>6, <1>7, <1>8 DEF Next, JobStep

\* Which steps write to the log of the jobs.
LEMMA LogMoves ==
  ASSUME [Next]_vars
  PROVE  \/ log' = {}
         \/ UNCHANGED vars
         \/ \E p \in Procs, j \in Jobs : JobCommits(p, j) \/ JobFails(p, j) \/ FirePendingSpec(p, j)
<1>1. ASSUME NEW p \in Procs, NEW j \in Jobs, NEW k \in Conns, FireJob(p, j, k) PROVE log' = {}
  BY <1>1 DEF FireJob
<1>2. ASSUME NEW p \in Procs, NEW j \in Jobs, NEW c \in Coverages,
             SweepSkips(p, j, c) \/ SweepCreates(p, j, c)
      PROVE  log' = {}
  BY <1>2 DEF SweepSkips, SweepCreates
<1>3. (\E p \in Procs : ProcessDies(p)) \/ NextPeriod => log' = {}
  BY DEF ProcessDies, NextPeriod
<1>4. Pm => log' = {}
  BY DEF Pm, PmMoves, PmCreates
<1> QED BY <1>1, <1>2, <1>3, <1>4 DEF Next, JobStep

LEMMA TablesStep ==
  ASSUME IInv, IInv', TablesOK, NotAhead, [Next]_vars
  PROVE  TablesOK' /\ NotAhead'
<1>1. /\ reviewed' \in [Coverages -> 0 .. LastPeriod]
      /\ \A c \in Coverages : reviewed'[c] >= reviewed[c] /\ reviewed'[c] <= period
  BY RunsStay
<1>2. period \in Periods /\ period' \in Periods /\ firing \in [Firings -> FiringRows]
  BY DEF IInv, RowsOK
<1>3. period' = period \/ period' = period + 1
  <2>1. ASSUME NEW p \in Procs, NEW j \in Jobs, JobStep(p, j)
        PROVE  period' = period
    BY <2>1 DEF JobStep, FireJob, FirePendingSpec, SweepSkips, SweepCreates, JobCommits, JobFails
  <2>2. ASSUME (\E p \in Procs : ProcessDies(p)) \/ Pm \/ UNCHANGED vars
        PROVE  period' = period
    BY <2>2 DEF ProcessDies, Pm, PmMoves, PmCreates, vars
  <2>3. NextPeriod => period' = period + 1
    BY DEF NextPeriod
  <2> QED BY <2>1, <2>2, <2>3 DEF Next
<1>4. period \in Nat /\ period' \in Nat /\ period' >= period
  BY <1>2, <1>3, SchedulerAssumption DEF Periods
<1>5. \A c \in Coverages : reviewed'[c] <= period'
  BY <1>1, <1>4, SchedulerAssumption
<1>6. \A f \in Firings : firing'[f].at <= period'
  <2> SUFFICES ASSUME NEW f \in Firings PROVE firing'[f].at <= period'
    OBVIOUS
  <2>1. firing[f].at \in Periods /\ firing[f].at <= period
    BY <1>2 DEF NotAhead, FiringRows
  <2>2. firing[f].at <= period'
    BY <1>4, <2>1, SchedulerAssumption DEF Periods
  <2>3. 1 <= period'
    BY <1>2, <1>4 DEF Periods
  <2>4. firing'[f].at = firing[f].at \/ firing'[f].at = 1 \/ (firing'[f].at = period /\ period' = period)
    <3>1. ASSUME NEW p \in Procs, NEW j \in Jobs, NEW x,
                 firing' = [firing EXCEPT ![<<p, j>>] = x]
          PROVE  firing'[f] = firing[f] \/ (f = <<p, j>> /\ firing'[f] = x)
      BY <1>2, <3>1
    <3>2. Idle.at = 1
      BY DEF Idle
    <3>3. ASSUME NEW p \in Procs, NEW j \in Jobs, NEW k \in Conns, FireJob(p, j, k)
          PROVE  firing'[f].at = firing[f].at \/ (firing'[f].at = period /\ period' = period)
      <4> DEFINE new == Fired(k, j)
      <4>1. firing' = [firing EXCEPT ![<<p, j>>] = new] /\ period' = period
        BY <3>3 DEF FireJob
      <4>2. new.at = period
        BY DEF Fired
      <4> HIDE DEF new
      <4> QED BY <3>1, <4>1, <4>2
    <3>4. ASSUME NEW p \in Procs, NEW j \in Jobs, NEW c \in Coverages,
                 SweepSkips(p, j, c) \/ SweepCreates(p, j, c)
          PROVE  firing'[f].at = firing[f].at
      <4>1. \E new : firing' = [firing EXCEPT ![<<p, j>>] = Done(firing[<<p, j>>], c, new)]
        BY <3>4 DEF SweepSkips, SweepCreates
      <4>2. \A new : Done(firing[<<p, j>>], c, new).at = firing[<<p, j>>].at
        BY DEF Done
      <4> QED BY <3>1, <4>1, <4>2
    <3>5. ASSUME NEW p \in Procs, NEW j \in Jobs, JobCommits(p, j) \/ JobFails(p, j)
          PROVE  firing'[f].at = firing[f].at \/ firing'[f].at = 1
      <4>1. firing' = [firing EXCEPT ![<<p, j>>] = Idle]
        BY <3>5 DEF JobCommits, JobFails
      <4> QED BY <3>1, <3>2, <4>1
    <3>6. ASSUME NEW p \in Procs, ProcessDies(p)
          PROVE  firing'[f].at = firing[f].at \/ firing'[f].at = 1
      BY <3>2, <3>6 DEF ProcessDies
    <3>7. ASSUME \/ \E p \in Procs, j \in Jobs : FirePendingSpec(p, j)
                 \/ NextPeriod
                 \/ Pm
                 \/ UNCHANGED vars
          PROVE  firing' = firing
      BY <3>7 DEF FirePendingSpec, NextPeriod, Pm, PmCreates, PmMoves, vars
    <3> QED BY <3>3, <3>4, <3>5, <3>6, <3>7 DEF Next, JobStep
  <2> QED BY <2>2, <2>3, <2>4, <1>4
<1>7. state' \in [Coverages -> CoverageKinds] /\ lead' \in [Coverages -> Houses \cup {NoHouse}]
  <2>1. CASE UNCHANGED covVars
    BY <2>1 DEF covVars, TablesOK
  <2>2. ASSUME NEW c \in Desk, PmMoves(c)
        PROVE  state' \in [Coverages -> CoverageKinds] /\ lead' \in [Coverages -> Houses \cup {NoHouse}]
    BY <2>2, SchedulerAssumption DEF PmMoves, TablesOK
  <2>3. ASSUME NEW p \in Procs, NEW j \in Jobs, JobStep(p, j)
        PROVE  UNCHANGED covVars
    BY <2>3 DEF JobStep, FireJob, FirePendingSpec, SweepSkips, SweepCreates, JobCommits, JobFails
  <2>4. ASSUME \/ \E p \in Procs : ProcessDies(p)
               \/ NextPeriod
               \/ UNCHANGED vars
        PROVE  UNCHANGED covVars
    BY <2>4 DEF ProcessDies, NextPeriod, vars, covVars
  <2>5. ASSUME NEW c, NEW type, NEW h, NEW n, PmCreates(c, type, h, n)
        PROVE  UNCHANGED covVars
    BY <2>5 DEF PmCreates
  <2> QED BY <2>1, <2>2, <2>3, <2>4, <2>5 DEF Next, Pm
<1>8. log' \in SUBSET [job : Jobs, status : {"succeeded", "skipped", "failed"},
                       found : SUBSET Coverages, at : Periods]
  <2>1. ASSUME NEW p \in Procs, NEW j \in Jobs, JobCommits(p, j)
        PROVE  log' \in SUBSET [job : Jobs, status : {"succeeded", "skipped", "failed"},
                                found : SUBSET Coverages, at : Periods]
    <3>1. firing[<<p, j>>] \in FiringRows
      BY <1>2 DEF Firings
    <3> QED BY <2>1, <3>1 DEF JobCommits, LogRow, FiringRows
  <2>2. ASSUME NEW p \in Procs, NEW j \in Jobs, JobFails(p, j) \/ FirePendingSpec(p, j)
        PROVE  log' \in SUBSET [job : Jobs, status : {"succeeded", "skipped", "failed"},
                                found : SUBSET Coverages, at : Periods]
    BY <1>2, <2>2 DEF JobFails, FirePendingSpec, LogRow
  <2>3. CASE log' = {} \/ UNCHANGED vars
    BY <2>3 DEF vars, TablesOK
  <2> QED BY <2>1, <2>2, <2>3, LogMoves
<1> QED BY <1>1, <1>5, <1>6, <1>7, <1>8 DEF TablesOK, NotAhead

\* What is accounted for stays so: runs and reviews are not taken back.
LEMMA AccountStep ==
  ASSUME IInv, IInv', TablesOK, NotAhead, SweepsKeepAccount, [Next]_vars
  PROVE  SweepsKeepAccount'
<1>1. /\ \A c \in Coverages : reviewed'[c] >= reviewed[c] /\ reviewed'[c] \in Int
      /\ \A ref \in Refs : count'[ref] >= count[ref]
      /\ count \in [Refs -> Nat] /\ count' \in [Refs -> Nat]
      /\ reviewed \in [Coverages -> 0 .. LastPeriod]
      /\ LastPeriod \in Nat
      /\ firing \in [Firings -> FiringRows]
  BY RunsStay, SchedulerAssumption DEF IInv, RowsOK, TablesOK
<1>2. ASSUME NEW f \in Firings, NEW c \in Coverages, RefTaken(c, f[2], firing[f].at)
      PROVE  RefTaken(c, f[2], firing[f].at)'
             \/ firing'[f].at # firing[f].at
  <2>1. <<c, f[2], firing[f].at>> \in Refs
    BY <1>1 DEF Refs, Firings, FiringRows
  <2> QED BY <1>1, <1>2, <2>1 DEF RefTaken
<1>3. ASSUME NEW f \in Firings, NEW c \in Coverages, RecentReview(c, firing[f].at)
      PROVE  RecentReview(c, firing[f].at)' \/ firing'[f].at # firing[f].at
  <2>1. firing[f].at \in Int /\ StalePeriods \in Int /\ reviewed[c] \in Int
    BY <1>1, SchedulerAssumption DEF FiringRows, Periods
  <2> QED BY <1>1, <1>3, <2>1 DEF RecentReview
<1>4. ASSUME NEW f \in Firings, firing'[f].conn # NoConn,
             NEW c \in firing'[f].found \ firing'[f].todo
      PROVE  Accounted(f, c)'
  <2>1. firing'[f].todo # firing'[f].found
    BY <1>4
  <2>2. CASE firing'[f] = firing[f]
    <3>1. Accounted(f, c) /\ c \in Coverages
      BY <1>1, <1>4, <2>2 DEF SweepsKeepAccount, FiringRows
    <3> QED BY <1>2, <1>3, <2>2, <3>1 DEF Accounted
  <2>3. ASSUME NEW d \in firing[f].todo, NEW new \in SUBSET Coverages,
               firing'[f] = Done(firing[f], d, new),
               d \in new \/ NothingDue(d, f[2], firing[f].at)
        PROVE  Accounted(f, c)'
    <3>1. /\ firing'[f].conn = firing[f].conn /\ firing'[f].found = firing[f].found
          /\ firing'[f].todo = firing[f].todo \ {d}
          /\ firing'[f].made = firing[f].made \cup new
          /\ firing'[f].at = firing[f].at
      BY <2>3 DEF Done
    <3>2. c \in Coverages
      BY <1>1, <1>4, <3>1 DEF FiringRows
    <3>3. CASE c = d
      BY <1>2, <1>3, <2>3, <3>1, <3>2, <3>3 DEF Accounted, NothingDue, HasRun
    <3>4. CASE c # d
      <4>1. Accounted(f, c)
        BY <1>4, <3>1, <3>4 DEF SweepsKeepAccount
      <4> QED BY <1>2, <1>3, <3>1, <3>2, <4>1 DEF Accounted
    <3> QED BY <3>3, <3>4
  <2> QED BY <1>4, <2>1, <2>2, <2>3, FiringMoves
<1> QED BY <1>4 DEF SweepsKeepAccount

\* The commit of a sweep that is through makes its account true.
LEMMA SuccessStep ==
  ASSUME IInv, IInv', TablesOK, NotAhead, SweepsKeepAccount, SuccessMeansWork, [Next]_vars
  PROVE  SuccessMeansWork'
<1>1. ASSUME NEW p \in Procs, NEW j \in Jobs, JobCommits(p, j)
      PROVE  SuccessMeansWork'
  <2> DEFINE f == firing[<<p, j>>]
  <2>1. <<p, j>> \in Firings /\ f \in FiringRows /\ f.conn # NoConn /\ f.todo = {}
    BY <1>1 DEF JobCommits, Working, Firings, IInv, RowsOK
  <2>2. log' = {[job |-> j, status |-> "succeeded", found |-> f.found, at |-> f.at]}
    BY <1>1 DEF JobCommits, LogRow
  <2>3. count' = [ref \in Refs |->
          IF ref[1] \in f.made /\ ref[2] = j /\ ref[3] = f.at THEN count[ref] + 1 ELSE count[ref]]
    BY <1>1 DEF JobCommits
  <2>4. ASSUME NEW c \in f.found
        PROVE  \/ count'[<<c, j, f.at>>] = 1
               \/ /\ j = "quarterly_sweep"
                  /\ reviewed'[c] > 0 /\ reviewed'[c] + StalePeriods > f.at
    <3>1. /\ c \in Coverages /\ f.at \in Periods
          /\ <<c, j, f.at>> \in Refs /\ count[<<c, j, f.at>>] \in Nat
          /\ count[<<c, j, f.at>>] <= 1
      BY <2>1, <2>4 DEF FiringRows, Refs, IInv, RowsOK, AtMostOnce
    <3>2. \/ c \in f.made
          \/ RefTaken(c, j, f.at)
          \/ j = "quarterly_sweep" /\ RecentReview(c, f.at)
      BY <2>1, <2>4 DEF SweepsKeepAccount, Accounted
    <3>3. c \in f.made => count[<<c, j, f.at>>] = 0
      BY <2>1 DEF IInv, MadeIsNew
    <3> HIDE DEF f
    <3>4. CASE c \in f.made
      BY <2>3, <3>1, <3>3, <3>4
    <3>5. CASE c \notin f.made /\ RefTaken(c, j, f.at)
      BY <2>3, <3>1, <3>5 DEF RefTaken
    <3>6. CASE j = "quarterly_sweep" /\ RecentReview(c, f.at)
      <4>1. reviewed'[c] >= reviewed[c] /\ reviewed[c] \in Int /\ reviewed'[c] \in Int
        BY <3>1, RunsStay, SchedulerAssumption DEF TablesOK
      <4>2. f.at \in Int /\ StalePeriods \in Int
        BY <3>1, SchedulerAssumption DEF Periods
      <4> QED BY <3>6, <4>1, <4>2 DEF RecentReview
    <3> QED BY <3>2, <3>4, <3>5, <3>6
  <2> HIDE DEF f
  <2> QED BY <2>2, <2>4 DEF SuccessMeansWork, RecentReview
<1>2. ASSUME \A row \in log' : row.status # "succeeded"
      PROVE  SuccessMeansWork'
  BY <1>2 DEF SuccessMeansWork
<1>3. CASE UNCHANGED vars
  <2>1. log' = log /\ count' = count /\ reviewed' = reviewed
    BY <1>3 DEF vars
  <2> QED BY <2>1 DEF SuccessMeansWork, RecentReview
<1>4. ASSUME NEW p \in Procs, NEW j \in Jobs, JobFails(p, j) \/ FirePendingSpec(p, j)
      PROVE  \A row \in log' : row.status # "succeeded"
  BY <1>4 DEF JobFails, FirePendingSpec, LogRow
<1>5. ASSUME log' = {}
      PROVE  \A row \in log' : row.status # "succeeded"
  BY <1>5
<1> QED BY <1>1, <1>2, <1>3, <1>4, <1>5, LogMoves

LEMMA InitWork == Init => WorkInv
<1> SUFFICES ASSUME Init PROVE WorkInv
  OBVIOUS
<1>1. TablesOK
  BY SchedulerAssumption DEF Init, TablesOK
<1>2. NotAhead
  BY DEF Init, NotAhead, Idle
<1>3. SweepsKeepAccount /\ SuccessMeansWork
  BY DEF Init, SweepsKeepAccount, SuccessMeansWork, Idle
<1> QED BY <1>1, <1>2, <1>3 DEF WorkInv

\* The account holds in every reachable state.
THEOREM WorkIsAccounted == Spec => []WorkInv
<1>1. IInv /\ IInv' /\ WorkInv /\ [Next]_vars => WorkInv'
  BY TablesStep, AccountStep, SuccessStep DEF WorkInv
<1> QED BY <1>1, InitWork, IInvHolds, PTL DEF Spec

\* A job whose success is logged has left no coverage it found without its run of
\* the period, or without a recent review, whatever failed or died before
\* (the jobs' lookups, and run_job's one transaction).
THEOREM SuccessIsWork == Spec => []SuccessMeansWork
<1>1. WorkInv => SuccessMeansWork
  BY DEF WorkInv
<1> QED BY <1>1, WorkIsAccounted, PTL

-----------------------------------------------------------------------------
(***************************************************************************)
(* The runs that are created.                                              *)
(***************************************************************************)

PlansOK == newest.plan \in Seq(Stages) /\ PlansAreSound

\* create_run plans a run that it does not refuse: for a scheduled one only a
\* missing house is looked for, for a PM's one also the meta houses.
LEMMA CreatedPlan ==
  ASSUME NEW c \in Coverages, NEW type \in RunTypes, NEW runLead \in Houses \cup {NoHouse},
         NEW covLead, NEW n \in Int,
         NEW plan, plan = PlanFor(c, type, runLead, covLead, n), ~MissingHouse(plan)
  PROVE  /\ plan \in Seq(Stages)
         /\ WellPlanned(type, plan, n)
         /\ ChosenByPm(plan, covLead, Explicit[c])
<1>1. Explicit[c] \in SUBSET Houses /\ IncludeDataChecker \in BOOLEAN
  BY SchedulerAssumption
<1>2. /\ plan \in Seq(PlanRows)
      /\ WellPlanned(type, plan, n)
      /\ ChosenByPm(plan, covLead, Explicit[c])
  BY <1>1, SoundPlan DEF PlanFor
<1>3. \A i \in DOMAIN plan : plan[i].house # NoHouse
  BY DEF MissingHouse
<1>4. /\ Len(plan) \in Nat /\ DOMAIN plan = 1 .. Len(plan)
      /\ plan = [i \in 1 .. Len(plan) |-> plan[i]]
      /\ \A i \in 1 .. Len(plan) : plan[i] \in PlanRows
  BY <1>2
<1>5. \A i \in 1 .. Len(plan) : plan[i] \in Stages
  BY <1>3, <1>4 DEF PlanRows, Stages, PlanRoles
<1>6. plan \in Seq(Stages)
  BY <1>4, <1>5
<1> QED BY <1>2, <1>6

\* What the planner promises of a plan is what the properties ask of the newest run.
LEMMA NewestIsSound ==
  ASSUME NEW c \in Coverages, NEW type \in RunTypes, NEW by \in Jobs \cup {"pm"},
         NEW runLead, NEW covLead, NEW asked \in BOOLEAN, NEW wanted, NEW plan \in Seq(Stages),
         NEW n \in Int,
         Newest(c, type, by, runLead, asked, wanted, plan),
         WellPlanned(type, plan, n), type = "initiation" => wanted = n,
         ChosenByPm(plan, covLead, Explicit[c]),
         ~asked => runLead = covLead,
         by = "pm" => \A i \in DOMAIN plan :
                        Checked(plan[i].role) => plan[i].house \notin MetaHouses
  PROVE  PlansOK'
<1>1. /\ newest'.plan = plan /\ newest'.by = by /\ newest'.type = type /\ newest'.cov = c
      /\ newest'.lead = runLead /\ newest'.asked = asked /\ newest'.wanted = wanted
  BY DEF Newest
<1>2. {i \in DOMAIN newest'.plan : newest'.plan[i].role = "verifier"} = Checks(plan)
  BY <1>1 DEF Checks
<1>3. PlanIsSound'
  BY <1>1, <1>2 DEF PlanIsSound, RolesAt, WellPlanned
<1>4. HousesOf("verifier")' = {plan[i].house : i \in Checks(plan)}
  BY <1>1 DEF HousesOf, Checks
<1>5. by = "pm" => (HousesOf("author") \cup HousesOf("verifier"))' \cap MetaHouses = {}
  BY <1>1 DEF HousesOf, Checked
<1>6. \A h \in HousesOf("verifier")' : h \in MetaHouses \cup {covLead} => h \in Explicit[c]
  BY <1>4 DEF ChosenByPm
<1>7. AnalystsOnly'
  BY <1>1, <1>5, <1>6 DEF AnalystsOnly
<1>8. VerifiedByOthers'
  BY <1>1, <1>6 DEF VerifiedByOthers
<1> QED BY <1>1, <1>3, <1>7, <1>8 DEF PlansOK, PlansAreSound

LEMMA PlanStep ==
  ASSUME IInv, TablesOK, PlansOK, [Next]_vars
  PROVE  PlansOK'
<1>1. ASSUME newest' = NoRunYet PROVE PlansOK'
  <2>1. "none" \notin Jobs /\ "none" \notin RunTypes
    BY SchedulerAssumption DEF Sweeps, PendingSpec, RunTypes
  <2> QED BY <1>1, <2>1
        DEF PlansOK, PlansAreSound, PlanIsSound, AnalystsOnly, VerifiedByOthers, NoRunYet
<1>2. CASE newest' = newest
  BY <1>2 DEF PlansOK, PlansAreSound, PlanIsSound, AnalystsOnly, VerifiedByOthers, HousesOf,
              RolesAt
<1>3. "pm" \notin Jobs
  BY SchedulerAssumption DEF Sweeps, PendingSpec
<1>4. ASSUME NEW p \in Procs, NEW j \in Jobs, NEW c \in Coverages, SweepCreates(p, j, c)
      PROVE  PlansOK'
  <2> DEFINE seen == firing[<<p, j>>].leads[c]
             plan == PlanFor(c, JobType(j), seen, seen, 0)
  <2>1. ~MissingHouse(plan) /\ Newest(c, JobType(j), j, seen, FALSE, 0, plan)
    BY <1>4 DEF SweepCreates, SchedulerPlan
  <2>2. seen \in Houses \cup {NoHouse}
    BY DEF IInv, RowsOK, Firings, FiringRows, Leads
  <2>3. JobType(j) \in RunTypes /\ JobType(j) # "initiation" /\ 0 \in Int
    BY DEF JobType, RunTypes
  <2> HIDE DEF seen
  <2>4. /\ plan \in Seq(Stages) /\ WellPlanned(JobType(j), plan, 0)
        /\ ChosenByPm(plan, seen, Explicit[c])
    BY <2>1, <2>2, <2>3, CreatedPlan
  <2> HIDE DEF plan
  <2>5. ChosenByPm(plan, seen, Explicit[c]) /\ (~FALSE => seen = seen) /\ FALSE \in BOOLEAN
    BY <2>4
  <2>6. j \in Jobs \cup {"pm"} /\ j # "pm"
    BY <1>3
  <2> QED BY <2>1, <2>3, <2>4, <2>5, <2>6, NewestIsSound
<1>5. ASSUME NEW c \in Desk, NEW type \in PmTypes, NEW h \in Houses \cup {NoHouse},
             NEW n \in VerifyCounts, PmCreates(c, type, h, n)
      PROVE  PlansOK'
  <2> DEFINE runLead == IF h # NoHouse THEN h ELSE lead[c]
             plan == PlanFor(c, type, runLead, lead[c], n)
             wanted == IF type = "initiation" THEN n ELSE 0
             asked == h # NoHouse
  <2>1. ~PlanRefused(plan) /\ Newest(c, type, "pm", runLead, asked, wanted, plan)
    BY <1>5 DEF PmCreates
  <2>2. c \in Coverages /\ type \in RunTypes /\ n \in Int /\ runLead \in Houses \cup {NoHouse}
    BY SchedulerAssumption DEF TablesOK
  <2>3. /\ ~MissingHouse(plan)
        /\ \A i \in DOMAIN plan : Checked(plan[i].role) => plan[i].house \notin MetaHouses
    BY <2>1 DEF PlanRefused, MissingHouse
  <2>4. (~asked => runLead = lead[c]) /\ (type = "initiation" => wanted = n) /\ asked \in BOOLEAN
    OBVIOUS
  <2> HIDE DEF runLead
  <2>5. /\ plan \in Seq(Stages) /\ WellPlanned(type, plan, n)
        /\ ChosenByPm(plan, lead[c], Explicit[c])
    BY <2>2, <2>3, CreatedPlan
  <2> HIDE DEF plan, wanted, asked
  <2> QED BY <2>1, <2>2, <2>3, <2>4, <2>5, NewestIsSound
<1>6. ASSUME NEW p \in Procs, NEW j \in Jobs, JobStep(p, j)
      PROVE  PlansOK'
  BY <1>1, <1>4, <1>6
    DEF JobStep, FireJob, FirePendingSpec, SweepSkips, JobCommits, JobFails
<1>7. ASSUME \/ \E p \in Procs : ProcessDies(p)
             \/ NextPeriod
             \/ \E c \in Desk : PmMoves(c)
      PROVE  newest' = NoRunYet
  BY <1>7 DEF ProcessDies, NextPeriod, PmMoves
<1>8. UNCHANGED vars => newest' = newest
  BY DEF vars
<1> QED BY <1>1, <1>2, <1>5, <1>6, <1>7, <1>8 DEF Next, Pm

LEMMA InitPlans == Init => PlansOK
<1>1. "none" \notin Jobs /\ "none" \notin RunTypes
  BY SchedulerAssumption DEF Sweeps, PendingSpec, RunTypes
<1> QED BY <1>1 DEF Init, PlansOK, PlansAreSound, PlanIsSound, AnalystsOnly, VerifiedByOthers,
                    NoRunYet

LEMMA PlansHold == Spec => []PlansOK
<1>1. IInv /\ WorkInv /\ PlansOK /\ [Next]_vars => PlansOK'
  BY PlanStep DEF WorkInv
<1> QED BY <1>1, InitPlans, IInvHolds, WorkIsAccounted, PTL DEF Spec

\* For any houses, overrides, leads and verify_count, and whoever becomes lead while
\* a sweep is at work: verifiers are asked once and no more than wanted, and the
\* coverage's own lead, or for the scheduler a meta house, verifies only where the
\* PM's override names it (plan_stages, resolve_contributors, pick_verifiers).
THEOREM CreatedPlansAreSound == Spec => []PlansAreSound
<1>1. PlansOK => PlansAreSound
  BY DEF PlansOK
<1> QED BY <1>1, PlansHold, PTL

\* The tables of the scheduler, its firings and the plans it makes have their
\* types.
THEOREM TypeCorrect == Spec => []TypeOK
<1>1. IInv /\ WorkInv /\ PlansOK => TypeOK
  BY DEF IInv, RowsOK, WorkInv, TablesOK, PlansOK, TypeOK, Leads
<1> QED BY <1>1, IInvHolds, WorkIsAccounted, PlansHold, PTL
=============================================================================
