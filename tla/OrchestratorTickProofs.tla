----------------------- MODULE OrchestratorTickProofs -----------------------
(***************************************************************************)
(* Proofs about OrchestratorTick, for any number of runs, coverages,       *)
(* prices, cancel requests and crashes.                                    *)
(*                                                                         *)
(* The tables exist twice, as the tick sees them and as they are           *)
(* committed, and a tick may end by giving either copy to the other.  So   *)
(* every part of the invariant is stated of both (Sound), and what is left *)
(* to say is how they differ while workers write to both and the tick to   *)
(* one: a result that is committed is the same in the tick's copy, though  *)
(* its stage may since have failed, and a lock row that a cancel request   *)
(* has deleted and not committed is the run's in both.                     *)
(***************************************************************************)
EXTENDS OrchestratorTick, TLAPS

\* A running run owns the lock row of its coverage.
RunningHoldsLock(T) == \A r \in Runs : T.status[r] = "running" => T.lock[CovOf[r]] = r

\* The rows create_run planned are never gone.
KeepsPlan(T) ==
  \A r \in Runs :
    /\ T.stage[r].author # "absent"
    /\ TypeOf[r] = "initiation" => T.stage[r].finalizer # "absent"

Sound(T) ==
  /\ RunningHoldsLock(T)
  /\ KeepsPlan(T)
  /\ ChecksMaterialChanges(T)
  /\ HasNoRepeats(T)
  /\ LedgerFitsStages(T)
  /\ EarnsSuccess(T)

\* The tick's copy keeps an author's result that is committed.
CommittedResultsStay ==
  \A r \in Runs : HasResult(committed.stage[r].author) =>
    HasResult(stage[r].author) /\ target[r] = committed.target[r]

\* A cancel request that holds a lock row has its own run's.
HoldersOwnLock ==
  \A r \in Runs : cancel[r] = "holding" =>
    lock[CovOf[r]] = r /\ committed.lock[CovOf[r]] = r

IInv ==
  /\ TypeOK
  /\ Sound(Tables)
  /\ Sound(committed)
  /\ CommittedResultsStay
  /\ HoldersOwnLock

-----------------------------------------------------------------------------
(***************************************************************************)
(* Two ways in which the tables change and stay sound.                     *)
(***************************************************************************)

\* An entry of a ledger is a prediction of some run.
LEMMA LedgerEntries ==
  ASSUME NEW T \in TableTypes, NEW c \in Coverages
  PROVE  /\ Len(T.ledger[c]) \in Nat
         /\ DOMAIN T.ledger[c] = 1 .. Len(T.ledger[c])
         /\ \A i \in DOMAIN T.ledger[c] :
              T.ledger[c][i].run \in Runs /\ T.ledger[c][i].price \in Prices
<1> DEFINE Entries == [run : Runs, price : Prices]
<1>1. T.ledger[c] \in Seq(Entries)
  BY DEF TableTypes
<1> HIDE DEF Entries
<1>2. /\ Len(T.ledger[c]) \in Nat
      /\ DOMAIN T.ledger[c] = 1 .. Len(T.ledger[c])
      /\ \A i \in DOMAIN T.ledger[c] : T.ledger[c][i] \in Entries
  BY <1>1
<1> QED BY <1>2 DEF Entries

\* What stage rows do: none is removed, none loses its result, and an author's
\* result is not replaced.
StagesProgress(T, U) ==
  /\ U.status = T.status /\ U.lock = T.lock /\ U.cov = T.cov /\ U.ledger = T.ledger
  /\ \A r \in Runs :
       /\ \A role \in Roles :
            /\ T.stage[r][role] # "absent" => U.stage[r][role] # "absent"
            /\ HasResult(T.stage[r][role]) => HasResult(U.stage[r][role])
       /\ HasResult(T.stage[r].author) => U.target[r] = T.target[r]

\* A worker, a drained runner or a backoff keeps the tables sound.
LEMMA ProgressIsSound ==
  ASSUME NEW T \in TableTypes, NEW U \in TableTypes, Sound(T), StagesProgress(T, U)
  PROVE  Sound(U)
<1>a. U.ledger = T.ledger
  BY DEF StagesProgress
<1>b. \A c \in Coverages : /\ Len(T.ledger[c]) \in Nat
                           /\ DOMAIN T.ledger[c] = 1 .. Len(T.ledger[c])
                           /\ \A i \in DOMAIN T.ledger[c] : T.ledger[c][i].run \in Runs
  BY LedgerEntries
<1>1. RunningHoldsLock(U) /\ KeepsPlan(U) /\ HasNoRepeats(U)
  BY DEF Sound, RunningHoldsLock, KeepsPlan, HasNoRepeats, StagesProgress, Roles
<1>2. ChecksMaterialChanges(U)
  <2> SUFFICES ASSUME NEW c \in Coverages, NEW i \in 2 .. Len(U.ledger[c]),
                      TypeOf[U.ledger[c][i].run] = "event_analysis",
                      Material(U.ledger[c][i].price, U.ledger[c][i - 1].price)
               PROVE  U.stage[U.ledger[c][i].run].cross_check # "absent"
    BY DEF ChecksMaterialChanges
  <2>1. i \in DOMAIN T.ledger[c] /\ U.ledger[c] = T.ledger[c]
    BY <1>a, <1>b
  <2>2. T.ledger[c][i].run \in Runs
    BY <1>b, <2>1
  <2>3. ChecksMaterialChanges(T)
    BY DEF Sound
  <2>4. /\ i \in 2 .. Len(T.ledger[c])
        /\ TypeOf[T.ledger[c][i].run] = "event_analysis"
        /\ Material(T.ledger[c][i].price, T.ledger[c][i - 1].price)
    BY <2>1
  <2>5. T.stage[T.ledger[c][i].run].cross_check # "absent"
    BY <2>3, <2>4 DEF ChecksMaterialChanges
  <2> QED BY <2>1, <2>2, <2>5 DEF StagesProgress, Roles
<1>3. LedgerFitsStages(U)
  <2>1. ASSUME NEW c \in Coverages, NEW i \in DOMAIN U.ledger[c]
        PROVE  /\ CovOf[U.ledger[c][i].run] = c
               /\ HasResult(U.stage[U.ledger[c][i].run].author)
               /\ U.target[U.ledger[c][i].run] = U.ledger[c][i].price
    <3>1. T.ledger[c][i].run \in Runs /\ U.ledger[c] = T.ledger[c]
      BY <1>a, <1>b
    <3>2. /\ CovOf[T.ledger[c][i].run] = c
          /\ HasResult(T.stage[T.ledger[c][i].run].author)
          /\ T.target[T.ledger[c][i].run] = T.ledger[c][i].price
      BY <1>a DEF Sound, LedgerFitsStages
    <3> QED BY <3>1, <3>2 DEF StagesProgress, Roles
  <2>2. ASSUME NEW r \in Runs, U.status[r] = "succeeded", U.target[r] # NoPrice
        PROVE  \E i \in DOMAIN U.ledger[CovOf[r]] : U.ledger[CovOf[r]][i].run = r
    BY <2>2 DEF Sound, LedgerFitsStages, EarnsSuccess, StagesProgress
  <2> QED BY <2>1, <2>2 DEF LedgerFitsStages
<1>4. EarnsSuccess(U)
  <2>1. ASSUME NEW r \in Runs, U.status[r] = "succeeded"
        PROVE  HasResult(U.stage[r].author)
    BY <2>1 DEF Sound, EarnsSuccess, StagesProgress, Roles
  <2>2. ASSUME NEW c \in Coverages, U.cov[c] = "decision_pending"
        PROVE  \E r \in Runs :
                 /\ CovOf[r] = c
                 /\ TypeOf[r] = "initiation"
                 /\ HasResult(U.stage[r].author)
                 /\ HasResult(U.stage[r].finalizer)
    BY <2>2 DEF Sound, EarnsSuccess, StagesProgress, Roles
  <2> QED BY <2>1, <2>2 DEF EarnsSuccess
<1> QED BY <1>1, <1>2, <1>3, <1>4 DEF Sound

\* What promoting, settling and cancelling a run do: the locks of other runs
\* stay, and a success is earned by then.
RunMoves(T, U, r) ==
  /\ U.stage = T.stage /\ U.target = T.target /\ U.ledger = T.ledger
  /\ \A q \in Runs \ {r} :
       /\ U.status[q] = T.status[q]
       /\ \A c \in Coverages : T.lock[c] = q => U.lock[c] = q
  /\ U.status[r] = "running" => U.lock[CovOf[r]] = r
  /\ U.status[r] = "succeeded" =>
       /\ HasResult(T.stage[r].author)
       /\ T.target[r] # NoPrice =>
            \E i \in DOMAIN T.ledger[CovOf[r]] : T.ledger[CovOf[r]][i].run = r
  /\ \A c \in Coverages : U.cov[c] = "decision_pending" =>
       \/ T.cov[c] = "decision_pending"
       \/ /\ c = CovOf[r]
          /\ TypeOf[r] = "initiation"
          /\ HasResult(T.stage[r].author)
          /\ HasResult(T.stage[r].finalizer)

\* A run that moves in this way leaves the tables sound.
LEMMA MoveIsSound ==
  ASSUME NEW T \in TableTypes, NEW U \in TableTypes, NEW r \in Runs,
         Sound(T), RunMoves(T, U, r)
  PROVE  Sound(U)
<1>1. RunningHoldsLock(U)
  <2> SUFFICES ASSUME NEW q \in Runs, U.status[q] = "running"
               PROVE  U.lock[CovOf[q]] = q
    BY DEF RunningHoldsLock
  <2> QED BY TickAssumption DEF Sound, RunningHoldsLock, RunMoves
<1>2. KeepsPlan(U) /\ HasNoRepeats(U) /\ ChecksMaterialChanges(U)
  BY DEF Sound, KeepsPlan, HasNoRepeats, ChecksMaterialChanges, RunMoves
<1>3. LedgerFitsStages(U)
  <2>1. ASSUME NEW q \in Runs, U.status[q] = "succeeded", U.target[q] # NoPrice
        PROVE  \E i \in DOMAIN U.ledger[CovOf[q]] : U.ledger[CovOf[q]][i].run = q
    BY <2>1 DEF Sound, LedgerFitsStages, RunMoves
  <2> QED BY <2>1 DEF Sound, LedgerFitsStages, RunMoves
<1>4. EarnsSuccess(U)
  <2>1. ASSUME NEW q \in Runs, U.status[q] = "succeeded"
        PROVE  HasResult(U.stage[q].author)
    BY <2>1 DEF Sound, EarnsSuccess, RunMoves
  <2>2. ASSUME NEW c \in Coverages, U.cov[c] = "decision_pending"
        PROVE  \E q \in Runs :
                 /\ CovOf[q] = c
                 /\ TypeOf[q] = "initiation"
                 /\ HasResult(U.stage[q].author)
                 /\ HasResult(U.stage[q].finalizer)
    BY <2>2 DEF Sound, EarnsSuccess, RunMoves
  <2> QED BY <2>1, <2>2 DEF EarnsSuccess
<1> QED BY <1>1, <1>2, <1>3, <1>4 DEF Sound

-----------------------------------------------------------------------------
(***************************************************************************)
(* Stage execution.                                                        *)
(***************************************************************************)

\* An ended attempt leaves a sound stage row behind, in whatever table it is.
LEMMA StageEndsProgress ==
  ASSUME TypeOK, NEW r \in Runs, NEW role \in Roles, StageEnds(r, role)
  PROVE  /\ stage' \in [Runs -> [Roles -> {"absent"} \cup Pending \cup Terminal]]
         /\ target' \in [Runs -> Prices \cup {NoPrice}]
         /\ ~HasResult(stage[r][role])
         /\ HasResult(stage[r].author) => target'[r] = target[r]
         /\ \A q \in Runs : q # r => stage'[q] = stage[q] /\ target'[q] = target[q]
         /\ \A other \in Roles : other # role => stage'[r][other] = stage[r][other]
         /\ stage'[r][role] # "absent"
<1>1. stage[r][role] \in Claimable
  BY DEF StageEnds
<1>2. PICK outcome \in {"succeeded", "failed", "waiting"}, price \in Prices \cup {NoPrice} :
        /\ stage' = [stage EXCEPT ![r][role] = outcome]
        /\ target' = [target EXCEPT ![r] = IF role = "author" THEN price ELSE @]
  BY Zenon DEF StageEnds
<1> QED
  BY <1>1, <1>2 DEF TypeOK, TableTypes, Tables, Roles, Pending, Claimable, Terminal,
                    Failures, HasResult

\* A worker writes the same row to both copies.
LEMMA WorkerKeepsInv ==
  ASSUME IInv, NEW r \in Runs, NEW role \in Roles, WorkerEnds(r, role)
  PROVE  IInv'
<1>1. StageEnds(r, role) /\ TypeOK /\ TickAssumption
  BY TickAssumption DEF IInv, WorkerEnds
<1>2. /\ stage' \in [Runs -> [Roles -> {"absent"} \cup Pending \cup Terminal]]
      /\ target' \in [Runs -> Prices \cup {NoPrice}]
      /\ ~HasResult(stage[r][role])
      /\ HasResult(stage[r].author) => target'[r] = target[r]
      /\ \A q \in Runs : q # r => stage'[q] = stage[q] /\ target'[q] = target[q]
      /\ \A other \in Roles : other # role => stage'[r][other] = stage[r][other]
      /\ stage'[r][role] # "absent"
  BY <1>1, StageEndsProgress
<1>3. /\ committed' = [committed EXCEPT !.stage[r] = stage'[r], !.target[r] = target'[r]]
      /\ stage[r] = committed.stage[r]
      /\ stray' = stray \/ stray' = stray \cup {<<r, role>>}
      /\ UNCHANGED <<status, lock, cov, ledger, tickVars, cancel>>
  BY DEF WorkerEnds
<1>4. /\ committed' \in TableTypes
      /\ committed'.status = committed.status /\ committed'.lock = committed.lock
      /\ committed'.cov = committed.cov /\ committed'.ledger = committed.ledger
      /\ committed'.stage = [committed.stage EXCEPT ![r] = stage'[r]]
      /\ committed'.target = [committed.target EXCEPT ![r] = target'[r]]
  BY <1>1, <1>2, <1>3 DEF TypeOK, TableTypes
<1>5. TypeOK'
  <2>1. Tables' \in TableTypes
    BY <1>1, <1>2, <1>3 DEF TypeOK, TableTypes, Tables
  <2>2. ASSUME phase' = "idle" PROVE committed' = Tables'
    <3>1. committed = Tables
      BY <1>1, <1>3, <2>2 DEF TypeOK, tickVars
    <3>2. stage' = [stage EXCEPT ![r] = stage'[r]] /\ target' = [target EXCEPT ![r] = target'[r]]
      BY <1>1, <1>2 DEF TypeOK, TableTypes, Tables
    <3>3. committed'.stage = stage' /\ committed'.target = target'
      BY <1>4, <3>1, <3>2 DEF Tables
    <3> QED BY <1>3, <1>4, <2>1, <3>1, <3>3 DEF TableTypes, Tables
  <2> QED BY <1>1, <1>3, <1>4, <2>1, <2>2 DEF TypeOK, tickVars
<1>6. Sound(Tables)'
  <2>1. Tables \in TableTypes /\ Tables' \in TableTypes /\ Sound(Tables)
    BY <1>1, <1>5 DEF IInv, TypeOK
  <2>2. StagesProgress(Tables, Tables')
    BY <1>2, <1>3 DEF StagesProgress, Tables, Roles
  <2> QED BY <2>1, <2>2, ProgressIsSound
<1>7. Sound(committed)'
  <2>1. committed \in TableTypes /\ committed' \in TableTypes /\ Sound(committed)
    BY <1>1, <1>5 DEF IInv, TypeOK
  <2>2. StagesProgress(committed, committed')
    BY <1>2, <1>3, <1>4, <2>1 DEF StagesProgress, Roles, TableTypes, IInv, CommittedResultsStay
  <2> QED BY <2>1, <2>2, ProgressIsSound
<1>8. CommittedResultsStay'
  <2> SUFFICES ASSUME NEW q \in Runs, HasResult(committed'.stage[q].author)
               PROVE  HasResult(stage'[q].author) /\ target'[q] = committed'.target[q]
    BY DEF CommittedResultsStay
  <2>1. committed.stage \in [Runs -> [Roles -> {"absent"} \cup Pending \cup Terminal]]
          /\ committed.target \in [Runs -> Prices \cup {NoPrice}]
    BY <1>1 DEF TypeOK, TableTypes
  <2>2. CASE q = r
    BY <1>4, <2>1, <2>2
  <2>3. CASE q # r
    BY <1>2, <1>4, <2>1, <2>3 DEF IInv, CommittedResultsStay
  <2> QED BY <2>2, <2>3
<1>9. HoldersOwnLock'
  BY <1>3, <1>4 DEF IInv, HoldersOwnLock
<1> QED BY <1>5, <1>6, <1>7, <1>8, <1>9 DEF IInv

\* A late failure shows in both copies, and leaves the result.
LEMMA LateFailureKeepsInv ==
  ASSUME IInv, NEW r \in Runs, NEW role \in Roles, LateFailure(r, role)
  PROVE  IInv'
<1>1. /\ TypeOK
      /\ stage[r][role] = committed.stage[r][role]
      /\ stage' = [stage EXCEPT ![r][role] = FailedRow(@)]
      /\ committed' = [committed EXCEPT !.stage[r][role] = stage'[r][role]]
      /\ stray' \subseteq stray
      /\ UNCHANGED <<status, lock, cov, target, ledger, tickVars, cancel>>
  BY DEF IInv, LateFailure
<1>2. /\ Tables \in TableTypes /\ committed \in TableTypes
      /\ stage \in [Runs -> [Roles -> {"absent"} \cup Pending \cup Terminal]]
      /\ committed.stage \in [Runs -> [Roles -> {"absent"} \cup Pending \cup Terminal]]
  BY <1>1 DEF TypeOK, TableTypes, Tables
<1>3. /\ FailedRow(stage[r][role]) \in Terminal
      /\ FailedRow(stage[r][role]) # "absent"
      /\ HasResult(FailedRow(stage[r][role])) <=> HasResult(stage[r][role])
  BY DEF FailedRow, HasResult, Terminal, Failures
<1>4. /\ stage' \in [Runs -> [Roles -> {"absent"} \cup Pending \cup Terminal]]
      /\ stage'[r][role] = FailedRow(stage[r][role])
      /\ \A q \in Runs : \A other \in Roles :
           <<q, other>> # <<r, role>> => stage'[q][other] = stage[q][other]
  BY <1>1, <1>2, <1>3
<1>5. /\ committed' \in TableTypes
      /\ committed'.status = committed.status /\ committed'.lock = committed.lock
      /\ committed'.cov = committed.cov /\ committed'.ledger = committed.ledger
      /\ committed'.target = committed.target
      /\ committed'.stage = [committed.stage EXCEPT ![r][role] = stage'[r][role]]
  <2>1. [committed.stage EXCEPT ![r][role] = stage'[r][role]]
          \in [Runs -> [Roles -> {"absent"} \cup Pending \cup Terminal]]
    BY <1>2, <1>4
  <2>2. committed' = [committed EXCEPT !.stage = [committed.stage EXCEPT ![r][role] = stage'[r][role]]]
    BY <1>1, <1>2 DEF TableTypes
  <2> QED BY <1>2, <2>1, <2>2 DEF TableTypes
<1>6. /\ committed'.stage[r][role] = FailedRow(stage[r][role])
      /\ \A q \in Runs : \A other \in Roles :
           <<q, other>> # <<r, role>> => committed'.stage[q][other] = committed.stage[q][other]
  BY <1>2, <1>4, <1>5
<1>7. TypeOK'
  <2>1. Tables' \in TableTypes
    BY <1>1, <1>2, <1>4 DEF TableTypes, Tables
  <2>2. ASSUME phase' = "idle" PROVE committed' = Tables'
    <3>1. committed = Tables
      BY <1>1, <2>2 DEF TypeOK, tickVars
    <3>2. stage' = [stage EXCEPT ![r][role] = stage'[r][role]]
      BY <1>1, <1>2, <1>4
    <3>3. committed'.stage = stage'
      BY <1>5, <3>1, <3>2 DEF Tables
    <3> QED BY <1>1, <1>5, <2>1, <3>1, <3>3 DEF TableTypes, Tables
  <2> QED BY <1>1, <1>5, <2>1, <2>2 DEF TypeOK, tickVars
<1>8. ASSUME NEW q \in Runs, NEW other \in Roles
      PROVE  /\ HasResult(stage'[q][other]) <=> HasResult(stage[q][other])
             /\ stage[q][other] # "absent" => stage'[q][other] # "absent"
             /\ HasResult(committed'.stage[q][other]) <=> HasResult(committed.stage[q][other])
             /\ committed.stage[q][other] # "absent" => committed'.stage[q][other] # "absent"
  <2>1. CASE <<q, other>> = <<r, role>>
    BY <1>1, <1>3, <1>4, <1>6, <2>1
  <2>2. CASE <<q, other>> # <<r, role>>
    BY <1>4, <1>6, <2>2
  <2> QED BY <2>1, <2>2
<1>9. Sound(Tables)'
  <2>1. StagesProgress(Tables, Tables')
    BY <1>1, <1>8 DEF StagesProgress, Tables
  <2> QED BY <1>2, <1>7, <2>1, ProgressIsSound DEF IInv, TypeOK
<1>10. Sound(committed)'
  <2>1. StagesProgress(committed, committed')
    BY <1>5, <1>8 DEF StagesProgress
  <2> QED BY <1>2, <1>5, <2>1, ProgressIsSound DEF IInv
<1>11. CommittedResultsStay'
  BY <1>1, <1>5, <1>8 DEF IInv, CommittedResultsStay, Roles
<1>12. HoldersOwnLock'
  BY <1>1, <1>5 DEF IInv, HoldersOwnLock
<1> QED BY <1>7, <1>9, <1>10, <1>11, <1>12 DEF IInv

\* A drained runner writes to the tick's copy alone.
LEMMA DrainKeepsInv ==
  ASSUME IInv, NEW r \in Runs, NEW role \in Roles, Drain(r, role)
  PROVE  IInv'
<1>1. StageEnds(r, role) /\ TypeOK
  BY DEF IInv, Drain
<1>2. /\ stage' \in [Runs -> [Roles -> {"absent"} \cup Pending \cup Terminal]]
      /\ target' \in [Runs -> Prices \cup {NoPrice}]
      /\ ~HasResult(stage[r][role])
      /\ HasResult(stage[r].author) => target'[r] = target[r]
      /\ \A q \in Runs : q # r => stage'[q] = stage[q] /\ target'[q] = target[q]
      /\ \A other \in Roles : other # role => stage'[r][other] = stage[r][other]
      /\ stage'[r][role] # "absent"
  BY <1>1, StageEndsProgress
<1>3. UNCHANGED <<status, lock, cov, ledger, committed, tickVars, stray, cancel>> /\ phase = "advance"
  BY DEF Drain
<1>4. TypeOK'
  BY <1>1, <1>2, <1>3 DEF TypeOK, TableTypes, Tables, tickVars
<1>5. Sound(Tables)'
  <2>1. Tables \in TableTypes /\ Tables' \in TableTypes /\ Sound(Tables)
    BY <1>1, <1>4 DEF IInv, TypeOK
  <2>2. StagesProgress(Tables, Tables')
    BY <1>2, <1>3 DEF StagesProgress, Tables, Roles
  <2> QED BY <2>1, <2>2, ProgressIsSound
<1>6. Sound(committed)' /\ HoldersOwnLock'
  BY <1>3 DEF IInv, HoldersOwnLock
<1>7. CommittedResultsStay'
  BY <1>2, <1>3 DEF IInv, CommittedResultsStay, Roles
<1> QED BY <1>4, <1>5, <1>6, <1>7 DEF IInv

\* The end of a backoff shows in both copies.
LEMMA BackoffKeepsInv ==
  ASSUME IInv, NEW r \in Runs, NEW role \in Roles, BackoffEnds(r, role)
  PROVE  IInv'
<1>1. /\ TypeOK
      /\ stage[r][role] = "waiting"
      /\ committed.stage[r] = stage[r]
      /\ stage' = [stage EXCEPT ![r][role] = "retrying"]
      /\ committed' = [committed EXCEPT !.stage[r] = stage'[r]]
      /\ UNCHANGED <<status, lock, cov, target, ledger, tickVars, stray, cancel>>
  BY DEF IInv, BackoffEnds
<1>2. stage' \in [Runs -> [Roles -> {"absent"} \cup Pending \cup Terminal]]
  BY <1>1 DEF TypeOK, TableTypes, Tables, Pending
<1>3. /\ committed' \in TableTypes
      /\ committed'.status = committed.status /\ committed'.lock = committed.lock
      /\ committed'.cov = committed.cov /\ committed'.ledger = committed.ledger
      /\ committed'.target = committed.target
      /\ committed'.stage = [committed.stage EXCEPT ![r] = stage'[r]]
  BY <1>1, <1>2 DEF TypeOK, TableTypes
<1>4. TypeOK'
  <2>1. Tables' \in TableTypes
    BY <1>1, <1>2 DEF TypeOK, TableTypes, Tables
  <2>2. ASSUME phase' = "idle" PROVE committed' = Tables'
    <3>1. committed = Tables
      BY <1>1, <2>2 DEF TypeOK, tickVars
    <3>2. stage' = [stage EXCEPT ![r] = stage'[r]]
      BY <1>1 DEF TypeOK, TableTypes, Tables
    <3>3. committed'.stage = stage'
      BY <1>3, <3>1, <3>2 DEF Tables
    <3> QED BY <1>1, <1>3, <2>1, <3>1, <3>3 DEF TableTypes, Tables
  <2> QED BY <1>1, <1>3, <2>1, <2>2 DEF TypeOK, tickVars
<1>5. Sound(Tables)'
  <2>1. Tables \in TableTypes /\ Tables' \in TableTypes /\ Sound(Tables)
    BY <1>1, <1>4 DEF IInv, TypeOK
  <2>2. StagesProgress(Tables, Tables')
    BY <1>1, <2>1 DEF StagesProgress, Tables, TableTypes, Roles, HasResult
  <2> QED BY <2>1, <2>2, ProgressIsSound
<1>6. Sound(committed)'
  <2>1. committed \in TableTypes /\ Sound(committed) /\ Tables \in TableTypes
    BY <1>1 DEF IInv, TypeOK
  <2>2. StagesProgress(committed, committed')
    BY <1>1, <1>3, <2>1 DEF StagesProgress, Tables, TableTypes, Roles, HasResult
  <2> QED BY <1>3, <2>1, <2>2, ProgressIsSound
<1>7. CommittedResultsStay'
  <2>1. committed.stage \in [Runs -> [Roles -> {"absent"} \cup Pending \cup Terminal]]
          /\ Tables \in TableTypes
    BY <1>1 DEF TypeOK, TableTypes
  <2> QED BY <1>1, <1>3, <2>1 DEF IInv, CommittedResultsStay, Roles, Tables, TableTypes, HasResult
<1>8. HoldersOwnLock'
  BY <1>1, <1>3 DEF IInv, HoldersOwnLock
<1> QED BY <1>4, <1>5, <1>6, <1>7, <1>8 DEF IInv

-----------------------------------------------------------------------------
(***************************************************************************)
(* The cancel request.                                                     *)
(***************************************************************************)

\* Reading, deleting (uncommitted) and giving up leave the tables alone.
LEMMA CancelWaitsKeepsInv ==
  ASSUME IInv, NEW r \in Runs, CancelRead(r) \/ CancelDelete(r) \/ CancelAborts(r)
  PROVE  IInv'
<1>1. /\ TypeOK
      /\ UNCHANGED <<tableVars, committed, tickVars, stray>>
      /\ cancel' \in [Runs -> {"none", "read", "missed", "holding", "done"}]
      /\ \A q \in Runs : cancel'[q] = "holding" =>
           cancel[q] = "holding" \/ (committed.lock[CovOf[q]] = q /\ lock[CovOf[q]] = q)
  BY DEF IInv, TypeOK, CancelRead, CancelDelete, CancelAborts, LockRowHit
<1>2. Tables' = Tables
  BY <1>1 DEF Tables, tableVars
<1>3. TypeOK'
  BY <1>1, <1>2 DEF TypeOK, tickVars
<1>4. Sound(Tables)' /\ Sound(committed)'
  BY <1>1, <1>2 DEF IInv
<1>5. CommittedResultsStay' /\ HoldersOwnLock'
  BY <1>1 DEF IInv, CommittedResultsStay, HoldersOwnLock, tableVars
<1> QED BY <1>3, <1>4, <1>5 DEF IInv

\* The request's commit shows in both copies, with the lock row it deleted.
LEMMA CancelCommitKeepsInv ==
  ASSUME IInv, NEW r \in Runs, CancelCommit(r)
  PROVE  IInv'
<1> DEFINE c == CovOf[r]
           holds == cancel[r] = "holding"
<1>1. /\ TypeOK
      /\ cancel' = [cancel EXCEPT ![r] = "done"]
      /\ status' = [status EXCEPT ![r] = "cancelled"]
      /\ lock' = [lock EXCEPT ![c] = IF holds THEN NoRun ELSE lock[c]]
      /\ committed' = [committed EXCEPT !.status[r] = "cancelled",
                         !.lock[c] = IF holds THEN NoRun ELSE committed.lock[c]]
      /\ UNCHANGED <<cov, stage, target, ledger, tickVars, stray>>
  BY DEF IInv, CancelCommit
<1>2. c \in Coverages
  BY TickAssumption
<1>3. /\ committed' \in TableTypes
      /\ committed'.status = [committed.status EXCEPT ![r] = "cancelled"]
      /\ committed'.lock = [committed.lock EXCEPT ![c] = IF holds THEN NoRun ELSE committed.lock[c]]
      /\ committed'.cov = committed.cov /\ committed'.stage = committed.stage
      /\ committed'.target = committed.target /\ committed'.ledger = committed.ledger
  BY <1>1, <1>2 DEF TypeOK, TableTypes, Ended
<1>4. Tables' \in TableTypes
  BY <1>1, <1>2 DEF TypeOK, TableTypes, Tables, Ended
<1>5. TypeOK'
  <2>1. ASSUME phase' = "idle" PROVE committed' = Tables'
    <3>1. committed = Tables
      BY <1>1, <2>1 DEF TypeOK, tickVars
    <3> QED BY <1>1, <1>3, <1>4, <3>1 DEF TableTypes, Tables
  <2> QED BY <1>1, <1>3, <1>4, <2>1 DEF TypeOK, tickVars
<1>6. Sound(Tables)'
  <2>1. \/ lock' = lock
        \/ lock[c] = r /\ lock' = [lock EXCEPT ![c] = NoRun]
    BY <1>1, <1>2 DEF IInv, HoldersOwnLock, TypeOK, TableTypes, Tables
  <2>2. Tables \in TableTypes /\ Sound(Tables)
    BY <1>1 DEF IInv, TypeOK
  <2>3. RunMoves(Tables, Tables', r)
    BY <1>1, <1>2, <2>1, <2>2, TickAssumption DEF RunMoves, TableTypes, Tables
  <2> QED BY <1>4, <2>2, <2>3, MoveIsSound
<1>7. Sound(committed)'
  <2>1. \/ committed'.lock = committed.lock
        \/ committed.lock[c] = r /\ committed'.lock = [committed.lock EXCEPT ![c] = NoRun]
    <3>1. committed.lock \in [Coverages -> Runs \cup {NoRun}]
      BY <1>1 DEF TypeOK, TableTypes
    <3>2. CASE holds
      BY <1>3, <3>2 DEF IInv, HoldersOwnLock
    <3>3. CASE ~holds
      BY <1>2, <1>3, <3>1, <3>3
    <3> QED BY <3>2, <3>3
  <2>2. committed \in TableTypes /\ Sound(committed)
    BY <1>1 DEF IInv, TypeOK
  <2>3. RunMoves(committed, committed', r)
    BY <1>2, <1>3, <2>1, <2>2, TickAssumption DEF RunMoves, TableTypes
  <2> QED BY <1>3, <2>2, <2>3, MoveIsSound
<1>8. CommittedResultsStay'
  BY <1>1, <1>3 DEF IInv, CommittedResultsStay
<1>9. HoldersOwnLock'
  BY <1>1, <1>2, <1>3 DEF IInv, HoldersOwnLock, TypeOK, TableTypes, Tables
<1> QED BY <1>5, <1>6, <1>7, <1>8, <1>9 DEF IInv

-----------------------------------------------------------------------------
(***************************************************************************)
(* The first loop of a tick.                                               *)
(***************************************************************************)

\* A SELECT only loads.
LEMMA SelectKeepsInv ==
  ASSUME IInv, TickBegin \/ SelectRunning
  PROVE  IInv'
<1>1. /\ TypeOK
      /\ UNCHANGED <<tableVars, committed, dirty, stray, cancel, crashes>>
      /\ phase' \in {"promote", "advance"}
      /\ todo' \subseteq Runs
  BY DEF IInv, TickBegin, SelectRunning
<1>2. Tables' = Tables
  BY <1>1 DEF Tables, tableVars
<1>3. TypeOK'
  BY <1>1, <1>2 DEF TypeOK
<1>4. Sound(Tables)' /\ Sound(committed)'
  BY <1>1, <1>2 DEF IInv
<1>5. CommittedResultsStay' /\ HoldersOwnLock'
  BY <1>1 DEF IInv, CommittedResultsStay, HoldersOwnLock, tableVars
<1> QED BY <1>3, <1>4, <1>5 DEF IInv

\* A promoted run owns the lock row, which no cancel request has deleted: the
\* INSERT would wait for it.
LEMMA PromoteKeepsInv ==
  ASSUME IInv, NEW r \in Runs, PromoteRun(r)
  PROVE  IInv'
<1> DEFINE c == CovOf[r]
<1>1. /\ TypeOK
      /\ ~LockRowBusy(c)
      /\ phase' = "promote"
      /\ todo' = todo \ {r}
      /\ UNCHANGED <<stage, target, ledger, committed, stray, cancel, crashes>>
  BY DEF IInv, PromoteRun
<1>2. c \in Coverages
  BY TickAssumption
<1>3. CASE UNCHANGED <<status, lock, cov, dirty>>
  <2>1. Tables' = Tables
    BY <1>1, <1>3 DEF Tables
  <2>2. TypeOK'
    BY <1>1, <1>3, <2>1 DEF TypeOK
  <2>3. Sound(Tables)' /\ Sound(committed)'
    BY <1>1, <2>1 DEF IInv
  <2>4. CommittedResultsStay' /\ HoldersOwnLock'
    BY <1>1, <1>3 DEF IInv, CommittedResultsStay, HoldersOwnLock
  <2> QED BY <2>2, <2>3, <2>4 DEF IInv
<1>4. CASE /\ OwnsLock(r)
           /\ lock' = [lock EXCEPT ![c] = r]
           /\ status' = [status EXCEPT ![r] = "running"]
           /\ dirty' = dirty \cup {r}
           /\ cov' = IF TypeOf[r] = "initiation" /\ cov[c] = "proposed"
                       THEN [cov EXCEPT ![c] = "initiating"] ELSE cov
  <2>1. Tables' \in TableTypes
    BY <1>1, <1>2, <1>4 DEF TypeOK, TableTypes, Tables
  <2>2. TypeOK'
    BY <1>1, <1>4, <2>1 DEF TypeOK
  <2>3. Sound(Tables)'
    <3>1. Sound(Tables) /\ Tables \in TableTypes
      BY <1>1 DEF IInv, TypeOK
    <3>2. RunMoves(Tables, Tables', r)
      BY <1>1, <1>2, <1>4, <3>1, TickAssumption DEF RunMoves, OwnsLock, TableTypes, Tables
    <3> QED BY <2>1, <3>1, <3>2, MoveIsSound
  <2>4. Sound(committed)' /\ CommittedResultsStay'
    BY <1>1 DEF IInv, CommittedResultsStay
  <2>5. HoldersOwnLock'
    BY <1>1, <1>2, <1>4, TickAssumption
      DEF IInv, HoldersOwnLock, LockRowBusy, TypeOK, TableTypes, Tables
  <2> QED BY <2>2, <2>3, <2>4, <2>5 DEF IInv
<1> QED BY <1>3, <1>4 DEF PromoteRun

-----------------------------------------------------------------------------
(***************************************************************************)
(* The end of a tick.                                                      *)
(***************************************************************************)

\* The caller's commit: what the tick kept sound is what is committed.
LEMMA CommitKeepsInv ==
  ASSUME IInv, TickCommit
  PROVE  IInv'
<1>1. /\ TypeOK
      /\ phase' = "idle"
      /\ committed' = Tables
      /\ dirty' = {}
      /\ todo' = {}
      /\ UNCHANGED <<tableVars, stray, cancel, crashes>>
  BY DEF IInv, TickCommit
<1>2. Tables' = Tables
  BY <1>1 DEF Tables, tableVars
<1>3. TypeOK'
  BY <1>1, <1>2 DEF TypeOK
<1>4. Sound(Tables)' /\ Sound(committed)'
  BY <1>1, <1>2 DEF IInv
<1>5. CommittedResultsStay' /\ HoldersOwnLock'
  BY <1>1 DEF IInv, CommittedResultsStay, HoldersOwnLock, tableVars, Tables
<1> QED BY <1>3, <1>4, <1>5 DEF IInv

\* Whatever undoes a tick brings back what was committed.
LEMMA UndoKeepsInv ==
  ASSUME IInv, TickRaises \/ TickIsVictim \/ TickCrashes
  PROVE  IInv'
<1>1. TypeOK /\ UndoTick /\ crashes' \in 0 .. MaxCrashes
  BY TickAssumption DEF IInv, TypeOK, TickRaises, TickIsVictim, TickCrashes
<1>2. /\ committed' = committed
      /\ Tables' = committed
  BY <1>1 DEF UndoTick, RestoredLedger, Tables, TypeOK, TableTypes
<1>3. TypeOK'
  BY <1>1, <1>2 DEF UndoTick, TypeOK
<1>4. Sound(Tables)' /\ Sound(committed)'
  BY <1>2 DEF IInv
<1>5. CommittedResultsStay' /\ HoldersOwnLock'
  BY <1>1 DEF IInv, CommittedResultsStay, HoldersOwnLock, UndoTick
<1> QED BY <1>3, <1>4, <1>5 DEF IInv

-----------------------------------------------------------------------------
(***************************************************************************)
(* advance_run, in its two parts: what it registers and appends, and how   *)
(* it then settles the run.                                                *)
(***************************************************************************)

\* An entry of the ledger is an old one, or the one that is registered now.
LEMMA LedgerGrows ==
  ASSUME TypeOK, NEW r \in Runs, ledger' = LedgerAfter(r)
  PROVE  /\ ledger' \in [Coverages -> Seq([run : Runs, price : Prices])]
         /\ \A c \in Coverages : \A i \in DOMAIN ledger[c] :
              i \in DOMAIN ledger'[c] /\ ledger'[c][i] = ledger[c][i]
         /\ \A c \in Coverages : \A i \in DOMAIN ledger'[c] :
              \/ i \in DOMAIN ledger[c]
              \/ /\ Delivered(r) /\ ~Registered(r)
                 /\ c = CovOf[r]
                 /\ i = Len(ledger[c]) + 1
                 /\ ledger'[c][i] = [run |-> r, price |-> target[r]]
         /\ Delivered(r) =>
              \E i \in DOMAIN ledger'[CovOf[r]] : ledger'[CovOf[r]][i].run = r
<1> DEFINE Entries == [run : Runs, price : Prices]
           new == [run |-> r, price |-> target[r]]
           c == CovOf[r]
<1>1. ledger \in [Coverages -> Seq(Entries)] /\ target[r] \in Prices \cup {NoPrice}
  BY DEF TypeOK, TableTypes, Tables
<1>2. c \in Coverages
  BY TickAssumption
<1>3. CASE Delivered(r) /\ ~Registered(r)
  <2>1. ledger' = [ledger EXCEPT ![c] = Append(ledger[c], new)]
    BY <1>3 DEF LedgerAfter
  <2>2. new \in Entries /\ new.run = r
    BY <1>1, <1>3 DEF Delivered
  <2> HIDE DEF Entries, new
  <2>3. ledger' \in [Coverages -> Seq(Entries)] /\ ledger'[c] = Append(ledger[c], new)
    BY <1>1, <1>2, <2>1, <2>2
  <2>4. /\ Len(ledger[c]) \in Nat
        /\ DOMAIN ledger[c] = 1 .. Len(ledger[c])
        /\ DOMAIN ledger'[c] = 1 .. Len(ledger[c]) + 1
        /\ \A i \in DOMAIN ledger[c] : ledger'[c][i] = ledger[c][i]
        /\ ledger'[c][Len(ledger[c]) + 1] = new
    BY <1>1, <1>2, <2>2, <2>3
  <2>5. \A d \in Coverages : d # c => ledger'[d] = ledger[d]
    BY <1>1, <2>1
  <2>6. \A d \in Coverages : \A i \in DOMAIN ledger[d] :
          i \in DOMAIN ledger'[d] /\ ledger'[d][i] = ledger[d][i]
    BY <2>4, <2>5
  <2>7. \A d \in Coverages : \A i \in DOMAIN ledger'[d] :
          \/ i \in DOMAIN ledger[d]
          \/ d = c /\ i = Len(ledger[d]) + 1 /\ ledger'[d][i] = new
    BY <2>4, <2>5
  <2>8. \E i \in DOMAIN ledger'[c] : ledger'[c][i].run = r
    BY <2>2, <2>4
  <2> USE DEF Entries, new
  <2> QED BY <1>3, <2>3, <2>6, <2>7, <2>8
<1>4. CASE ~(Delivered(r) /\ ~Registered(r))
  BY <1>1, <1>4 DEF LedgerAfter, Registered
<1> QED BY <1>3, <1>4

\* The tables between the two parts.
Registering ==
  [status |-> status, lock |-> lock, cov |-> cov, stage |-> stage',
   target |-> target, ledger |-> ledger']

\* Registering a prediction, with the cross-check it calls for.
LEMMA RegisteringIsSound ==
  ASSUME TypeOK, Sound(Tables), NEW r \in Runs,
         ledger' = LedgerAfter(r),
         stage' = IF NeedsCrossCheck(r)
                    THEN [stage EXCEPT ![r].cross_check = "queued"] ELSE stage
  PROVE  /\ Registering \in TableTypes
         /\ Sound(Registering)
         /\ \A q \in Runs : \A role \in {"author", "finalizer"} :
              stage'[q][role] = stage[q][role]
         /\ Delivered(r) =>
              \E i \in DOMAIN ledger'[CovOf[r]] : ledger'[CovOf[r]][i].run = r
<1>1. Tables \in TableTypes
  BY DEF TypeOK
<1>2. /\ ledger' \in [Coverages -> Seq([run : Runs, price : Prices])]
      /\ \A c \in Coverages : \A i \in DOMAIN ledger[c] :
           i \in DOMAIN ledger'[c] /\ ledger'[c][i] = ledger[c][i]
      /\ \A c \in Coverages : \A i \in DOMAIN ledger'[c] :
           \/ i \in DOMAIN ledger[c]
           \/ /\ Delivered(r) /\ ~Registered(r)
              /\ c = CovOf[r]
              /\ i = Len(ledger[c]) + 1
              /\ ledger'[c][i] = [run |-> r, price |-> target[r]]
      /\ Delivered(r) =>
           \E i \in DOMAIN ledger'[CovOf[r]] : ledger'[CovOf[r]][i].run = r
  BY LedgerGrows
<1>3. /\ stage' \in [Runs -> [Roles -> {"absent"} \cup Pending \cup Terminal]]
      /\ \A q \in Runs : \A role \in {"author", "finalizer"} :
           stage'[q][role] = stage[q][role]
      /\ \A q \in Runs : stage[q].cross_check # "absent" => stage'[q].cross_check # "absent"
      /\ NeedsCrossCheck(r) => stage'[r].cross_check # "absent"
  BY <1>1 DEF TableTypes, Tables, Roles, Pending
<1>4. Registering \in TableTypes
  BY <1>1, <1>2, <1>3 DEF Registering, TableTypes, Tables
<1>5. \A c \in Coverages :
        /\ Len(ledger[c]) \in Nat /\ DOMAIN ledger[c] = 1 .. Len(ledger[c])
        /\ Len(ledger'[c]) \in Nat /\ DOMAIN ledger'[c] = 1 .. Len(ledger'[c])
        /\ \A i \in DOMAIN ledger[c] : ledger[c][i].run \in Runs
        /\ \A i \in DOMAIN ledger'[c] : ledger'[c][i].run \in Runs
  <2> TAKE c \in Coverages
  <2>1. /\ Len(Tables.ledger[c]) \in Nat /\ DOMAIN Tables.ledger[c] = 1 .. Len(Tables.ledger[c])
        /\ \A i \in DOMAIN Tables.ledger[c] : Tables.ledger[c][i].run \in Runs
    BY <1>1, LedgerEntries
  <2>2. /\ Len(Registering.ledger[c]) \in Nat
        /\ DOMAIN Registering.ledger[c] = 1 .. Len(Registering.ledger[c])
        /\ \A i \in DOMAIN Registering.ledger[c] : Registering.ledger[c][i].run \in Runs
    BY <1>4, LedgerEntries
  <2> QED BY <2>1, <2>2 DEF Tables, Registering
<1>6. RunningHoldsLock(Registering) /\ KeepsPlan(Registering) /\ EarnsSuccess(Registering)
  BY <1>3 DEF Sound, RunningHoldsLock, KeepsPlan, EarnsSuccess, Registering, Tables
<1>7. ChecksMaterialChanges(Registering)
  <2> SUFFICES ASSUME NEW c \in Coverages, NEW i \in 2 .. Len(ledger'[c]),
                      TypeOf[ledger'[c][i].run] = "event_analysis",
                      Material(ledger'[c][i].price, ledger'[c][i - 1].price)
               PROVE  stage'[ledger'[c][i].run].cross_check # "absent"
    BY DEF ChecksMaterialChanges, Registering
  <2>1. i \in DOMAIN ledger'[c] /\ i - 1 \in DOMAIN ledger'[c]
    BY <1>5
  <2>2. i - 1 \in DOMAIN ledger[c]
    BY <1>2, <1>5, <2>1
  <2>3. ledger'[c][i - 1] = ledger[c][i - 1]
    BY <1>2, <2>2
  <2>4. CASE i \in DOMAIN ledger[c]
    <3>1. ledger'[c][i] = ledger[c][i] /\ i \in 2 .. Len(ledger[c])
      BY <1>2, <1>5, <2>4
    <3>2. stage[ledger[c][i].run].cross_check # "absent"
      BY <2>3, <3>1 DEF Sound, ChecksMaterialChanges, Tables
    <3> QED BY <1>3, <1>5, <2>4, <3>1, <3>2
  <2>5. CASE i \notin DOMAIN ledger[c]
    <3>1. /\ Delivered(r)
          /\ c = CovOf[r]
          /\ i = Len(ledger[c]) + 1
          /\ ledger'[c][i] = [run |-> r, price |-> target[r]]
      BY <1>2, <2>1, <2>5
    <3>2. i - 1 = Len(ledger[c]) /\ ledger[c] # <<>>
      BY <1>5, <2>2, <3>1
    <3>3. ledger[c][i - 1].price = LastTargetPrice(c)
      BY <3>2 DEF LastTargetPrice, Last
    <3>4. Material(target[r], LastTargetPrice(CovOf[r])) /\ TypeOf[r] = "event_analysis"
      BY <2>3, <3>1, <3>3
    <3>5. NeedsCrossCheck(r) \/ stage[r].cross_check # "absent"
      BY <3>1, <3>4 DEF NeedsCrossCheck
    <3> QED BY <1>3, <3>1, <3>5
  <2> QED BY <2>4, <2>5
<1>8. HasNoRepeats(Registering)
  <2> SUFFICES ASSUME NEW c \in Coverages,
                      NEW i \in DOMAIN ledger'[c], NEW j \in DOMAIN ledger'[c],
                      ledger'[c][i].run = ledger'[c][j].run
               PROVE  i = j
    BY DEF HasNoRepeats, Registering
  <2>1. \A k \in DOMAIN ledger[c] : Registered(r) \/ c # CovOf[r] \/ ledger[c][k].run # r
    BY DEF Registered
  <2>2. i \in DOMAIN ledger[c] /\ j \in DOMAIN ledger[c] => i = j
    BY <1>2 DEF Sound, HasNoRepeats, Tables
  <2> QED BY <1>2, <2>1, <2>2
<1>9. LedgerFitsStages(Registering)
  <2>1. ASSUME NEW c \in Coverages, NEW i \in DOMAIN ledger'[c]
        PROVE  /\ CovOf[ledger'[c][i].run] = c
               /\ HasResult(stage'[ledger'[c][i].run].author)
               /\ target[ledger'[c][i].run] = ledger'[c][i].price
    <3>1. CASE i \in DOMAIN ledger[c]
      BY <1>2, <1>3, <1>5, <3>1 DEF Sound, LedgerFitsStages, Tables
    <3>2. CASE i \notin DOMAIN ledger[c]
      BY <1>2, <1>3, <3>2 DEF Delivered, HasResult
    <3> QED BY <3>1, <3>2
  <2>2. ASSUME NEW q \in Runs, status[q] = "succeeded", target[q] # NoPrice
        PROVE  \E i \in DOMAIN ledger'[CovOf[q]] : ledger'[CovOf[q]][i].run = q
    <3>1. CovOf[q] \in Coverages
      BY TickAssumption
    <3>2. PICK i \in DOMAIN ledger[CovOf[q]] : ledger[CovOf[q]][i].run = q
      BY <2>2 DEF Sound, LedgerFitsStages, Tables
    <3> QED BY <1>2, <3>1, <3>2
  <2> QED BY <2>1, <2>2 DEF LedgerFitsStages, Registering
<1> QED BY <1>2, <1>3, <1>4, <1>6, <1>7, <1>8, <1>9 DEF Sound

\* A run of which every stage a tick sees is done, and none failed, has had
\* its planned stages succeed.
LEMMA DoneMeansSucceeded ==
  ASSUME TypeOK, Sound(Tables), NEW r \in Runs, AllTerminal(r), ~AnyFailed(r)
  PROVE  /\ stage[r].author = "succeeded"
         /\ TypeOf[r] = "initiation" => stage[r].finalizer = "succeeded"
<1>1. /\ stage[r].author # "absent"
      /\ TypeOf[r] = "initiation" => stage[r].finalizer # "absent"
  BY DEF Sound, KeepsPlan, Tables
<1>2. \A role \in Roles : stage[r][role] # "absent" => stage[r][role] = "succeeded"
  BY DEF AllTerminal, AnyFailed, Seen, Terminal, Failures
<1> QED BY <1>1, <1>2 DEF Roles

\* The five ways to settle a run, after what was registered.
LEMMA SettlingMoves ==
  ASSUME IInv, NEW r \in Runs, AdvanceRun(r)
  PROVE  /\ Tables' \in TableTypes
         /\ dirty' \subseteq Runs
         /\ \A q \in Runs : cancel[q] = "holding" => lock'[CovOf[q]] = q
         /\ Registering \in TableTypes /\ Sound(Registering)
         /\ RunMoves(Registering, Tables', r)
<1> DEFINE c == CovOf[r]
<1>1. /\ TypeOK /\ Sound(Tables)
      /\ ledger' = LedgerAfter(r)
      /\ stage' = IF NeedsCrossCheck(r)
                    THEN [stage EXCEPT ![r].cross_check = "queued"] ELSE stage
      /\ UNCHANGED target
  BY DEF IInv, AdvanceRun
<1>2. /\ Registering \in TableTypes
      /\ Sound(Registering)
      /\ \A q \in Runs : \A role \in {"author", "finalizer"} :
           stage'[q][role] = stage[q][role]
      /\ Delivered(r) =>
           \E i \in DOMAIN ledger'[CovOf[r]] : ledger'[CovOf[r]][i].run = r
  BY <1>1, RegisteringIsSound
<1>3. c \in Coverages /\ NoRun \notin Runs
  BY TickAssumption
<1>4. /\ stage' \in [Runs -> [Roles -> {"absent"} \cup Pending \cup Terminal]]
      /\ ledger' \in [Coverages -> Seq([run : Runs, price : Prices])]
      /\ target' \in [Runs -> Prices \cup {NoPrice}]
      /\ status \in [Runs -> {"queued", "running", "waiting_pm"} \cup Ended]
      /\ lock \in [Coverages -> Runs \cup {NoRun}]
      /\ cov \in [Coverages -> {"proposed", "initiating", "decision_pending", "failed", "active"}]
      /\ dirty \subseteq Runs
  BY <1>1, <1>2 DEF Registering, TypeOK, TableTypes, Tables
<1>5. \A q \in Runs : cancel[q] = "holding" => lock[CovOf[q]] = q
  BY DEF IInv, HoldersOwnLock
<1>6. status[r] = "running" => lock[c] = r
  BY <1>1 DEF Sound, RunningHoldsLock, Tables
<1> DEFINE Settled ==
             /\ status' \in [Runs -> {"queued", "running", "waiting_pm"} \cup Ended]
             /\ lock' \in [Coverages -> Runs \cup {NoRun}]
             /\ cov' \in [Coverages -> {"proposed", "initiating", "decision_pending",
                                        "failed", "active"}]
             /\ dirty' \subseteq Runs
             /\ \A q \in Runs : cancel[q] = "holding" => lock'[CovOf[q]] = q
             /\ \A q \in Runs \ {r} :
                  /\ status'[q] = status[q]
                  /\ \A d \in Coverages : lock[d] = q => lock'[d] = q
             /\ status'[r] = "running" => lock'[c] = r
             /\ status'[r] = "succeeded" =>
                  status[r] = "succeeded" \/ (AllTerminal(r) /\ ~AnyFailed(r))
             /\ \A d \in Coverages : cov'[d] = "decision_pending" =>
                  \/ cov[d] = "decision_pending"
                  \/ /\ d = c /\ TypeOf[r] = "initiation"
                     /\ AllTerminal(r) /\ ~AnyFailed(r)
<1>7. ASSUME NEW to \in {"failed", "succeeded"}, FinishRun(r, to)
      PROVE  /\ status' \in [Runs -> {"queued", "running", "waiting_pm"} \cup Ended]
             /\ lock' \in [Coverages -> Runs \cup {NoRun}]
             /\ dirty' \subseteq Runs
             /\ \A q \in Runs : cancel[q] = "holding" => lock'[CovOf[q]] = q
             /\ \A q \in Runs \ {r} :
                  /\ status'[q] = status[q]
                  /\ \A d \in Coverages : lock[d] = q => lock'[d] = q
             /\ status'[r] = to
  BY <1>3, <1>4, <1>5, <1>7, TickAssumption DEF FinishRun, Ended
<1>8. ASSUME NEW to \in {"queued", "waiting_pm"}, MoveRun(r, to)
      PROVE  Settled
  BY <1>3, <1>4, <1>5, <1>8 DEF MoveRun
<1>9. Settled
  <2>1. CASE FailRun(r)
    <3>1. FinishRun(r, "failed")
      BY <2>1 DEF FailRun
    <3>2. /\ cov' \in [Coverages -> {"proposed", "initiating", "decision_pending",
                                     "failed", "active"}]
          /\ \A d \in Coverages : cov'[d] = "decision_pending" => cov[d] = "decision_pending"
      BY <1>3, <1>4, <2>1 DEF FailRun
    <3> QED BY <1>7, <3>1, <3>2
  <2>2. CASE RequeueRun(r)
    BY <1>8, <2>2 DEF RequeueRun
  <2>3. CASE PauseForBudget(r)
    BY <1>8, <2>3 DEF PauseForBudget
  <2>4. CASE LeaveRunning(r)
    BY <1>4, <1>5, <1>6, <2>4 DEF LeaveRunning
  <2>5. CASE FinalizeRun(r) /\ TypeOf[r] = "initiation"
    BY <1>3, <1>4, <1>5, <2>5 DEF FinalizeRun
  <2>6. CASE FinalizeRun(r) /\ TypeOf[r] # "initiation"
    <3>1. /\ FinishRun(r, "succeeded") /\ cov' = cov
          /\ AllTerminal(r) /\ ~AnyFailed(r)
      BY <2>6 DEF FinalizeRun
    <3> QED BY <1>4, <1>7, <3>1
  <2> QED BY <2>1, <2>2, <2>3, <2>4, <2>5, <2>6 DEF AdvanceRun
<1>10. Tables' \in TableTypes
  BY <1>4, <1>9 DEF TableTypes, Tables
<1>11. AllTerminal(r) /\ ~AnyFailed(r) =>
         /\ stage'[r].author = "succeeded"
         /\ TypeOf[r] = "initiation" => stage'[r].finalizer = "succeeded"
  BY <1>1, <1>2, DoneMeansSucceeded
<1>12. RunMoves(Registering, Tables', r)
  <2>1. ASSUME status'[r] = "succeeded"
        PROVE  /\ HasResult(stage'[r].author)
               /\ target[r] # NoPrice =>
                    \E i \in DOMAIN ledger'[c] : ledger'[c][i].run = r
    <3>1. CASE status[r] = "succeeded"
      BY <1>2, <3>1 DEF Sound, EarnsSuccess, LedgerFitsStages, Registering
    <3>2. CASE AllTerminal(r) /\ ~AnyFailed(r)
      BY <1>2, <1>11, <3>2 DEF Delivered, HasResult
    <3> QED BY <1>9, <2>1, <3>1, <3>2
  <2>2. \A d \in Coverages : cov'[d] = "decision_pending" =>
          \/ cov[d] = "decision_pending"
          \/ /\ d = c /\ TypeOf[r] = "initiation"
             /\ HasResult(stage'[r].author) /\ HasResult(stage'[r].finalizer)
    BY <1>9, <1>11 DEF HasResult
  <2> QED BY <1>1, <1>9, <2>1, <2>2 DEF RunMoves, Registering, Tables
<1> QED BY <1>2, <1>9, <1>10, <1>12

\* A running run is advanced.
LEMMA AdvanceKeepsInv ==
  ASSUME IInv, NEW r \in Runs, AdvanceRun(r)
  PROVE  IInv'
<1>1. /\ Tables' \in TableTypes
      /\ dirty' \subseteq Runs
      /\ \A q \in Runs : cancel[q] = "holding" => lock'[CovOf[q]] = q
      /\ Registering \in TableTypes /\ Sound(Registering)
      /\ RunMoves(Registering, Tables', r)
  BY SettlingMoves
<1>2. /\ TypeOK /\ Sound(Tables)
      /\ phase' = "advance" /\ todo' \subseteq Runs
      /\ ledger' = LedgerAfter(r)
      /\ stage' = IF NeedsCrossCheck(r)
                    THEN [stage EXCEPT ![r].cross_check = "queued"] ELSE stage
      /\ UNCHANGED <<target, committed, stray, cancel, crashes>>
  BY DEF IInv, TypeOK, AdvanceRun
<1>3. TypeOK'
  BY <1>1, <1>2 DEF TypeOK
<1>4. Sound(Tables)'
  BY <1>1, MoveIsSound
<1>5. CommittedResultsStay'
  BY <1>2, RegisteringIsSound DEF IInv, CommittedResultsStay
<1>6. Sound(committed)' /\ HoldersOwnLock'
  BY <1>1, <1>2 DEF IInv, HoldersOwnLock
<1> QED BY <1>3, <1>4, <1>5, <1>6 DEF IInv

-----------------------------------------------------------------------------
(***************************************************************************)
(* The theorems.                                                           *)
(***************************************************************************)

LEMMA InitIsSound == Init => IInv
<1> SUFFICES ASSUME Init PROVE IInv
  OBVIOUS
<1>1. /\ status = [r \in Runs |-> "queued"]
      /\ lock = [c \in Coverages |-> NoRun]
      /\ cov \in [Coverages -> FirstCov]
      /\ stage = [r \in Runs |->
           [author |-> "queued", cross_check |-> "absent",
            finalizer |-> IF TypeOf[r] = "initiation" THEN "queued" ELSE "absent"]]
      /\ target = [r \in Runs |-> NoPrice]
      /\ ledger = [c \in Coverages |-> <<>>]
      /\ committed = Tables
      /\ cancel = [r \in Runs |-> "none"]
  BY DEF Init
<1>2. Tables \in TableTypes
  <2>1. stage \in [Runs -> [Roles -> {"absent"} \cup Pending \cup Terminal]]
    BY <1>1 DEF Roles, Pending
  <2>2. cov \in [Coverages -> {"proposed", "initiating", "decision_pending", "failed", "active"}]
    BY <1>1, TickAssumption
  <2> QED BY <1>1, <2>1, <2>2 DEF TableTypes, Tables
<1>3. TypeOK
  BY <1>1, <1>2, TickAssumption DEF TypeOK, Init
<1>4. Sound(Tables)
  <2>1. RunningHoldsLock(Tables) /\ KeepsPlan(Tables)
    BY <1>1 DEF RunningHoldsLock, KeepsPlan, Tables
  <2>2. \A c \in Coverages : DOMAIN ledger[c] = {} /\ Len(ledger[c]) = 0
    BY <1>1
  <2>3. ChecksMaterialChanges(Tables) /\ HasNoRepeats(Tables) /\ LedgerFitsStages(Tables)
    BY <1>1, <2>2 DEF ChecksMaterialChanges, HasNoRepeats, LedgerFitsStages, Tables
  <2>4. EarnsSuccess(Tables)
    BY <1>1, TickAssumption DEF EarnsSuccess, Tables
  <2> QED BY <2>1, <2>3, <2>4 DEF Sound
<1>5. Sound(committed)
  BY <1>1, <1>4
<1>6. CommittedResultsStay /\ HoldersOwnLock
  BY <1>1 DEF CommittedResultsStay, HoldersOwnLock, Tables
<1> QED BY <1>3, <1>4, <1>5, <1>6 DEF IInv

\* What ticks, workers, runners and cancel requests do, committed or undone,
\* keeps both copies of the tables sound.
THEOREM InductiveInvariant == Spec => []IInv
<1>1. IInv /\ [Next]_vars => IInv'
  <2> SUFFICES ASSUME IInv, [Next]_vars PROVE IInv'
    OBVIOUS
  <2>1. CASE TickBegin \/ SelectRunning
    BY <2>1, SelectKeepsInv
  <2>2. CASE TickCommit
    BY <2>2, CommitKeepsInv
  <2>3. CASE TickRaises \/ TickIsVictim \/ TickCrashes
    BY <2>3, UndoKeepsInv
  <2>4. ASSUME NEW r \in Runs, PromoteRun(r) PROVE IInv'
    BY <2>4, PromoteKeepsInv
  <2>5. ASSUME NEW r \in Runs, AdvanceRun(r) PROVE IInv'
    BY <2>5, AdvanceKeepsInv
  <2>6. ASSUME NEW r \in Runs, NEW role \in Roles, WorkerEnds(r, role) PROVE IInv'
    BY <2>6, WorkerKeepsInv
  <2>7. ASSUME NEW r \in Runs, NEW role \in Roles, Drain(r, role) PROVE IInv'
    BY <2>7, DrainKeepsInv
  <2>8. ASSUME NEW r \in Runs, NEW role \in Roles, BackoffEnds(r, role) PROVE IInv'
    BY <2>8, BackoffKeepsInv
  <2>9. ASSUME NEW r \in Runs, CancelRead(r) \/ CancelDelete(r) \/ CancelAborts(r)
        PROVE  IInv'
    BY <2>9, CancelWaitsKeepsInv
  <2>10. ASSUME NEW r \in Runs, CancelCommit(r) PROVE IInv'
    BY <2>10, CancelCommitKeepsInv
  <2>11. ASSUME NEW r \in Runs, NEW role \in Roles, LateFailure(r, role) PROVE IInv'
    BY <2>11, LateFailureKeepsInv
  <2>12. CASE UNCHANGED vars
    <3>1. /\ UNCHANGED <<status, lock, cov, stage, target, ledger, committed>>
          /\ UNCHANGED <<dirty, phase, todo, stray, cancel, crashes>>
      BY <2>12 DEF vars
    <3>2. Tables' = Tables
      BY <3>1 DEF Tables
    <3>3. TypeOK' /\ Sound(Tables)' /\ Sound(committed)'
      BY <3>1, <3>2 DEF IInv, TypeOK
    <3> QED BY <3>1, <3>3 DEF IInv, CommittedResultsStay, HoldersOwnLock
  <2> QED
    BY <2>1, <2>2, <2>3, <2>4, <2>5, <2>6, <2>7, <2>8, <2>9, <2>10, <2>11, <2>12
      DEF Next, Tick, Stages, Cancel
<1> QED BY <1>1, InitIsSound, PTL DEF Spec

\* The tables have their types in both copies, and they are one between ticks.
THEOREM TypeCorrect == Spec => []TypeOK
<1>1. IInv => TypeOK
  BY DEF IInv
<1> QED BY <1>1, InductiveInvariant, PTL

\* No material change of a target price is registered without a cross-check in
\* the same commit (advance_run, _maybe_append_cross_check).
THEOREM MaterialChangesAreChecked == Spec => []MaterialChangeHasCrossCheck
<1>1. IInv => MaterialChangeHasCrossCheck
  BY DEF IInv, Sound, MaterialChangeHasCrossCheck
<1> QED BY <1>1, InductiveInvariant, PTL

\* A stage predicts once, however many ticks look at it or are repeated
\* (register_from_stage).
THEOREM OnePredictionPerStage == Spec => []PredictsOnce
<1>1. IInv => PredictsOnce
  BY DEF IInv, Sound, PredictsOnce
<1> QED BY <1>1, InductiveInvariant, PTL

\* A prediction is kept only with the result it came from, and what a succeeded
\* run predicted is kept (_register_predictions and finish_run share the tick's
\* transaction; fail_stage leaves the result).
THEOREM LedgerFollowsCommits == Spec => []PredictionsAreDelivered
<1>1. IInv => PredictionsAreDelivered
  BY DEF IInv, Sound, PredictionsAreDelivered
<1> QED BY <1>1, InductiveInvariant, PTL

\* A committed success, and a coverage put before the PM, have the results of
\* the planned stages behind them (advance_run, finalize_run), whatever reaped
\* workers report before or after (fail_stage).
THEOREM SuccessNeedsStages == Spec => []SuccessIsEarned
<1>1. IInv => SuccessIsEarned
  BY DEF IInv, Sound, SuccessIsEarned
<1> QED BY <1>1, InductiveInvariant, PTL

\* Two runs of one coverage are never running together, in any order of ticks,
\* cancel requests and crashes (start_run, acquire_run_lock).
THEOREM RunsExcludeEachOther == Spec => []OneRunningRun
<1>1. IInv => OneRunningRun
  BY DEF IInv, Sound, RunningHoldsLock, OneRunningRun
<1> QED BY <1>1, InductiveInvariant, PTL

=============================================================================
