-------------------------- MODULE PmRequestsProofs --------------------------
(***************************************************************************)
(* Proofs about PmRequests, for any number of requests, keys, bodies and   *)
(* coverages.  The inductive invariant ties the three places a key can be: *)
(* in an open transaction (keyOwner), in the committed table (record) and  *)
(* in a request that has taken effect (pc = "committed").                  *)
(***************************************************************************)
EXTENDS PmRequests, TLAPS

\* A request past its INSERT owns the key, and nobody has committed that key.
KeysAreHeld ==
  \A r \in Requests : pc[r] = "stored" =>
    keyOwner[req[r].key] = r /\ record[req[r].key] = NoRequest

\* A record of the committed table is that of a request that took effect.
RecordsAreCommitted ==
  \A k \in Keys : record[k] # NoRequest =>
    pc[record[k]] = "committed" /\ req[record[k]].key = k

IInv ==
  /\ TypeOK
  /\ KeysAreHeld
  /\ RecordsAreCommitted
  /\ EffectsAreRecorded
  /\ ReplaysAreEarned

\* In the initial states no request has reached the database.
LEMMA InitInv == ASSUME Init PROVE IInv
<1> USE RequestsAssumption
<1>1. TypeOK
  BY DEF Init, TypeOK, Asks, Open, Closed, CoverageStates
<1>2. KeysAreHeld /\ RecordsAreCommitted /\ EffectsAreRecorded /\ ReplaysAreEarned
  BY DEF Init, KeysAreHeld, RecordsAreCommitted, EffectsAreRecorded, ReplaysAreEarned
<1> QED BY <1>1, <1>2 DEF IInv

\* A rolled back request keeps the invariant: it leaves no trace but its end.
LEMMA RollbackInv ==
  ASSUME IInv, NEW r \in Requests, pc[r] \in Open, NEW why \in {"refused", "failed"},
         Rollback(r, why)
  PROVE  IInv'
<1> USE RequestsAssumption DEF IInv
<1>1. TypeOK'
  BY DEF TypeOK, Rollback, Goto, ReleaseRows, Closed
<1>2. /\ pc' = [pc EXCEPT ![r] = why]
      /\ pc[r] \notin Closed
      /\ UNCHANGED <<record, req, answer>>
      /\ \A k \in Keys : keyOwner[k] # r => keyOwner'[k] = keyOwner[k]
  BY DEF Rollback, Goto, ReleaseRows, Open, Closed
<1>3. KeysAreHeld'
  BY <1>2 DEF KeysAreHeld, TypeOK, Asks
<1>4. RecordsAreCommitted'
  BY <1>2 DEF RecordsAreCommitted, TypeOK, Closed
<1>5. EffectsAreRecorded'
  BY <1>2 DEF EffectsAreRecorded, TypeOK
<1>6. ReplaysAreEarned'
  BY <1>2 DEF ReplaysAreEarned, TypeOK, Closed
<1> QED BY <1>1, <1>3, <1>4, <1>5, <1>6

\* Lookup replays only what RecordsAreCommitted says has taken effect.
LEMMA LookupInv == ASSUME IInv, NEW r \in Requests, Lookup(r) PROVE IInv'
<1> USE RequestsAssumption DEF IInv
<1>1. TypeOK'
  BY DEF TypeOK, Lookup, Goto, Open, Closed, Asks
<1>2. /\ pc[r] = "sent"
      /\ \A q \in Requests \ {r} : pc'[q] = pc[q] /\ answer'[q] = answer[q]
      /\ pc'[r] \in {"looked", "replayed", "refused"}
      /\ UNCHANGED <<record, keyOwner, req>>
  BY DEF TypeOK, Lookup, Goto
<1>3. KeysAreHeld'
  BY <1>2 DEF KeysAreHeld, TypeOK
<1>4. RecordsAreCommitted'
  BY <1>2 DEF RecordsAreCommitted, TypeOK
<1>5. EffectsAreRecorded'
  BY <1>2 DEF EffectsAreRecorded, TypeOK
<1>6. ReplaysAreEarned'
  <2> SUFFICES ASSUME NEW q \in Requests, pc'[q] = "replayed"
               PROVE  /\ answer'[q] \in Requests
                      /\ pc'[answer'[q]] = "committed"
                      /\ req'[answer'[q]].key = req'[q].key
                      /\ req'[answer'[q]].body = req'[q].body
    BY DEF ReplaysAreEarned
  <2>1. CASE q = r
    <3>1. /\ record[req[r].key] # NoRequest
          /\ answer'[r] = record[req[r].key]
          /\ SameBody(r, record[req[r].key])
      BY <2>1 DEF Lookup, Goto, TypeOK
    <3>2. req[r].key \in Keys
      BY DEF TypeOK, Asks
    <3> QED BY <2>1, <3>1, <3>2, <1>2 DEF RecordsAreCommitted, SameBody, TypeOK
  <2>2. CASE q # r
    BY <2>2, <1>2 DEF ReplaysAreEarned, TypeOK
  <2> QED BY <2>1, <2>2
<1> QED BY <1>1, <1>3, <1>4, <1>5, <1>6

\* Read and Write touch neither keys nor records.
LEMMA ReadWriteInv ==
  ASSUME IInv, NEW r \in Requests, Read(r) \/ Write(r) PROVE IInv'
<1> USE RequestsAssumption DEF IInv
<1>1. CASE Read(r) /\ pc'[r] # "read"
  <2>1. pc[r] \in Open /\ Rollback(r, "refused")
    BY <1>1 DEF Read, Goto, Open, TypeOK
  <2> QED BY <2>1, RollbackInv
<1>2. CASE (Read(r) /\ pc'[r] = "read") \/ Write(r)
  <2>1. /\ pc[r] \in {"looked", "read"}
        /\ pc'[r] \in {"read", "written"}
        /\ \A q \in Requests \ {r} : pc'[q] = pc[q]
        /\ UNCHANGED <<record, keyOwner, req, answer>>
    BY <1>2 DEF Read, Write, Rollback, Goto, TypeOK
  <2>2. TypeOK'
    <3>1. CASE Read(r) /\ pc'[r] = "read"
      <4>1. req[r].cov \in Coverages
        BY DEF TypeOK, Asks
      <4>2. from' = [from EXCEPT ![r] = cov[req[r].cov]] /\ UNCHANGED <<cov, rowOwner>>
        BY <3>1 DEF Read, Rollback, Goto, TypeOK
      <4>3. pc' = [pc EXCEPT ![r] = "read"]
        BY <3>1 DEF Read, Rollback, Goto, TypeOK
      <4> QED BY <2>1, <4>1, <4>2, <4>3 DEF TypeOK, Open
    <3>2. CASE Write(r)
      BY <2>1, <3>2 DEF TypeOK, Write, Goto, Open
    <3> QED BY <1>2, <3>1, <3>2
  <2>3. KeysAreHeld'
    BY <2>1 DEF KeysAreHeld, TypeOK
  <2>4. RecordsAreCommitted'
    BY <2>1 DEF RecordsAreCommitted, TypeOK
  <2>5. EffectsAreRecorded'
    BY <2>1 DEF EffectsAreRecorded, TypeOK
  <2>6. ReplaysAreEarned'
    BY <2>1 DEF ReplaysAreEarned, TypeOK
  <2> QED BY <2>2, <2>3, <2>4, <2>5, <2>6
<1> QED BY <1>1, <1>2

\* Store takes a key that neither a transaction nor the table has.
LEMMA StoreInv == ASSUME IInv, NEW r \in Requests, Store(r) PROVE IInv'
<1> USE RequestsAssumption DEF IInv
<1>1. CASE KeyTaken(req[r].key)
  <2>1. pc[r] \in Open /\ Rollback(r, "failed")
    BY <1>1 DEF Store, Open
  <2> QED BY <2>1, RollbackInv
<1>2. CASE ~KeyTaken(req[r].key)
  <2>1. /\ pc[r] = "written"
        /\ keyOwner[req[r].key] = NoRequest
        /\ record[req[r].key] = NoRequest
        /\ keyOwner' = [keyOwner EXCEPT ![req[r].key] = r]
        /\ pc' = [pc EXCEPT ![r] = "stored"]
        /\ UNCHANGED <<record, req, answer>>
    BY <1>2 DEF Store, Goto, KeyTaken
  <2>2. req[r].key \in Keys
    BY DEF TypeOK, Asks
  <2>3. TypeOK'
    BY <1>2, <2>1 DEF TypeOK, Store, Open
  <2>4. KeysAreHeld'
    BY <2>1, <2>2 DEF KeysAreHeld, TypeOK, Asks
  <2>5. RecordsAreCommitted'
    BY <2>1 DEF RecordsAreCommitted, TypeOK
  <2>6. EffectsAreRecorded'
    BY <2>1 DEF EffectsAreRecorded, TypeOK
  <2>7. ReplaysAreEarned'
    BY <2>1 DEF ReplaysAreEarned, TypeOK
  <2> QED BY <2>3, <2>4, <2>5, <2>6, <2>7
<1> QED BY <1>1, <1>2

\* Commit records a key that was free, so no earlier record is lost, and that
\* no other open transaction owns.
LEMMA CommitInv == ASSUME IInv, NEW r \in Requests, Commit(r) PROVE IInv'
<1> USE RequestsAssumption DEF IInv
<1>1. /\ pc[r] = "stored"
      /\ pc' = [pc EXCEPT ![r] = "committed"]
      /\ record' = [record EXCEPT ![req[r].key] = r]
      /\ UNCHANGED <<req, answer, from>>
      /\ \A k \in Keys : keyOwner'[k] = IF keyOwner[k] = r THEN NoRequest ELSE keyOwner[k]
  BY DEF Commit, Goto, ReleaseRows
<1>2. /\ req[r].key \in Keys
      /\ keyOwner[req[r].key] = r
      /\ record[req[r].key] = NoRequest
  BY <1>1 DEF TypeOK, Asks, KeysAreHeld
<1>3. TypeOK'
  <2>1. cov' \in [Coverages -> CoverageStates]
    BY DEF Commit, TypeOK
  <2>2. /\ rowOwner' \in [Coverages -> Requests \cup {NoRequest}]
        /\ keyOwner' \in [Keys -> Requests \cup {NoRequest}]
    BY DEF Commit, ReleaseRows, TypeOK
  <2>3. record' \in [Keys -> Requests \cup {NoRequest}]
    BY <1>1, <1>2 DEF TypeOK
  <2>4. pc' \in [Requests -> {"sent"} \cup Open \cup Closed]
    BY <1>1 DEF TypeOK, Closed
  <2> QED BY <1>1, <2>1, <2>2, <2>3, <2>4 DEF TypeOK
<1>4. KeysAreHeld'
  BY <1>1, <1>2 DEF KeysAreHeld, TypeOK, Asks
<1>5. RecordsAreCommitted'
  BY <1>1, <1>2 DEF RecordsAreCommitted, TypeOK
<1>6. EffectsAreRecorded'
  BY <1>1, <1>2 DEF EffectsAreRecorded, TypeOK
<1>7. ReplaysAreEarned'
  BY <1>1 DEF ReplaysAreEarned, TypeOK
<1> QED BY <1>3, <1>4, <1>5, <1>6, <1>7

\* The invariant of every behaviour: each step of a request keeps it.
THEOREM InductiveInvariant == Spec => []IInv
<1>1. Init => IInv
  BY InitInv
<1>2. IInv /\ [Next]_vars => IInv'
  <2> SUFFICES ASSUME IInv, [Next]_vars PROVE IInv'
    OBVIOUS
  <2>1. ASSUME NEW r \in Requests, Step(r) PROVE IInv'
    BY <2>1, LookupInv, ReadWriteInv, StoreInv, CommitInv DEF Step
  <2>2. ASSUME NEW r \in Requests, Crash(r) PROVE IInv'
    BY <2>2, RollbackInv DEF Crash
  <2>3. CASE UNCHANGED vars
    BY <2>3 DEF vars, IInv, TypeOK, KeysAreHeld, RecordsAreCommitted,
                EffectsAreRecorded, ReplaysAreEarned
  <2> QED BY <2>1, <2>2, <2>3 DEF Next, Finished
<1> QED BY <1>1, <1>2, PTL DEF Spec

\* deps.Idempotency: for any number of concurrent requests and retries, a key
\* takes effect at most once.
THEOREM KeysTakeEffectOnce == Spec => []OneEffectPerKey
<1>1. IInv => OneEffectPerKey
  BY DEF IInv, EffectsAreRecorded, OneEffectPerKey
<1> QED BY <1>1, InductiveInvariant, PTL

\* deps.idempotency: a replay returns the response of a committed request with
\* the same key and the same body.
THEOREM ReplaysReturnEffects == Spec => []ReplaysAreEarned
<1>1. IInv => ReplaysAreEarned
  BY DEF IInv
<1> QED BY <1>1, InductiveInvariant, PTL

\* Requests, keys, records and coverages keep their types.
THEOREM TypeCorrect == Spec => []TypeOK
<1>1. IInv => TypeOK
  BY DEF IInv
<1> QED BY <1>1, InductiveInvariant, PTL

\* deps.get_session commits route and key together: no effect is without the
\* record that replays it.
THEOREM EffectsHaveRecords == Spec => []EffectsAreRecorded
<1>1. IInv => EffectsAreRecorded
  BY DEF IInv
<1> QED BY <1>1, InductiveInvariant, PTL

=============================================================================
