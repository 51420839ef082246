----------------------------- MODULE PmRequests -----------------------------
(***************************************************************************)
(* Concurrent PM requests (core/api/deps.py and the coverage routes of     *)
(* core/api/routes.py) as database transactions.  The routes are plain     *)
(* functions that FastAPI runs in a thread pool, each with a Session of    *)
(* its own, on Postgres at its default isolation, READ COMMITTED: a SELECT *)
(* sees what has been committed, an UPDATE or INSERT waits for the         *)
(* transaction that has written the same row or key.  RunLifecycle takes a *)
(* route as one step; here a request is the sequence                       *)
(*                                                                         *)
(*   Lookup  the idempotency dependency reads idempotency_keys             *)
(*   Read    the route loads the coverage row and asks the state machine   *)
(*   Write   _record flushes the UPDATE of coverage and the history rows   *)
(*   Store   Idempotency.store flushes the INSERT of the key               *)
(*   Commit  get_session commits                                           *)
(*                                                                         *)
(* and other requests run between its steps.                               *)
(***************************************************************************)
EXTENDS CoverageSM

CONSTANTS
  Requests,     \* HTTP requests, a retry being a request of its own
  Keys,         \* Idempotency-Key headers, chosen by the client
  Bodies,       \* request bodies, as body_hash tells them apart
  Ops,          \* the coverage actions sent in this instance
  Coverages,
  NoRequest

VARIABLES
  cov,       \* coverage.state, committed
  rowOwner,  \* the open transaction that has updated the coverage row
  record,    \* idempotency_keys, committed: the request that stored the key
  keyOwner,  \* the open transaction that has inserted the key
  req,       \* what each request asks for
  pc,        \* how far each request is
  from,      \* the coverage state the request has read
  answer     \* the request whose stored response was returned as a replay

vars == <<cov, rowOwner, record, keyOwner, req, pc, from, answer>>

\* The routes that only move the coverage: promote, demote, exit, re-propose.
AllOps == {"promote", "demote", "exit", "re_propose"}

ASSUME RequestsAssumption ==
  /\ NoRequest \notin Requests
  /\ Ops \subseteq AllOps

Asks == [key : Keys, body : Bodies, op : AllOps, cov : Coverages]
Open == {"looked", "read", "written", "stored"}
Closed == {"committed", "replayed", "refused", "failed"}

TypeOK ==
  /\ cov \in [Coverages -> CoverageStates]
  /\ rowOwner \in [Coverages -> Requests \cup {NoRequest}]
  /\ record \in [Keys -> Requests \cup {NoRequest}]
  /\ keyOwner \in [Keys -> Requests \cup {NoRequest}]
  /\ req \in [Requests -> Asks]
  /\ pc \in [Requests -> {"sent"} \cup Open \cup Closed]
  /\ from \in [Requests -> CoverageStates]
  /\ answer \in [Requests -> Requests \cup {NoRequest}]

Init ==
  /\ cov = [c \in Coverages |-> "active"]
  /\ rowOwner = [c \in Coverages |-> NoRequest]
  /\ record = [k \in Keys |-> NoRequest]
  /\ keyOwner = [k \in Keys |-> NoRequest]
  /\ req \in [Requests -> [key : Keys, body : Bodies, op : Ops, cov : Coverages]]
  /\ pc = [r \in Requests |-> "sent"]
  /\ from = [r \in Requests |-> "active"]
  /\ answer = [r \in Requests |-> NoRequest]

Goto(r, l) == pc' = [pc EXCEPT ![r] = l]

\* An aborted INSERT is taken for the row it would have written.
Bug_ReleaseRows(r) ==
  /\ rowOwner' = [c \in Coverages |-> IF rowOwner[c] = r THEN NoRequest ELSE rowOwner[c]]
  /\ UNCHANGED keyOwner

\* The end of the transaction, either way, lets the waiting requests go on.
ReleaseRows(r) ==
  /\ rowOwner' = [c \in Coverages |-> IF rowOwner[c] = r THEN NoRequest ELSE rowOwner[c]]
  /\ keyOwner' = [k \in Keys |-> IF keyOwner[k] = r THEN NoRequest ELSE keyOwner[k]]

\* get_session: whatever was raised, nothing of the request remains.
Rollback(r, why) ==
  /\ Goto(r, why)
  /\ ReleaseRows(r)
  /\ UNCHANGED <<cov, record, req, from, answer>>

-----------------------------------------------------------------------------
Bug_SameBody(r, q) == TRUE

SameBody(r, q) == req[q].body = req[r].body

\* idempotency: a stored key with this body is replayed, with another refused.
Lookup(r) ==
  LET q == record[req[r].key] IN
  /\ pc[r] = "sent"
  /\ \/ /\ q = NoRequest
        /\ Goto(r, "looked")
        /\ UNCHANGED answer
     \/ /\ q # NoRequest /\ SameBody(r, q)
        /\ Goto(r, "replayed")
        /\ answer' = [answer EXCEPT ![r] = q]
     \/ /\ q # NoRequest /\ ~SameBody(r, q)
        /\ Goto(r, "refused")
        /\ UNCHANGED answer
  /\ UNCHANGED <<cov, rowOwner, record, keyOwner, req, from>>

\* _require_coverage and transition: the row is read once, without a lock, and
\* stays in the session's identity map.
Read(r) ==
  /\ pc[r] = "looked"
  /\ \/ /\ \E to \in CoverageStates : <<cov[req[r].cov], req[r].op, to>> \in CoverageEntries
        /\ from' = [from EXCEPT ![r] = cov[req[r].cov]]
        /\ Goto(r, "read")
        /\ UNCHANGED <<cov, rowOwner, record, keyOwner, req, answer>>
     \/ /\ \A to \in CoverageStates : <<cov[req[r].cov], req[r].op, to>> \notin CoverageEntries
        /\ Rollback(r, "refused")

\* _record flushes UPDATE coverage SET state = ... WHERE id = ...: it waits for
\* the row and then overwrites it, whatever state it has by now.
Write(r) ==
  /\ pc[r] = "read"
  /\ rowOwner[req[r].cov] = NoRequest
  /\ rowOwner' = [rowOwner EXCEPT ![req[r].cov] = r]
  /\ Goto(r, "written")
  /\ UNCHANGED <<cov, record, keyOwner, req, from, answer>>

\* No primary key on idempotency_keys.key.
Bug_KeyTaken(k) == FALSE

KeyTaken(k) == record[k] # NoRequest

\* Idempotency.store: the INSERT waits for an uncommitted row with this key; a
\* committed one makes it raise, which get_session turns into a rollback.
Store(r) ==
  LET k == req[r].key IN
  /\ pc[r] = "written"
  /\ keyOwner[k] = NoRequest
  /\ \/ /\ ~KeyTaken(k)
        /\ keyOwner' = [keyOwner EXCEPT ![k] = r]
        /\ Goto(r, "stored")
        /\ UNCHANGED <<cov, rowOwner, record, req, from, answer>>
     \/ /\ KeyTaken(k)
        /\ Rollback(r, "failed")

\* The key is recorded with the body and without the response.
Bug_Commit(r) ==
  /\ pc[r] = "stored"
  /\ \E to \in CoverageStates :
       /\ <<from[r], req[r].op, to>> \in CoverageEntries
       /\ cov' = [cov EXCEPT ![req[r].cov] = to]
  /\ record' = [record EXCEPT ![req[r].key] = req[r].body]
  /\ ReleaseRows(r)
  /\ Goto(r, "committed")
  /\ UNCHANGED <<req, from, answer>>

Commit(r) ==
  /\ pc[r] = "stored"
  /\ \E to \in CoverageStates :
       /\ <<from[r], req[r].op, to>> \in CoverageEntries
       /\ cov' = [cov EXCEPT ![req[r].cov] = to]
  /\ record' = [record EXCEPT ![req[r].key] = r]
  /\ ReleaseRows(r)
  /\ Goto(r, "committed")
  /\ UNCHANGED <<req, from, answer>>

\* The process or its connection dies: Postgres rolls the transaction back.
Crash(r) ==
  /\ pc[r] \in Open
  /\ Rollback(r, "failed")

-----------------------------------------------------------------------------
Step(r) == Lookup(r) \/ Read(r) \/ Write(r) \/ Store(r) \/ Commit(r)

Finished == (\A r \in Requests : pc[r] \in Closed) /\ UNCHANGED vars

Next == (\E r \in Requests : Step(r) \/ Crash(r)) \/ Finished

Spec == Init /\ [][Next]_vars

\* A thread that may go on does; a row lock is given up at the latest when its
\* transaction ends.
FairSpec == Spec /\ \A r \in Requests : WF_vars(Step(r))

-----------------------------------------------------------------------------
(***************************************************************************)
(* Properties.                                                             *)
(***************************************************************************)

\* SPEC-CORE 5.2: a key takes effect at most once, also when the same request
\* is sent twice at a time and neither finds the key.
OneEffectPerKey ==
  \A r, q \in Requests :
    pc[r] = "committed" /\ pc[q] = "committed" /\ req[r].key = req[q].key => r = q

\* SPEC-CORE 5.2: what a replay returns is the response of a request with the
\* same key and body that has taken effect, never of one that was rolled back.
ReplaysAreEarned ==
  \A r \in Requests : pc[r] = "replayed" =>
    /\ answer[r] \in Requests
    /\ pc[answer[r]] = "committed"
    /\ req[answer[r]].key = req[r].key
    /\ req[answer[r]].body = req[r].body

\* A request that took effect can be replayed: its key is on record.
EffectsAreRecorded ==
  \A r \in Requests : pc[r] = "committed" => record[req[r].key] = r

\* Requests never wait for each other in a circle: row and key are taken in
\* the same order, so every request is answered.
RequestsAreAnswered == \A r \in Requests : <>(pc[r] \in Closed)

\* SPEC-DOMAIN 5: the table is complete, a coverage never changes state in a
\* way that is not in it.
LegalMovesOnly ==
  [][\A c \in Coverages : cov'[c] # cov[c] =>
       \E op \in AllOps : <<cov[c], op, cov'[c]>> \in CoverageEntries]_vars

=============================================================================
