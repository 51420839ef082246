------------------------------- MODULE Outbox -------------------------------
(***************************************************************************)
(* The transactional outbox (core/db/repo/outbox.py): publish inside the   *)
(* transaction of a domain fact, consume / ack / nack by consumers that    *)
(* post the events elsewhere.                                              *)
(*                                                                         *)
(* A publishing transaction is several steps, because publish reads before *)
(* it inserts and its caller commits later; consume, ack and nack are one  *)
(* committed transaction each.  Consumers live outside core: what a        *)
(* consumer still means to do with the events it was given is work[c],     *)
(* which no table records.                                                 *)
(***************************************************************************)
EXTENDS Integers, FiniteSets

CONSTANTS
  Events,       \* the rows the program may write, one per publishing transaction
  Keys,
  KeyOf,        \* outbox_events.dedupe_key
  Direct,       \* rows added without publish, under a key made with uuid4
  Consumers,
  Limit         \* the batch size consume is called with

ASSUME OutboxAssumption ==
  /\ KeyOf \in [Events -> Keys]
  /\ Direct \subseteq Events
  /\ \A d \in Direct : \A e \in Events : KeyOf[e] = KeyOf[d] => e = d
  /\ Limit \in Nat \ {0}

VARIABLES
  txn,         \* the publishing transaction
  row,         \* outbox_events: absent, inserted (not committed), or committed
  due,         \* available_at <= now
  ahead,       \* the order of available_at, on the undelivered committed rows
  lease,       \* lease_expires_at: NULL, in the future, in the past
  work,        \* what each consumer still has to do for an event it was given
  posted,      \* the events that were posted
  lapsed       \* the events whose lease ran out at some time (history)

rowVars == <<row, due, ahead, lease>>
vars == <<txn, row, due, ahead, lease, work, posted, lapsed>>

Committed == {"pending", "delivered"}

\* Committed and not delivered: the rows that are in the order.
Waiting == {e \in Events : row[e] = "pending"}

RowsOK ==
  /\ txn \in [Events -> {"idle", "checked", "inserted", "committed", "rolled_back"}]
  /\ row \in [Events -> {"none", "inserted"} \cup Committed]
  /\ due \in [Events -> BOOLEAN]
  /\ lease \in [Events -> {"none", "live", "expired"}]
  /\ work \in [Consumers -> [Events -> {"none", "claimed", "posted"}]]
  /\ posted \subseteq Events
  /\ lapsed \subseteq Events

\* The rows that wait stand in one line, the ones that are due before the ones
\* that back off.
OrderOK ==
  /\ ahead \subseteq Waiting \X Waiting
  /\ \A e, f \in Waiting : <<e, f>> \in ahead <=> e # f /\ <<f, e>> \notin ahead
  /\ \A e, f, g \in Waiting : <<e, f>> \in ahead /\ <<f, g>> \in ahead => <<e, g>> \in ahead
  /\ \A e, f \in Waiting : due[e] /\ ~due[f] => <<e, f>> \in ahead

TypeOK == RowsOK /\ OrderOK

Init ==
  /\ txn = [e \in Events |-> "idle"]
  /\ row = [e \in Events |-> "none"]
  /\ due = [e \in Events |-> TRUE]
  /\ ahead = {}
  /\ lease = [e \in Events |-> "none"]
  /\ work = [c \in Consumers |-> [e \in Events |-> "none"]]
  /\ posted = {}
  /\ lapsed = {}

-----------------------------------------------------------------------------
(***************************************************************************)
(* The publishing transaction.                                             *)
(***************************************************************************)

Bug_Visible(e) == \E f \in Events : KeyOf[f] = KeyOf[e] /\ row[f] # "none"

\* READ COMMITTED: the SELECT of publish only sees committed rows.
Visible(e) == \E f \in Events : KeyOf[f] = KeyOf[e] /\ row[f] \in Committed

\* publish, its SELECT.  On a hit it returns, and the caller's transaction goes
\* on to commit the domain fact without a row of its own.
PublishCheck(e) ==
  /\ e \notin Direct
  /\ txn[e] = "idle"
  /\ txn' = [txn EXCEPT ![e] = IF Visible(e) THEN "committed" ELSE "checked"]
  /\ UNCHANGED <<rowVars, work, posted, lapsed>>

\* The unique index on dedupe_key.
KeyTaken(e) == \E f \in Events \ {e} : KeyOf[f] = KeyOf[e] /\ row[f] \in Committed

KeyPending(e) == \E f \in Events \ {e} : KeyOf[f] = KeyOf[e] /\ row[f] = "inserted"

\* publish, its INSERT and flush, or the bare session.add of finish_run and of
\* the coverage repository.  An insert that meets an uncommitted row of its key
\* waits for that transaction; one that meets a committed row raises, and the
\* domain fact is rolled back with it.
PublishInsert(e) ==
  /\ \/ txn[e] = "checked"
     \/ e \in Direct /\ txn[e] = "idle"
  /\ ~KeyPending(e)
  /\ \/ /\ KeyTaken(e)
        /\ txn' = [txn EXCEPT ![e] = "rolled_back"]
        /\ UNCHANGED row
     \/ /\ ~KeyTaken(e)
        /\ txn' = [txn EXCEPT ![e] = "inserted"]
        /\ row' = [row EXCEPT ![e] = "inserted"]
  /\ UNCHANGED <<due, ahead, lease, work, posted, lapsed>>

\* The rows that may be ahead of a new one: the first so many of the due ones.
Fronts ==
  {S \in SUBSET {f \in Waiting : due[f]} :
     \A f \in S, g \in Waiting : <<g, f>> \in ahead => g \in S}

\* available_at defaults to now(), the start of the transaction: a late committer
\* goes ahead of rows that are there, and rows of one transaction tie.  In any
\* case it is ahead of the ones that back off.
PublishCommit(e) ==
  /\ txn[e] = "inserted"
  /\ txn' = [txn EXCEPT ![e] = "committed"]
  /\ row' = [row EXCEPT ![e] = "pending"]
  /\ \E front \in Fronts : ahead' = ahead \cup (front \X {e}) \cup ({e} \X (Waiting \ front))
  /\ UNCHANGED <<due, lease, work, posted, lapsed>>

\* The caller raises, or its process dies, before the commit.
PublishRollback(e) ==
  /\ txn[e] \in {"checked", "inserted"}
  /\ txn' = [txn EXCEPT ![e] = "rolled_back"]
  /\ row' = [row EXCEPT ![e] = "none"]
  /\ UNCHANGED <<due, ahead, lease, work, posted, lapsed>>

\* The request is made again.
PublishRetry(e) ==
  /\ txn[e] = "rolled_back"
  /\ txn' = [txn EXCEPT ![e] = "idle"]
  /\ UNCHANGED <<rowVars, work, posted, lapsed>>

-----------------------------------------------------------------------------
(***************************************************************************)
(* consume, ack, nack, and the consumers.                                  *)
(***************************************************************************)

\* No second chance for a row whose consumer died.
Bug_Eligible(e) == row[e] = "pending" /\ due[e] /\ lease[e] = "none"

\* The lease is not looked at.
Bug_EligibleLeased(e) == row[e] = "pending" /\ due[e]

Eligible(e) == row[e] = "pending" /\ due[e] /\ lease[e] \in {"none", "expired"}

AheadOf(e) == {f \in Events : <<f, e>> \in ahead}

\* ORDER BY available_at ... LIMIT.
Batch == {e \in Events : Eligible(e) /\ Cardinality({f \in AheadOf(e) : Eligible(f)}) < Limit}

\* SKIP LOCKED: concurrent calls behave as if one came first.  The columns
\* claimed_by and attempts are written here and never read.
Consume(c) ==
  /\ \A e \in Events : work[c][e] = "none"
  /\ Batch # {}
  /\ lease' = [e \in Events |-> IF e \in Batch THEN "live" ELSE lease[e]]
  /\ work' = [work EXCEPT ![c] =
                [e \in Events |-> IF e \in Batch THEN "claimed" ELSE "none"]]
  /\ UNCHANGED <<txn, row, due, ahead, posted, lapsed>>

\* The consumer posts the event, possibly long after its lease ran out.
Post(c, e) ==
  /\ work[c][e] = "claimed"
  /\ work' = [work EXCEPT ![c][e] = "posted"]
  /\ posted' = posted \cup {e}
  /\ UNCHANGED <<txn, rowVars, lapsed>>

Bug_WithoutRow(e) == ahead

WithoutRow(e) == {pair \in ahead : e \notin {pair[1], pair[2]}}

\* Its new available_at is behind every other.
MovedBack(e) == WithoutRow(e) \cup ((Waiting \ {e}) \X {e})

\* ack does not ask who holds the row.
Ack(c, e) ==
  /\ work[c][e] = "posted"
  /\ work' = [work EXCEPT ![c][e] = "none"]
  /\ row' = [row EXCEPT ![e] = "delivered"]
  /\ ahead' = WithoutRow(e)
  /\ lease' = [lease EXCEPT ![e] = "none"]
  /\ UNCHANGED <<txn, due, posted, lapsed>>

\* nack puts the row back among the pending ones, whatever it is.
Bug_Nack(c, e) ==
  /\ work[c][e] = "claimed"
  /\ work' = [work EXCEPT ![c][e] = "none"]
  /\ row' = [row EXCEPT ![e] = "pending"]
  /\ due' = [due EXCEPT ![e] = FALSE]
  /\ ahead' = MovedBack(e)
  /\ lease' = [lease EXCEPT ![e] = "none"]
  /\ UNCHANGED <<txn, posted, lapsed>>

\* Neither does nack; it leaves delivered_at alone.  The backoff is a constant
\* of the caller, so a row that backs off goes behind the ones that already do.
Nack(c, e) ==
  /\ work[c][e] = "claimed"
  /\ work' = [work EXCEPT ![c][e] = "none"]
  /\ due' = [due EXCEPT ![e] = FALSE]
  /\ ahead' = IF row[e] = "delivered" THEN ahead ELSE MovedBack(e)
  /\ lease' = [lease EXCEPT ![e] = "none"]
  /\ UNCHANGED <<txn, row, posted, lapsed>>

\* The consumer forgets what it was given, between any two of its steps.
ConsumerDies(c) ==
  /\ \E e \in Events : work[c][e] # "none"
  /\ work' = [work EXCEPT ![c] = [e \in Events |-> "none"]]
  /\ UNCHANGED <<txn, rowVars, posted, lapsed>>

LeaseExpires(e) ==
  /\ lease[e] = "live"
  /\ lease' = [lease EXCEPT ![e] = "expired"]
  /\ lapsed' = lapsed \cup {e}
  /\ UNCHANGED <<txn, row, due, ahead, work, posted>>

BackoffElapses(e) ==
  /\ ~due[e]
  /\ due' = [due EXCEPT ![e] = TRUE]
  /\ ahead' = {pair \in Waiting \X Waiting :
                 \/ due'[pair[1]] /\ ~due'[pair[2]]
                 \/ due'[pair[1]] = due'[pair[2]] /\ pair \in ahead}
  /\ UNCHANGED <<txn, row, lease, work, posted, lapsed>>

-----------------------------------------------------------------------------
Publisher(e) ==
  PublishCheck(e) \/ PublishInsert(e) \/ PublishCommit(e) \/ PublishRollback(e)
    \/ PublishRetry(e)

Handle(c, e) == Post(c, e) \/ Ack(c, e) \/ Nack(c, e)

Next ==
  \/ \E e \in Events : Publisher(e) \/ LeaseExpires(e) \/ BackoffElapses(e)
  \/ \E c \in Consumers : Consume(c) \/ ConsumerDies(c) \/ \E e \in Events : Handle(c, e)

Spec == Init /\ [][Next]_vars

(***************************************************************************)
(* Fairness: a consumer keeps polling and ends what it took one way or the *)
(* other, clocks advance, and posting does not fail for ever: an event     *)
(* that is claimed again and again is acked in the end.                    *)
(***************************************************************************)
Fairness ==
  /\ \A c \in Consumers :
       WF_vars(Consume(c)) /\ WF_vars(ConsumerDies(c) \/ \E e \in Events : Handle(c, e))
  /\ \A e \in Events :
       /\ WF_vars(LeaseExpires(e)) /\ WF_vars(BackoffElapses(e))
       /\ SF_vars(\E c \in Consumers : Post(c, e))
       /\ SF_vars(\E c \in Consumers : Ack(c, e))

FairSpec == Spec /\ Fairness

-----------------------------------------------------------------------------
(***************************************************************************)
(* Properties.                                                             *)
(***************************************************************************)

\* publish and the unique index: however the transactions of two publishers
\* interleave, fail and are retried, a dedupe_key never has two rows.
OneRowPerKey ==
  \A e, f \in Events :
    KeyOf[e] = KeyOf[f] /\ row[e] # "none" /\ row[f] # "none" => e = f

\* SPEC-DOMAIN 4.22: a fact that was committed has its event in the table, its
\* own or the one its dedupe_key names, which will not be rolled back any more.
FactHasEvent ==
  \A e \in Events :
    txn[e] = "committed" =>
      \E f \in Events : KeyOf[f] = KeyOf[e] /\ row[f] \in Committed

\* SPEC-DOMAIN 9.3: consume does not hand one row to two consumers, as long as
\* the row's lease has never run out under one of them.
ExclusiveUntilLapse ==
  \A e \in Events \ lapsed : \A c, d \in Consumers :
    work[c][e] # "none" /\ work[d][e] # "none" => c = d

Channel ==
  INSTANCE EventChannel WITH
    sent <- {e \in Events : row[e] \in Committed},
    received <- posted,
    settled <- {e \in Events : row[e] = "delivered"}

\* The outbox implements the at-least-once channel: under late acks and nacks
\* of consumers that lost their lease, no row is delivered before it was
\* posted, and no delivered row comes back.
ImplementsChannel == Channel!Spec

\* Nothing stays behind: every committed event is posted and acked in the end,
\* through crashes of consumers, lost leases, failed posts and batches that
\* hold fewer rows than wait.
EverythingIsDelivered == Channel!EverySentIsSettled

=============================================================================
