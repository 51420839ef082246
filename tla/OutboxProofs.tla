---------------------------- MODULE OutboxProofs ----------------------------
(***************************************************************************)
(* Proofs about Outbox, for any number of events, keys and consumers: the  *)
(* invariants of publish and consume, and that the outbox implements the   *)
(* at-least-once channel.  The order of the rows (ahead) and the size of a *)
(* batch play no part in these: any set of eligible rows will do.  That    *)
(* the order stays one is TypeCorrect, at the end.                         *)
(***************************************************************************)
EXTENDS Outbox, TLAPS

\* A row is as far as the transaction that writes it.
RowsFollowTxns ==
  \A e \in Events :
    /\ row[e] = "inserted" <=> txn[e] = "inserted"
    /\ row[e] \in Committed => txn[e] = "committed"

\* Consumers only ever work on committed rows, and a row is delivered or
\* about to be acked only when its event has been posted.
WorkIsSound ==
  /\ \A c \in Consumers : \A e \in Events :
       /\ work[c][e] # "none" => row[e] \in Committed
       /\ work[c][e] = "posted" => e \in posted
  /\ \A e \in Events : row[e] = "delivered" => e \in posted

\* Until its lease has lapsed, a row somebody works on has a live lease.
LeaseGuards ==
  /\ \A e \in Events : lease[e] = "expired" => e \in lapsed
  /\ \A e \in Events \ lapsed : \A c \in Consumers :
       work[c][e] # "none" => lease[e] = "live"

IInv ==
  /\ RowsOK
  /\ RowsFollowTxns
  /\ OneRowPerKey
  /\ FactHasEvent
  /\ WorkIsSound
  /\ LeaseGuards
  /\ ExclusiveUntilLapse

\* Nothing is published in the initial state.
LEMMA InitInv == ASSUME Init PROVE IInv
<1> USE OutboxAssumption DEF Init, Committed
<1>1. RowsOK BY DEF RowsOK
<1>2. RowsFollowTxns /\ OneRowPerKey /\ FactHasEvent
  BY DEF RowsFollowTxns, OneRowPerKey, FactHasEvent
<1>3. WorkIsSound /\ LeaseGuards /\ ExclusiveUntilLapse
  BY DEF WorkIsSound, LeaseGuards, ExclusiveUntilLapse
<1> QED BY <1>1, <1>2, <1>3 DEF IInv

\* The steps of a publisher keep what is said of the consumers, because they
\* only touch rows that are not committed.
LEMMA PublisherInv == ASSUME IInv, NEW e \in Events, Publisher(e) PROVE IInv'
<1> USE OutboxAssumption DEF Committed
<1> USE DEF IInv
<1>1. CASE PublishCheck(e)
  <2>1. RowsOK' BY <1>1 DEF PublishCheck, RowsOK, rowVars
  <2>2. RowsFollowTxns' /\ OneRowPerKey' /\ FactHasEvent'
    BY <1>1 DEF PublishCheck, Visible, RowsOK, rowVars, RowsFollowTxns, OneRowPerKey, FactHasEvent
  <2>3. WorkIsSound' /\ LeaseGuards' /\ ExclusiveUntilLapse'
    BY <1>1 DEF PublishCheck, rowVars, WorkIsSound, LeaseGuards, ExclusiveUntilLapse
  <2> QED BY <2>1, <2>2, <2>3
<1>2. CASE PublishInsert(e)
  <2>1. RowsOK' BY <1>2 DEF PublishInsert, RowsOK
  <2>2. row[e] = "none" /\ txn[e] # "committed" /\ ~KeyPending(e)
    BY <1>2 DEF PublishInsert, RowsOK, RowsFollowTxns
  <2>3. RowsFollowTxns' /\ OneRowPerKey'
    BY <1>2, <2>2 DEF PublishInsert, KeyTaken, KeyPending, RowsOK, RowsFollowTxns, OneRowPerKey
  <2>4. FactHasEvent'
    BY <1>2, <2>2 DEF PublishInsert, RowsOK, FactHasEvent
  <2>5. WorkIsSound' /\ LeaseGuards' /\ ExclusiveUntilLapse'
    BY <1>2, <2>2 DEF PublishInsert, RowsOK, WorkIsSound, LeaseGuards, ExclusiveUntilLapse
  <2> QED BY <2>1, <2>3, <2>4, <2>5
<1>3. CASE PublishCommit(e)
  <2>1. RowsOK' BY <1>3 DEF PublishCommit, RowsOK
  <2>2. row[e] = "inserted" BY <1>3 DEF PublishCommit, RowsFollowTxns
  <2>3. RowsFollowTxns' /\ OneRowPerKey' /\ FactHasEvent'
    BY <1>3, <2>2 DEF PublishCommit, RowsOK, RowsFollowTxns, OneRowPerKey, FactHasEvent
  <2>4. WorkIsSound' /\ LeaseGuards' /\ ExclusiveUntilLapse'
    BY <1>3, <2>2 DEF PublishCommit, RowsOK, WorkIsSound, LeaseGuards, ExclusiveUntilLapse
  <2> QED BY <2>1, <2>3, <2>4
<1>4. CASE PublishRollback(e)
  <2>1. RowsOK' BY <1>4 DEF PublishRollback, RowsOK
  <2>2. row[e] \notin Committed BY <1>4 DEF PublishRollback, RowsFollowTxns
  <2>3. RowsFollowTxns' /\ OneRowPerKey'
    BY <1>4, <2>2 DEF PublishRollback, RowsOK, RowsFollowTxns, OneRowPerKey
  <2>4. FactHasEvent'
    BY <1>4, <2>2 DEF PublishRollback, RowsOK, FactHasEvent
  <2>5. WorkIsSound' /\ LeaseGuards' /\ ExclusiveUntilLapse'
    BY <1>4, <2>2 DEF PublishRollback, RowsOK, WorkIsSound, LeaseGuards, ExclusiveUntilLapse
  <2> QED BY <2>1, <2>3, <2>4, <2>5
<1>5. CASE PublishRetry(e)
  <2>1. RowsOK' BY <1>5 DEF PublishRetry, RowsOK, rowVars
  <2>2. RowsFollowTxns' /\ OneRowPerKey' /\ FactHasEvent'
    BY <1>5 DEF PublishRetry, RowsOK, rowVars, RowsFollowTxns, OneRowPerKey, FactHasEvent
  <2>3. WorkIsSound' /\ LeaseGuards' /\ ExclusiveUntilLapse'
    BY <1>5 DEF PublishRetry, rowVars, WorkIsSound, LeaseGuards, ExclusiveUntilLapse
  <2> QED BY <2>1, <2>2, <2>3
<1> QED BY <1>1, <1>2, <1>3, <1>4, <1>5 DEF Publisher

\* consume takes eligible rows: pending ones, whose lease nobody holds.
LEMMA ConsumeInv == ASSUME IInv, NEW c \in Consumers, Consume(c) PROVE IInv'
<1> USE OutboxAssumption DEF IInv
<1>1. RowsOK' BY DEF Consume, RowsOK
<1>2. \A e \in Batch : e \in Events /\ row[e] = "pending" /\ lease[e] \in {"none", "expired"}
  BY DEF Batch, Eligible
<1>3. RowsFollowTxns' /\ OneRowPerKey' /\ FactHasEvent'
  BY DEF Consume, RowsFollowTxns, OneRowPerKey, FactHasEvent
<1>4. \A e \in Events : work'[c][e] # "none" => e \in Batch
  BY DEF Consume, RowsOK
<1>5. \A d \in Consumers \ {c} : work'[d] = work[d]
  BY DEF Consume, RowsOK
<1>6. \A e \in Batch \ lapsed : \A d \in Consumers : work[d][e] = "none"
  BY <1>2 DEF LeaseGuards
<1>7. WorkIsSound'
  <2>1. \A e \in Events : work'[c][e] # "posted"
    BY DEF Consume, RowsOK
  <2> QED BY <1>2, <1>4, <1>5, <2>1 DEF Consume, WorkIsSound, Committed
<1>8. LeaseGuards'
  <2>1. \A e \in Batch : lease'[e] = "live" BY <1>2 DEF Consume
  <2>2. \A e \in Events \ Batch : lease'[e] = lease[e] BY DEF Consume
  <2> QED BY <1>4, <1>5, <2>1, <2>2 DEF Consume, LeaseGuards
<1>9. ExclusiveUntilLapse'
  BY <1>4, <1>5, <1>6 DEF Consume, ExclusiveUntilLapse
<1> QED BY <1>1, <1>3, <1>7, <1>8, <1>9

\* post, ack and nack, late or not, only concern an event the consumer was given.
LEMMA HandleInv ==
  ASSUME IInv, NEW c \in Consumers, NEW e \in Events, Handle(c, e) PROVE IInv'
<1> USE OutboxAssumption DEF IInv
<1>1. row[e] \in Committed
  BY DEF Handle, Post, Ack, Nack, WorkIsSound
<1>2. /\ \A d \in Consumers : \A f \in Events :
           work'[d][f] = work[d][f] \/ (d = c /\ f = e)
      /\ \A f \in Events \ {e} : lease'[f] = lease[f] /\ row'[f] = row[f]
      /\ UNCHANGED <<txn, lapsed>>
  BY DEF Handle, Post, Ack, Nack, RowsOK, rowVars
<1>3. CASE Post(c, e)
  <2>1. RowsOK' BY <1>3 DEF Post, RowsOK, rowVars
  <2>2. RowsFollowTxns' /\ OneRowPerKey' /\ FactHasEvent'
    BY <1>3 DEF Post, rowVars, RowsFollowTxns, OneRowPerKey, FactHasEvent
  <2>3. WorkIsSound' /\ LeaseGuards' /\ ExclusiveUntilLapse'
    BY <1>1, <1>2, <1>3 DEF Post, RowsOK, rowVars, WorkIsSound, LeaseGuards, ExclusiveUntilLapse
  <2> QED BY <2>1, <2>2, <2>3
<1>4. CASE Ack(c, e)
  <2>1. RowsOK' BY <1>4 DEF Ack, RowsOK, Committed
  <2>2. row'[e] = "delivered" /\ work'[c][e] = "none" /\ lease'[e] = "none" /\ e \in posted
    BY <1>4 DEF Ack, RowsOK, WorkIsSound
  <2>3. RowsFollowTxns' /\ OneRowPerKey' /\ FactHasEvent'
    BY <1>1, <1>2, <2>2 DEF RowsOK, RowsFollowTxns, OneRowPerKey, FactHasEvent, Committed
  <2>4. WorkIsSound'
    BY <1>2, <1>4, <2>2 DEF Ack, WorkIsSound, Committed
  <2>5. LeaseGuards' /\ ExclusiveUntilLapse'
    BY <1>2, <1>4, <2>2 DEF Ack, LeaseGuards, ExclusiveUntilLapse
  <2> QED BY <2>1, <2>3, <2>4, <2>5
<1>5. CASE Nack(c, e)
  <2>1. RowsOK' BY <1>5 DEF Nack, RowsOK
  <2>2. row' = row /\ posted' = posted /\ work'[c][e] = "none" /\ lease'[e] = "none"
    BY <1>5 DEF Nack, RowsOK
  <2>3. RowsFollowTxns' /\ OneRowPerKey' /\ FactHasEvent'
    BY <1>2, <2>2 DEF RowsFollowTxns, OneRowPerKey, FactHasEvent
  <2>4. WorkIsSound'
    BY <1>2, <2>2 DEF WorkIsSound
  <2>5. LeaseGuards' /\ ExclusiveUntilLapse'
    BY <1>2, <1>5, <2>2 DEF Nack, LeaseGuards, ExclusiveUntilLapse
  <2> QED BY <2>1, <2>3, <2>4, <2>5
<1> QED BY <1>3, <1>4, <1>5 DEF Handle

\* Clocks and crashes.
LEMMA EnvironmentInv ==
  ASSUME IInv,
         \/ \E c \in Consumers : ConsumerDies(c)
         \/ \E e \in Events : LeaseExpires(e) \/ BackoffElapses(e)
  PROVE  IInv'
<1> USE OutboxAssumption DEF IInv
<1>1. RowsFollowTxns' /\ OneRowPerKey' /\ FactHasEvent'
  BY DEF ConsumerDies, LeaseExpires, BackoffElapses, rowVars, RowsFollowTxns, OneRowPerKey, FactHasEvent
<1>2. CASE \E c \in Consumers : ConsumerDies(c)
  <2>1. PICK c \in Consumers : ConsumerDies(c) BY <1>2
  <2>2. RowsOK' BY <2>1 DEF ConsumerDies, RowsOK, rowVars
  <2>3. \A d \in Consumers : \A f \in Events : work'[d][f] \in {work[d][f], "none"}
    BY <2>1 DEF ConsumerDies, RowsOK
  <2>4. WorkIsSound' /\ LeaseGuards' /\ ExclusiveUntilLapse'
    BY <2>1, <2>3 DEF ConsumerDies, rowVars, WorkIsSound, LeaseGuards, ExclusiveUntilLapse
  <2> QED BY <1>1, <2>2, <2>4
<1>3. CASE \E e \in Events : LeaseExpires(e)
  <2>1. RowsOK' BY <1>3 DEF LeaseExpires, RowsOK
  <2>2. WorkIsSound' /\ LeaseGuards' /\ ExclusiveUntilLapse'
    BY <1>3 DEF LeaseExpires, RowsOK, WorkIsSound, LeaseGuards, ExclusiveUntilLapse
  <2> QED BY <1>1, <2>1, <2>2
<1>4. CASE \E e \in Events : BackoffElapses(e)
  <2>1. RowsOK' BY <1>4 DEF BackoffElapses, RowsOK
  <2>2. WorkIsSound' /\ LeaseGuards' /\ ExclusiveUntilLapse'
    BY <1>4 DEF BackoffElapses, WorkIsSound, LeaseGuards, ExclusiveUntilLapse
  <2> QED BY <1>1, <2>1, <2>2
<1> QED BY <1>2, <1>3, <1>4

LEMMA StutterInv == ASSUME IInv, UNCHANGED vars PROVE IInv'
BY DEF IInv, vars, RowsOK, RowsFollowTxns, OneRowPerKey, FactHasEvent, WorkIsSound, LeaseGuards,
       ExclusiveUntilLapse

\* The inductive invariant holds in every state of the outbox.
THEOREM InvHolds == Spec => []IInv
<1>1. Init => IInv BY InitInv
<1>2. IInv /\ [Next]_vars => IInv'
  BY PublisherInv, ConsumeInv, HandleInv, EnvironmentInv, StutterInv DEF Next
<1> QED BY <1>1, <1>2, PTL DEF Spec

\* publish and its unique index: a dedupe_key never has two rows, however many
\* transactions publish it at once.
THEOREM UniqueRows == Spec => []OneRowPerKey
<1>1. IInv => OneRowPerKey BY DEF IInv
<1> QED BY <1>1, InvHolds, PTL

\* A committed domain fact has a committed event (publish returns on a hit only
\* if the row it found is there to stay).
THEOREM FactsHaveEvents == Spec => []FactHasEvent
<1>1. IInv => FactHasEvent BY DEF IInv
<1> QED BY <1>1, InvHolds, PTL

\* consume hands a row to one consumer at a time until a lease lapses.
THEOREM ExclusiveClaims == Spec => []ExclusiveUntilLapse
<1>1. IInv => ExclusiveUntilLapse BY DEF IInv
<1> QED BY <1>1, InvHolds, PTL

-----------------------------------------------------------------------------
(***************************************************************************)
(* Refinement: each step of the outbox is a step of the channel, or none.  *)
(***************************************************************************)

Sent == {e \in Events : row[e] \in Committed}
Settled == {e \in Events : row[e] = "delivered"}

\* A step that leaves the rows' fates and the posts alone is a stuttering step.
LEMMA StepRefines == ASSUME IInv, [Next]_vars PROVE [Channel!Next]_(Channel!vars)
<1> USE DEF IInv, Committed
<1>1. CASE \E e \in Events : PublishCommit(e)
  <2>1. PICK e \in Events : PublishCommit(e) BY <1>1
  <2>2. e \notin Sent /\ Sent' = Sent \cup {e} /\ posted' = posted /\ Settled' = Settled
    BY <2>1 DEF PublishCommit, RowsOK, RowsFollowTxns, Sent, Settled
  <2>3. Channel!Send(e) BY <2>2 DEF Channel!Send, Sent, Settled
  <2> QED BY <2>3 DEF Channel!Next
<1>2. CASE \E c \in Consumers : \E e \in Events : Post(c, e)
  <2>1. PICK c \in Consumers, e \in Events : Post(c, e) BY <1>2
  <2>2. e \in Sent /\ Sent' = Sent /\ posted' = posted \cup {e} /\ Settled' = Settled
    BY <2>1 DEF Post, rowVars, WorkIsSound, Sent, Settled
  <2>3. Channel!Receive(e) BY <2>2 DEF Channel!Receive, Sent, Settled
  <2> QED BY <2>3 DEF Channel!Next
<1>3. CASE \E c \in Consumers : \E e \in Events : Ack(c, e)
  <2>1. PICK c \in Consumers, e \in Events : Ack(c, e) BY <1>3
  <2>2. row[e] \in Committed /\ e \in posted
    BY <2>1 DEF Ack, WorkIsSound
  <2>3. Sent' = Sent /\ posted' = posted /\ Settled' = Settled \cup {e}
    BY <2>1, <2>2 DEF Ack, RowsOK, Sent, Settled
  <2>4. Channel!Settle(e) BY <2>2, <2>3 DEF Channel!Settle, Sent, Settled
  <2> QED BY <2>4 DEF Channel!Next
<1>4. ASSUME Sent' = Sent, posted' = posted, Settled' = Settled
      PROVE  UNCHANGED Channel!vars
  BY <1>4 DEF Channel!vars, Sent, Settled
<1>5. CASE \E e \in Events : PublishInsert(e) \/ PublishRollback(e)
  <2>1. Sent' = Sent /\ posted' = posted /\ Settled' = Settled
    BY <1>5 DEF PublishInsert, PublishRollback, RowsOK, RowsFollowTxns, Sent, Settled
  <2> QED BY <1>4, <2>1
<1>6. CASE UNCHANGED <<row, posted>>
  <2>1. Sent' = Sent /\ posted' = posted /\ Settled' = Settled
    BY <1>6 DEF Sent, Settled
  <2> QED BY <1>4, <2>1
<1>7. CASE \E e \in Events : PublishCheck(e) \/ PublishRetry(e) \/ LeaseExpires(e)
                               \/ BackoffElapses(e)
  BY <1>6, <1>7 DEF PublishCheck, PublishRetry, LeaseExpires, BackoffElapses, rowVars
<1>8. CASE \E c \in Consumers : Consume(c) \/ ConsumerDies(c) \/ \E e \in Events : Nack(c, e)
  BY <1>6, <1>8 DEF Consume, ConsumerDies, Nack, rowVars
<1>9. CASE UNCHANGED vars
  BY <1>6, <1>9 DEF vars
<1> QED
  BY <1>1, <1>2, <1>3, <1>5, <1>7, <1>8, <1>9 DEF Next, Publisher, Handle

\* The outbox implements the at-least-once channel.
THEOREM Refinement == Spec => ImplementsChannel
<1>1. Init => Channel!Init
  BY DEF Init, Channel!Init, Committed
<1>2. IInv /\ [Next]_vars => [Channel!Next]_(Channel!vars)
  BY StepRefines
<1> QED BY <1>1, <1>2, InvHolds, PTL DEF Spec, ImplementsChannel, Channel!Spec

-----------------------------------------------------------------------------
(***************************************************************************)
(* The order of the rows: a strict order of the rows that wait, the ones   *)
(* that are due first, whichever rows join it, leave it or move back.      *)
(***************************************************************************)

\* Only a committed row backs off.
FreshIsDue == \A e \in Events : row[e] \notin Committed => due[e]

LEMMA FreshInv == ASSUME IInv, FreshIsDue, [Next]_vars PROVE FreshIsDue'
<1> USE DEF FreshIsDue, Committed
<1>1. ASSUME NEW e \in Events, Publisher(e) PROVE FreshIsDue'
  <2>1. due' = due
    BY <1>1 DEF Publisher, PublishCheck, PublishInsert, PublishCommit, PublishRollback,
                PublishRetry, rowVars
  <2>2. row[e] \in Committed => row'[e] = row[e]
    BY <1>1 DEF Publisher, PublishCheck, PublishInsert, PublishCommit, PublishRollback,
                PublishRetry, rowVars, IInv, RowsOK, RowsFollowTxns
  <2>3. \A f \in Events \ {e} : row'[f] = row[f]
    BY <1>1 DEF Publisher, PublishCheck, PublishInsert, PublishCommit, PublishRollback,
                PublishRetry, rowVars, IInv, RowsOK
  <2> QED BY <2>1, <2>2, <2>3
<1>2. ASSUME NEW e \in Events, LeaseExpires(e) \/ BackoffElapses(e) PROVE FreshIsDue'
  BY <1>2 DEF LeaseExpires, BackoffElapses, IInv, RowsOK
<1>3. ASSUME NEW c \in Consumers, NEW e \in Events, Handle(c, e) PROVE FreshIsDue'
  <2>1. row[e] \in Committed
    BY <1>3 DEF Handle, Post, Ack, Nack, IInv, WorkIsSound
  <2>2. row'[e] \in Committed /\ \A f \in Events \ {e} : row'[f] = row[f] /\ due'[f] = due[f]
    BY <1>3, <2>1 DEF Handle, Post, Ack, Nack, rowVars, IInv, RowsOK
  <2> QED BY <2>2
<1>4. ASSUME NEW c \in Consumers, Consume(c) \/ ConsumerDies(c) PROVE FreshIsDue'
  BY <1>4 DEF Consume, ConsumerDies, rowVars
<1>5. CASE UNCHANGED vars
  BY <1>5 DEF vars
<1> QED BY <1>1, <1>2, <1>3, <1>4, <1>5 DEF Next

\* A new row goes somewhere among the rows that are due, before the ones that
\* back off.
LEMMA CommitKeepsOrder ==
  ASSUME IInv, FreshIsDue, OrderOK, NEW e \in Events, PublishCommit(e) PROVE OrderOK'
<1> DEFINE W == Waiting
<1>1. row[e] = "inserted" /\ e \notin W
  BY DEF PublishCommit, IInv, RowsFollowTxns, Waiting
<1>2. Waiting' = W \cup {e}
  BY DEF PublishCommit, IInv, RowsOK, Waiting
<1>3. due' = due /\ \A f \in W \cup {e} : due[f] \in BOOLEAN
  BY DEF PublishCommit, IInv, RowsOK, Waiting
<1>0. PICK front \in Fronts : ahead' = ahead \cup (front \X {e}) \cup ({e} \X (W \ front))
  BY DEF PublishCommit
<1>10. /\ front \subseteq W /\ \A f \in front : due[f]
       /\ \A f \in front, g \in W : <<g, f>> \in ahead => g \in front
  BY DEF Fronts
<1>4. \A f, g \in W \cup {e} :
        <<f, g>> \in ahead' <=> \/ <<f, g>> \in ahead
                                \/ f \in front /\ g = e
                                \/ f = e /\ g \in W \ front
  BY <1>0
<1>5. ahead' \subseteq Waiting' \X Waiting'
  BY <1>0, <1>2, <1>10 DEF OrderOK
<1>6. \A f, g \in W \cup {e} : <<f, g>> \in ahead => f \in W /\ g \in W
  BY DEF OrderOK
<1>7. \A f, g \in Waiting' : <<f, g>> \in ahead' <=> f # g /\ <<g, f>> \notin ahead'
  <2> SUFFICES ASSUME NEW f \in W \cup {e}, NEW g \in W \cup {e}
               PROVE  <<f, g>> \in ahead' <=> f # g /\ <<g, f>> \notin ahead'
    BY <1>2
  <2>1. CASE f \in W /\ g \in W
    <3>1. <<f, g>> \in ahead <=> f # g /\ <<g, f>> \notin ahead
      BY <2>1 DEF OrderOK
    <3> QED BY <1>1, <1>4, <2>1, <3>1
  <2>2. CASE f = e \/ g = e
    BY <1>1, <1>4, <1>6, <1>10, <2>2
  <2> QED BY <2>1, <2>2
<1>8. \A f, g, h \in Waiting' : <<f, g>> \in ahead' /\ <<g, h>> \in ahead' => <<f, h>> \in ahead'
  <2> SUFFICES ASSUME NEW f \in W \cup {e}, NEW g \in W \cup {e}, NEW h \in W \cup {e},
                      <<f, g>> \in ahead', <<g, h>> \in ahead'
               PROVE  <<f, h>> \in ahead'
    BY <1>2
  <2>1. \A x, y, z \in W : <<x, y>> \in ahead /\ <<y, z>> \in ahead => <<x, z>> \in ahead
    BY DEF OrderOK
  <2>2. \A x, y \in W : <<x, y>> \in ahead => <<y, x>> \notin ahead
    BY DEF OrderOK
  <2>7. \A x \in front, y \in W \ front : <<x, y>> \in ahead
    BY <1>10 DEF OrderOK
  <2>4. CASE f = e
    BY <1>1, <1>4, <1>6, <1>10, <2>2, <2>4
  <2>5. CASE h = e
    BY <1>1, <1>4, <1>6, <1>10, <2>2, <2>5
  <2>6. CASE f \in W /\ h \in W
    BY <1>1, <1>4, <1>6, <1>10, <2>1, <2>6, <2>7
  <2> QED BY <2>4, <2>5, <2>6
<1>9. \A f, g \in Waiting' : due'[f] /\ ~due'[g] => <<f, g>> \in ahead'
  <2>1. due[e] /\ \A f \in W : ~due[f] => f \notin front
    BY <1>1, <1>10 DEF FreshIsDue, Committed
  <2> QED BY <1>1, <1>2, <1>3, <1>4, <2>1 DEF OrderOK
<1> QED BY <1>5, <1>7, <1>8, <1>9 DEF OrderOK

\* A row that is acked leaves the order.
LEMMA AckKeepsOrder ==
  ASSUME IInv, OrderOK, NEW c \in Consumers, NEW e \in Events, Ack(c, e) PROVE OrderOK'
<1>1. Waiting' = Waiting \ {e} /\ due' = due
  BY DEF Ack, IInv, RowsOK, Waiting
<1>2. ahead' = {pair \in ahead : e \notin {pair[1], pair[2]}}
  BY DEF Ack, WithoutRow
<1>3. \A f, g \in Waiting' : <<f, g>> \in ahead' <=> <<f, g>> \in ahead
  BY <1>1, <1>2
<1>4. ahead' \subseteq Waiting' \X Waiting'
  BY <1>1, <1>2 DEF OrderOK
<1> QED BY <1>1, <1>3, <1>4 DEF OrderOK

\* A row that is nacked moves behind every other; a delivered one is in no order.
LEMMA NackKeepsOrder ==
  ASSUME IInv, OrderOK, NEW c \in Consumers, NEW e \in Events, Nack(c, e) PROVE OrderOK'
<1> DEFINE W == Waiting
<1>1. Waiting' = W /\ due' = [due EXCEPT ![e] = FALSE]
  BY DEF Nack, Waiting
<1>2. row[e] \in Committed /\ W \subseteq Events
  BY DEF Nack, IInv, WorkIsSound, Waiting
<1>3. due'[e] = FALSE /\ \A f \in Events \ {e} : due'[f] = due[f]
  BY <1>1 DEF IInv, RowsOK
<1>4. CASE row[e] = "delivered"
  <2>1. e \notin W /\ ahead' = ahead
    BY <1>4 DEF Nack, Waiting
  <2>2. \A f \in W : due'[f] = due[f] BY <1>2, <1>3, <2>1
  <2> QED BY <1>1, <2>1, <2>2 DEF OrderOK
<1>5. CASE row[e] = "pending"
  <2>1. e \in W BY <1>5 DEF Waiting
  <2>2. ahead' = {pair \in ahead : e \notin {pair[1], pair[2]}} \cup ((W \ {e}) \X {e})
    BY <1>5 DEF Nack, MovedBack, WithoutRow
  <2>3. \A f, g \in W : <<f, g>> \in ahead' <=> \/ <<f, g>> \in ahead /\ f # e /\ g # e
                                                \/ f # e /\ g = e
    BY <2>2
  <2>4. ahead' \subseteq Waiting' \X Waiting'
    BY <1>1, <2>1, <2>2 DEF OrderOK
  <2>5. \A f, g \in W : due'[f] /\ ~due'[g] => <<f, g>> \in ahead'
    BY <1>2, <1>3, <2>3 DEF OrderOK
  <2> QED BY <1>1, <2>1, <2>3, <2>4, <2>5 DEF OrderOK
<1> QED BY <1>2, <1>4, <1>5 DEF Committed

\* A row whose backoff is over goes behind the rows that were due already.
LEMMA BackoffKeepsOrder ==
  ASSUME IInv, OrderOK, NEW e \in Events, BackoffElapses(e) PROVE OrderOK'
<1> DEFINE W == Waiting
<1>1. Waiting' = W /\ due' = [due EXCEPT ![e] = TRUE] /\ W \subseteq Events
  BY DEF BackoffElapses, Waiting
<1>2. \A f \in W : due'[f] \in BOOLEAN
  BY <1>1 DEF IInv, RowsOK
<1>3. \A f, g \in W : <<f, g>> \in ahead' <=> \/ due'[f] /\ ~due'[g]
                                              \/ due'[f] = due'[g] /\ <<f, g>> \in ahead
  BY DEF BackoffElapses
<1>4. ahead' \subseteq Waiting' \X Waiting'
  BY <1>1 DEF BackoffElapses
<1>5. \A f, g \in W : <<f, g>> \in ahead <=> f # g /\ <<g, f>> \notin ahead
  BY DEF OrderOK
<1>6. \A f, g \in W : <<f, g>> \in ahead' <=> f # g /\ <<g, f>> \notin ahead'
  BY <1>2, <1>3, <1>5
<1>7. \A f, g, h \in W : <<f, g>> \in ahead' /\ <<g, h>> \in ahead' => <<f, h>> \in ahead'
  <2>1. \A f, g, h \in W : <<f, g>> \in ahead /\ <<g, h>> \in ahead => <<f, h>> \in ahead
    BY DEF OrderOK
  <2> QED BY <1>2, <1>3, <2>1
<1>8. \A f, g \in W : due'[f] /\ ~due'[g] => <<f, g>> \in ahead'
  BY <1>3
<1> QED BY <1>1, <1>4, <1>6, <1>7, <1>8 DEF OrderOK

\* Every step keeps the order.
LEMMA OrderInv == ASSUME IInv, FreshIsDue, OrderOK, [Next]_vars PROVE OrderOK'
<1>1. CASE UNCHANGED <<row, due, ahead>>
  BY <1>1 DEF OrderOK, Waiting
<1>2. CASE \E e \in Events : PublishInsert(e) \/ PublishRollback(e)
  <2>1. Waiting' = Waiting /\ UNCHANGED <<due, ahead>>
    BY <1>2 DEF PublishInsert, PublishRollback, IInv, RowsOK, RowsFollowTxns, Waiting
  <2> QED BY <2>1 DEF OrderOK
<1>3. CASE \E e \in Events : PublishCommit(e) \/ BackoffElapses(e)
  BY <1>3, CommitKeepsOrder, BackoffKeepsOrder
<1>4. CASE \E c \in Consumers : \E e \in Events : Ack(c, e) \/ Nack(c, e)
  BY <1>4, AckKeepsOrder, NackKeepsOrder
<1>5. CASE \E e \in Events : PublishCheck(e) \/ PublishRetry(e) \/ LeaseExpires(e)
  BY <1>1, <1>5 DEF PublishCheck, PublishRetry, LeaseExpires, rowVars
<1>6. CASE \E c \in Consumers : Consume(c) \/ ConsumerDies(c) \/ \E e \in Events : Post(c, e)
  BY <1>1, <1>6 DEF Consume, ConsumerDies, Post, rowVars
<1>7. CASE UNCHANGED vars
  BY <1>1, <1>7 DEF vars
<1> QED BY <1>2, <1>3, <1>4, <1>5, <1>6, <1>7 DEF Next, Publisher, Handle

\* The rows keep their types, and available_at orders the ones that wait, the
\* due ones first: through acks and nacks of consumers whose lease is gone, a
\* row is never in the order twice, nor in it when it is delivered.
THEOREM TypeCorrect == Spec => []TypeOK
<1>1. Init => OrderOK /\ FreshIsDue
  BY DEF Init, OrderOK, FreshIsDue, Waiting
<1>2. IInv /\ FreshIsDue /\ OrderOK /\ [Next]_vars => OrderOK' /\ FreshIsDue'
  BY OrderInv, FreshInv
<1>3. IInv /\ OrderOK => TypeOK
  BY DEF IInv, TypeOK
<1> QED BY <1>1, <1>2, <1>3, InvHolds, PTL DEF Spec

=============================================================================
