---------------------------- MODULE EventChannel ----------------------------
(***************************************************************************)
(* What the outbox promises (SPEC-DOMAIN 4.22, SPEC-ADAPTER 5.1): every    *)
(* committed event is received, possibly more than once, and it is only    *)
(* settled after somebody received it.                                     *)
(***************************************************************************)
CONSTANT Events

VARIABLES
  sent,        \* events whose transaction committed
  received,    \* events that reached the outside at least once
  settled      \* events nobody will be given any more

vars == <<sent, received, settled>>

Init == sent = {} /\ received = {} /\ settled = {}

Send(e) ==
  /\ e \notin sent
  /\ sent' = sent \cup {e}
  /\ UNCHANGED <<received, settled>>

Receive(e) ==
  /\ e \in sent
  /\ received' = received \cup {e}
  /\ UNCHANGED <<sent, settled>>

Settle(e) ==
  /\ e \in received
  /\ settled' = settled \cup {e}
  /\ UNCHANGED <<sent, received>>

Next == \E e \in Events : Send(e) \/ Receive(e) \/ Settle(e)

Spec == Init /\ [][Next]_vars

EverySentIsSettled == \A e \in Events : e \in sent ~> e \in settled

=============================================================================
