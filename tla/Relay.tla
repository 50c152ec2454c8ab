-------------------------------- MODULE Relay --------------------------------
(***************************************************************************)
(* What a transactional outbox promises: an at-least-once relay.  Requests *)
(* are accepted, an accepted request is sent one or more times until it is *)
(* retired, and it is retired only after it was sent.                      *)
(***************************************************************************)
EXTENDS Naturals

CONSTANT Row

VARIABLES
  accepted,  \* the requests whose transaction committed
  copies,    \* how often each was sent
  retired    \* the requests that are done with

relayVars == <<accepted, copies, retired>>

Init ==
  /\ accepted = {}
  /\ copies = [r \in Row |-> 0]
  /\ retired = {}

\* Several transactions may turn out committed at once, after a crash.
Accept(S) ==
  /\ accepted' = accepted \cup S
  /\ UNCHANGED <<copies, retired>>

Send(r) ==
  /\ r \in accepted \ retired
  /\ copies' = [copies EXCEPT ![r] = @ + 1]
  /\ UNCHANGED <<accepted, retired>>

Retire(r) ==
  /\ r \in accepted
  /\ copies[r] > 0
  /\ retired' = retired \cup {r}
  /\ UNCHANGED <<accepted, copies>>

Next ==
  \/ \E S \in SUBSET (Row \ accepted) : Accept(S)
  \/ \E r \in Row : Send(r) \/ Retire(r)

Spec == Init /\ [][Next]_relayVars
=============================================================================
