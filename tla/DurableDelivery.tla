--------------------------- MODULE DurableDelivery --------------------------
(***************************************************************************)
(* What a durable queue that delivers its events through the SDK gets from *)
(* it, with no calls, attempts, crashes or network: every queued event has *)
(* its effect in Pack at most once, leaves the queue as settled only after *)
(* the effect and as dropped only if no effect can follow, and does leave. *)
(***************************************************************************)
EXTENDS Naturals

CONSTANT Events

VARIABLES
  queued,    \* the events whose bytes the host has persisted
  effects,   \* per event, how often Pack carried it out
  verdict    \* per event "open", "settled" or "dropped"

delivery == << queued, effects, verdict >>

Init ==
  /\ queued = {}
  /\ effects = [e \in Events |-> 0]
  /\ verdict = [e \in Events |-> "open"]

Queue(e) ==
  /\ e \notin queued
  /\ queued' = queued \cup {e}
  /\ UNCHANGED << effects, verdict >>

TakeEffect(e) ==
  /\ e \in queued
  /\ verdict[e] = "open"
  /\ effects[e] = 0
  /\ effects' = [effects EXCEPT ![e] = 1]
  /\ UNCHANGED << queued, verdict >>

Settle(e) ==
  /\ verdict[e] = "open"
  /\ effects[e] = 1
  /\ verdict' = [verdict EXCEPT ![e] = "settled"]
  /\ UNCHANGED << queued, effects >>

Drop(e) ==
  /\ e \in queued
  /\ verdict[e] = "open"
  /\ verdict' = [verdict EXCEPT ![e] = "dropped"]
  /\ UNCHANGED << queued, effects >>

Next == \E e \in Events : Queue(e) \/ TakeEffect(e) \/ Settle(e) \/ Drop(e)

Safe == Init /\ [][Next]_delivery

\* No queued event is retried for ever.
Concludes == \A e \in Events : e \in queued ~> verdict[e] # "open"

Spec == Safe /\ Concludes
=============================================================================
