---------------------------- MODULE CallContract ----------------------------
(***************************************************************************)
(* What one client call promises the durable queue that awaits it, without *)
(* HTTP: it transmits the event at most limit times, transmits again only  *)
(* while no exchange has answered whether the service acted, and ends with *)
(* a verdict the exchanges justify.                                        *)
(*                                                                         *)
(*   "done"  a result: the event was accepted                              *)
(*   "drop"  never send these bytes again: the service refused them        *)
(*   "keep"  anything else: the host decides, the event stays its own      *)
(***************************************************************************)
EXTENDS Naturals

CONSTANT MaxLimit   \* the most transmissions any client may be configured for

VARIABLES
  limit,           \* transmissions this call may make
  sent,            \* transmissions so far
  pending,         \* whether one is unanswered
  open_question,   \* the last exchange left open whether the service acted
  refused,         \* some answer was a refusal
  accepted,        \* the last answer was a complete success
  verdict

contract == << limit, sent, pending, open_question, refused, accepted, verdict >>

Init ==
  /\ limit \in 1..MaxLimit
  /\ sent = 0
  /\ pending = FALSE
  /\ open_question = TRUE
  /\ refused = FALSE
  /\ accepted = FALSE
  /\ verdict = "open"

Transmit ==
  /\ verdict = "open"
  /\ ~pending
  /\ open_question
  /\ sent < limit
  /\ sent' = sent + 1
  /\ pending' = TRUE
  /\ UNCHANGED << limit, open_question, refused, accepted, verdict >>

(***************************************************************************)
(* An exchange ends.  A cut one may have shown a refusal before the cut, so*)
(* a refusal does not exclude that the question stays open.                *)
(***************************************************************************)
Receive ==
  /\ pending
  /\ pending' = FALSE
  /\ open_question' \in BOOLEAN
  /\ accepted' \in BOOLEAN
  /\ accepted' => ~open_question'
  /\ refused' \in {refused, TRUE}
  /\ UNCHANGED << limit, sent, verdict >>

Conclude(v) ==
  /\ verdict = "open"
  /\ v = "done" => accepted /\ ~pending
  /\ v = "drop" => refused /\ ~pending
  /\ verdict' = v
  /\ pending' = FALSE
  /\ UNCHANGED << limit, sent, open_question, refused, accepted >>

Next ==
  \/ Transmit
  \/ Receive
  \/ \E v \in {"done", "drop", "keep"} : Conclude(v)

(***************************************************************************)
(* Every call concludes: the awaiting worker is never left hanging.        *)
(***************************************************************************)
Concludes == <>(verdict # "open")

Safe == Init /\ [][Next]_contract
Spec == Safe /\ Concludes
=============================================================================
