---------------------------- MODULE PrivacyQueue ----------------------------
(***************************************************************************)
(* The seven generation-bound privacy operations end to end: events of one *)
(* account in a host's durable queue, the SDK calls that deliver them, and *)
(* Pack's receipts, across lost responses, late copies of a request, host  *)
(* crashes and the replacement of the account.                             *)
(*                                                                         *)
(* The queue is the host's (README.md, "Privacy operations"), and Pack is  *)
(* what the codes of privacy.py say of it; both are external to the SDK.   *)
(***************************************************************************)
EXTENDS AccountLinkState, DurableQueue

ASSUME IncarnationAssumption ==
  Incarnations \subseteq Nat   \* numbered in the order Pack creates them

VARIABLES
  account,   \* Pack: the account's pair now
  receipts,  \* Pack: per id None or the generation its mutation resulted in
  expired,   \* Pack: the ids whose receipt has expired
  applied,   \* Pack: how often each event's mutation was applied (history)
  stored     \* host, durable: the AccountLinkState

packVars == << account, receipts, expired, applied >>
vars == << packVars, stored, queueVars >>

(***************************************************************************)
(* The immutable bytes of an event: its id and the tokens it captured.     *)
(***************************************************************************)
Bytes == [id : Events, tokens : Pair]

ASSUME NoneIsNoEvent == None \notin Bytes

CreateEvent(e) == [id |-> e, tokens |-> SnapshotUser(stored)]

\* Seeded fault: the event is rebuilt for each delivery, with a fresh UUID.
FreshIds == {id \in Events : receipts[id] = None}
RebuiltEvent(payload) ==
  IF FreshIds = {} THEN payload
  ELSE [payload EXCEPT !.id = CHOOSE id \in FreshIds : TRUE]
\* Validation rebuilds the event from the captured fields and adds none.
FromRequestBytes(payload) == [id |-> payload.id, tokens |-> payload.tokens]

Init ==
  /\ account \in {p \in Pair : p.privacy_generation = 0}
  /\ receipts = [id \in Events |-> None]
  /\ expired = {}
  /\ applied = [e \in Events |-> 0]
  /\ stored = account
  /\ InitQueue

-----------------------------------------------------------------------------
(***************************************************************************)
(* The host and its calls.  A step of the queue or of a call alone changes *)
(* nothing else.                                                           *)
(***************************************************************************)
Alone(Step) == Step /\ UNCHANGED << packVars, stored >>

Create(e) == Alone(Enqueue(e, CreateEvent(e)))

Redeliver(e) == Alone(Deliver(e, FromRequestBytes(queue[e])))

(***************************************************************************)
(* The host handles a result: it observes the generation in the state the  *)
(* event captured and persists it max-only; then it deletes the event.     *)
(***************************************************************************)
Persist(e) ==
  /\ Proceed(e, "result", "delete")
  /\ stored' = PersistMaxOnly(stored,
                 ObserveResult(call[e].bytes.tokens, call[e].reply.result))
  /\ UNCHANGED packVars

(***************************************************************************)
(* An identify that recovers the current pair (start_new_read).            *)
(***************************************************************************)
Recover ==
  /\ stored # account
  /\ stored' = ReconcileIdentify(stored, account)
  /\ UNCHANGED << packVars, queueVars >>

-----------------------------------------------------------------------------
(***************************************************************************)
(* Pack.  An id with a receipt is answered from it; an event bound to the  *)
(* current pair is applied, and may advance the generation; any other is   *)
(* stale.                                                                  *)
(***************************************************************************)
PrivacyGenerationResult(g) == [privacy_generation |-> g]

StaleCode(tokens) ==
  IF tokens.link_incarnation_id # account.link_incarnation_id
  THEN "stale_account_incarnation" ELSE "stale_privacy_generation"

Replay(bytes, answer) ==
  /\ receipts[bytes.id] # None
  /\ answer = IF bytes.id \in expired
              THEN Reply(409, "privacy_receipt_expired", None)
              ELSE Reply(200, None, PrivacyGenerationResult(receipts[bytes.id]))
  /\ UNCHANGED packVars

RefuseStale(bytes, answer) ==
  /\ receipts[bytes.id] = None
  /\ bytes.tokens # account
  /\ answer = Reply(409, StaleCode(bytes.tokens), None)
  /\ UNCHANGED packVars

Apply(e, bytes, answer) ==
  /\ receipts[bytes.id] = None
  /\ bytes.tokens = account
  /\ \E g \in {account.privacy_generation, account.privacy_generation + 1} \cap Generations :
       /\ account' = [account EXCEPT !.privacy_generation = g]
       /\ receipts' = [receipts EXCEPT ![bytes.id] = g]
       /\ answer = Reply(200, None, PrivacyGenerationResult(g))
  /\ applied' = [applied EXCEPT ![e] = applied[e] + 1]
  /\ UNCHANGED expired

Handle(e, bytes, answer) ==
  \/ Replay(bytes, answer)
  \/ RefuseStale(bytes, answer)
  \/ Apply(e, bytes, answer)

Answers ==
  { Reply(409, code, None) :
      code \in { "privacy_receipt_expired", "stale_account_incarnation",
                 "stale_privacy_generation" } }
    \cup { Reply(200, None, PrivacyGenerationResult(g)) : g \in Generations }

Serve(e) ==
  /\ \E answer \in Answers : Answer(e, answer) /\ Handle(e, call[e].bytes, answer)
  /\ UNCHANGED stored

ServeLate(copy) ==
  /\ \E answer \in Answers : Handle(copy.event, copy.bytes, answer)
  /\ UNCHANGED << stored, queueVars >>

Expire(id) ==
  /\ receipts[id] # None
  /\ id \notin expired
  /\ expired' = expired \cup {id}
  /\ UNCHANGED << account, receipts, applied, stored, queueVars >>

Replace(i) ==
  /\ i > account.link_incarnation_id
  /\ account' = [link_incarnation_id |-> i, privacy_generation |-> 0]
  /\ UNCHANGED << receipts, expired, applied, stored, queueVars >>

HostStep(e) ==
  \/ Create(e)
  \/ Redeliver(e)
  \/ Persist(e)
  \/ Alone(Delete(e))

NetworkStep(e) ==
  \/ Alone(Transmit(e))
  \/ Alone(Receive(e))
  \/ Alone(Cut(e))
  \/ Alone(Abandon(e))

PackStep ==
  \/ \E e \in Events : Serve(e) \/ Alone(AnswerLater(e))
  \/ \E copy \in late : ServeLate(copy)
  \/ \E id \in Events : Expire(id)
  \/ \E i \in Incarnations : Replace(i)

Next ==
  \/ \E e \in Events : HostStep(e) \/ NetworkStep(e)
  \/ PackStep
  \/ Recover
  \/ Alone(Crash)

(***************************************************************************)
(* The host's worker keeps working, and the network and Pack are not       *)
(* broken for ever: of endlessly many calls one is sent before it is       *)
(* abandoned, of endlessly many requests one is answered for good, and of  *)
(* endlessly many such answers one is received.                            *)
(***************************************************************************)
ReceiveFinal(e) ==
  /\ call[e] # None
  /\ call[e].reply \notin Transient \cup {None}
  /\ Alone(Receive(e))

Fairness ==
  \A e \in Events :
    /\ WF_vars(Redeliver(e)) /\ WF_vars(Persist(e)) /\ WF_vars(Alone(Delete(e)))
    /\ SF_vars(Alone(Transmit(e))) /\ WF_vars(Alone(Receive(e)))
    /\ SF_vars(Serve(e)) /\ SF_vars(ReceiveFinal(e))

Spec == Init /\ [][Next]_vars /\ Fairness

-----------------------------------------------------------------------------
(***************************************************************************)
(* Type invariant.                                                         *)
(***************************************************************************)
TypeOK ==
  /\ account \in Pair
  /\ receipts \in [Events -> Generations \cup {None}]
  /\ expired \subseteq Events
  /\ applied \in [Events -> Nat]
  /\ stored \in Pair
  /\ QueueTypeOK(Bytes, Answers)

(***************************************************************************)
(* However often an event is delivered - by the call's own retries, by the *)
(* host after a lost result or a crash, by a late copy - its mutation is   *)
(* applied at most once, because every delivery carries the same UUID.     *)
(***************************************************************************)
AppliedOnce == \A e \in Events : applied[e] <= 1

(***************************************************************************)
(* An event the host deleted as done was applied, and the host's tokens    *)
(* are of another incarnation or at least as new as its result: later      *)
(* events of the account are not refused for a generation it forgot.       *)
(***************************************************************************)
SettledIsObserved ==
  \A e \in Events : status[e] = "settled" =>
    /\ applied[e] > 0
    /\ \/ stored.link_incarnation_id # queue[e].tokens.link_incarnation_id
       \/ receipts[queue[e].id] \in 0..stored.privacy_generation

(***************************************************************************)
(* The queue keeps the promise of DurableDelivery.  In particular, once a  *)
(* disposition made the host drop an event, no request for it that is      *)
(* still under way can be applied: the user is never told an operation     *)
(* failed for good that happens afterwards.                                *)
(***************************************************************************)
Delivery == INSTANCE DurableDelivery
  WITH queued <- {e \in Events : queue[e] # None}, effects <- applied,
       verdict <- status

DeliversDurably == Delivery!Safe

(***************************************************************************)
(* Every persisted event leaves the queue, done or dropped: no disposition *)
(* makes the host retry a refused event for ever.                          *)
(***************************************************************************)
EverySettles == Delivery!Concludes
=============================================================================
