--------------------------- MODULE CommentDelivery --------------------------
(***************************************************************************)
(* Typed comment events end to end: the durable queue, Pack's exactly-once *)
(* decisions, and the host that shows a decision to the user (README.md,   *)
(* the comment example and "Retry and compatibility rules").  Pack decides *)
(* once per client_event_id; showing is the host's, and is repeated or     *)
(* missed according to when the host marks a decision as presented.        *)
(***************************************************************************)
EXTENDS DurableQueue

CONSTANTS
  MarkFirst,     \* the host marks a decision before it shows it
  EpochLimit,    \* bound on the account's epochs
  UUIDs          \* client_event_ids: the events' own, and others

ASSUME CommentAssumption ==
  /\ MarkFirst \in BOOLEAN
  /\ EpochLimit \in Nat
  /\ Events \subseteq UUIDs

VARIABLES
  epoch,      \* Pack: the account's incarnation and generation, numbered
  decisions,  \* Pack: per client_event_id None or the decision it committed
  decided,    \* Pack: how often it decided for each event (history)
  marks,      \* host, durable: the decision_ids marked as presented
  todo,       \* host, volatile: the legs of a decision still to be shown
  shown       \* how often each leg was shown for each event (history)

packVars == << epoch, decisions, decided >>
hostVars == << marks, todo, shown >>
vars == << packVars, hostVars, queueVars >>

(***************************************************************************)
(* The bytes of an event: its client_event_id and its facts, of which only *)
(* the captured account epoch matters.  A rebuilt snapshot differs in it.  *)
(***************************************************************************)
Epochs == 0..EpochLimit
Bytes == [client_event_id : UUIDs, facts : Epochs]

ASSUME NoneIsNoEvent == None \notin Bytes

CommentEvent(e, facts) == [client_event_id |-> e, facts |-> facts]

\* Seeded fault: each delivery mints a fresh client_event_id.
FreshIds == {id \in UUIDs : decisions[id] = None}
RebuiltId(payload) ==
  IF FreshIds = {} THEN payload
  ELSE [payload EXCEPT !.client_event_id = CHOOSE id \in FreshIds : TRUE]
\* Seeded fault: each delivery rebuilds the event around the current snapshot.
RebuiltSnapshot(payload) == [payload EXCEPT !.facts = epoch]
FromRequestBytes(payload) == CommentEvent(payload.client_event_id, payload.facts)

(***************************************************************************)
(* A decision is the independent legs a host has to show: none for a       *)
(* deliberately silent one, speech when it speaks, act when its expression *)
(* acts.  A result adds the replay marker, which is not part of it.        *)
(***************************************************************************)
Legs == {"speech", "act"}
CommentResult(id, legs, deduplicated) ==
  [decision_id |-> id, legs |-> legs, deduplicated |-> deduplicated]

\* What Pack keeps of a decision.
Decisions == [bytes : Bytes, legs : SUBSET Legs]

ASSUME NoneIsNoDecision == None \notin Decisions

Init ==
  /\ epoch = 0
  /\ decisions = [id \in UUIDs |-> None]
  /\ decided = [e \in Events |-> 0]
  /\ marks = {}
  /\ todo = [e \in Events |-> {}]
  /\ shown = [e \in Events |-> [leg \in Legs |-> 0]]
  /\ InitQueue

-----------------------------------------------------------------------------
(***************************************************************************)
(* Pack.  The same payload is answered with its decision, or refused if    *)
(* the account has moved on; another payload under a decided id conflicts; *)
(* a new one is decided if it is of the current epoch.                     *)
(***************************************************************************)
Replay(bytes, answer) ==
  /\ decisions[bytes.client_event_id] # None
  /\ decisions[bytes.client_event_id].bytes = bytes
  /\ answer = Reply(200, None, CommentResult(bytes.client_event_id,
                                 decisions[bytes.client_event_id].legs, TRUE))
  /\ UNCHANGED packVars

Conflict(bytes, answer) ==
  /\ decisions[bytes.client_event_id] # None
  /\ decisions[bytes.client_event_id].bytes # bytes
  /\ answer = Reply(409, "privacy_event_conflict", None)
  /\ UNCHANGED packVars

RefuseStale(bytes, answer) ==
  /\ bytes.facts # epoch
  /\ answer = Reply(409, "stale_privacy_generation", None)
  /\ UNCHANGED packVars

Decide(e, bytes, answer) ==
  /\ decisions[bytes.client_event_id] = None
  /\ bytes.facts = epoch
  /\ \E legs \in SUBSET Legs :
       /\ decisions' = [decisions EXCEPT ![bytes.client_event_id] =
                          [bytes |-> bytes, legs |-> legs]]
       /\ answer = Reply(200, None, CommentResult(bytes.client_event_id, legs, FALSE))
  /\ decided' = [decided EXCEPT ![e] = decided[e] + 1]
  /\ UNCHANGED epoch

Handle(e, bytes, answer) ==
  \/ Replay(bytes, answer)
  \/ Conflict(bytes, answer)
  \/ RefuseStale(bytes, answer)
  \/ Decide(e, bytes, answer)

Answers ==
  { Reply(409, code, None) : code \in {"privacy_event_conflict", "stale_privacy_generation"} }
    \cup { Reply(200, None, CommentResult(id, legs, deduplicated)) :
             id \in UUIDs, legs \in SUBSET Legs, deduplicated \in BOOLEAN }

ASSUME NoneIsNoCall == None \notin Calls(Bytes, Answers)

Serve(e) ==
  /\ \E answer \in Answers : Answer(e, answer) /\ Handle(e, call[e].bytes, answer)
  /\ UNCHANGED hostVars

ServeLate(copy) ==
  /\ \E answer \in Answers : Handle(copy.event, copy.bytes, answer)
  /\ UNCHANGED << hostVars, queueVars >>

\* Another operation advances the account's generation, or replaces it.
Advance ==
  /\ epoch < EpochLimit
  /\ epoch' = epoch + 1
  /\ UNCHANGED << decisions, decided, hostVars, queueVars >>

-----------------------------------------------------------------------------
(***************************************************************************)
(* The host.  Events capture the epoch the host knows, current or not.     *)
(***************************************************************************)
Alone(Step) == Step /\ UNCHANGED << packVars, hostVars >>

Create(e) == \E known \in 0..epoch : Alone(Enqueue(e, CommentEvent(e, known)))

Redeliver(e) == Alone(Deliver(e, FromRequestBytes(queue[e])))

\* Seeded fault: a replayed decision is taken for one the user has seen.
SkipReplayed(result) == result.deduplicated \/ result.decision_id \in marks
WasPresented(result) == result.decision_id \in marks

SkipPresented(e) ==
  /\ call[e] # None /\ call[e].pc = "result"
  /\ WasPresented(call[e].reply.result)
  /\ Alone(Proceed(e, "result", "delete"))

Mark(e, from, to) ==
  /\ Proceed(e, from, to)
  /\ marks' = marks \cup {call[e].reply.result.decision_id}

StartShowing(e) ==
  /\ call[e] # None /\ call[e].pc = "result"
  /\ ~WasPresented(call[e].reply.result)
  /\ IF MarkFirst THEN Mark(e, "result", "present")
     ELSE Proceed(e, "result", "present") /\ UNCHANGED marks
  /\ todo' = [todo EXCEPT ![e] = call[e].reply.result.legs]
  /\ UNCHANGED << packVars, shown >>

\* present_plain_text(result.text), render_semantic_expression(result.expression)
Show(e, leg) ==
  /\ leg \in todo[e]
  /\ todo' = [todo EXCEPT ![e] = todo[e] \ {leg}]
  /\ shown' = [shown EXCEPT ![e][leg] = shown[e][leg] + 1]
  /\ UNCHANGED << packVars, marks, queueVars >>

EndShowing(e) ==
  /\ todo[e] = {}
  /\ IF MarkFirst THEN Proceed(e, "present", "delete") /\ UNCHANGED marks
     ELSE Mark(e, "present", "delete")
  /\ UNCHANGED << packVars, todo, shown >>

HostCrash ==
  /\ Crash
  /\ todo' = [e \in Events |-> {}]
  /\ UNCHANGED << packVars, marks, shown >>

HostStep(e) ==
  \/ Redeliver(e)
  \/ SkipPresented(e)
  \/ StartShowing(e)
  \/ \E leg \in Legs : Show(e, leg)
  \/ EndShowing(e)
  \/ Alone(Delete(e))

NetworkStep(e) ==
  \/ Alone(Transmit(e))
  \/ Alone(Receive(e))
  \/ Alone(Cut(e))
  \/ Alone(Abandon(e))

PackStep ==
  \/ \E e \in Events : Serve(e) \/ Alone(AnswerLater(e))
  \/ \E copy \in late : ServeLate(copy)
  \/ Advance

Next ==
  \/ \E e \in Events : Create(e) \/ HostStep(e) \/ NetworkStep(e)
  \/ PackStep
  \/ HostCrash

(***************************************************************************)
(* The host's worker keeps working; of endlessly many calls one is sent    *)
(* before it is abandoned, of endlessly many requests one is answered for  *)
(* good, and of endlessly many such answers one is received.               *)
(***************************************************************************)
ReceiveFinal(e) ==
  /\ call[e] # None
  /\ call[e].reply \notin Transient \cup {None}
  /\ Alone(Receive(e))

Fairness ==
  \A e \in Events :
    /\ WF_vars(HostStep(e)) /\ SF_vars(Alone(Transmit(e))) /\ WF_vars(Alone(Receive(e)))
    /\ SF_vars(Serve(e)) /\ SF_vars(ReceiveFinal(e))

Spec == Init /\ [][Next]_vars /\ Fairness

-----------------------------------------------------------------------------
(***************************************************************************)
(* Type invariant.                                                         *)
(***************************************************************************)
TypeOK ==
  /\ epoch \in Epochs
  /\ decisions \in [UUIDs -> Decisions \cup {None}]
  /\ decided \in [Events -> Nat]
  /\ marks \subseteq UUIDs
  /\ todo \in [Events -> SUBSET Legs]
  /\ shown \in [Events -> [Legs -> Nat]]
  /\ QueueTypeOK(Bytes, Answers)

(***************************************************************************)
(* No retry, redelivery or late copy of a comment event meets Pack's       *)
(* conflict: a decided client_event_id always comes with the bytes it was  *)
(* decided for, so no committed decision is lost to a refusal of its own   *)
(* event's retry as a changed payload.                                     *)
(***************************************************************************)
NeverConflicts ==
  \A e \in Events : call[e] # None /\ call[e].reply # None =>
    call[e].reply.code # "privacy_event_conflict"

(***************************************************************************)
(* A host that marks after showing misses nothing: an event it deleted as  *)
(* done has had every leg of Pack's one decision shown, also when the      *)
(* first response was lost and only a deduplicated one arrived.            *)
(***************************************************************************)
NothingMissed ==
  ~MarkFirst => \A e \in Events : status[e] = "settled" =>
    /\ decisions[e] # None
    /\ \A leg \in decisions[e].legs : shown[e][leg] > 0

(***************************************************************************)
(* A visual repeats only when a crash falls between showing and marking:   *)
(* never for a host that marks first, and at most once more per crash for  *)
(* one that marks after.  Lost responses and retries repeat nothing.       *)
(***************************************************************************)
RepeatsOnlyByCrash ==
  \A e \in Events, leg \in Legs :
    shown[e][leg] <= IF MarkFirst THEN 1 ELSE 1 + crashes

(***************************************************************************)
(* Pack's exactly-once decision processing, through the SDK: the queue     *)
(* keeps the promise of DurableDelivery, an effect being a decision.       *)
(***************************************************************************)
Delivery == INSTANCE DurableDelivery
  WITH queued <- {e \in Events : queue[e] # None}, effects <- decided,
       verdict <- status

DeliversDurably == Delivery!Safe

\* Every queued comment event is decided and shown, or dropped, in the end.
EverySettles == Delivery!Concludes
=============================================================================
