----------------------------- MODULE QueuedCall -----------------------------
(***************************************************************************)
(* SignedRequest seen from a durable queue.  DurableQueue models a call in *)
(* six steps; here a call of a queued operation, taken statement by        *)
(* statement, is shown to do nothing else: each of its steps is one of the *)
(* six or leaves the queue as it is.                                       *)
(***************************************************************************)
EXTENDS SignedRequest

CONSTANT QueuedMethod   \* the method that delivers the queue's events

ASSUME QueuedAssumption == QueuedMethod \in { m \in Methods : ClassifyPrivacyError(m) }

QueuedInit == Init /\ method = QueuedMethod
QueuedSpec == QueuedInit /\ [][Next]_vars

(***************************************************************************)
(* A response to the queue.  Any other success counts as 200.  Any refusal *)
(* that may pass - and one of authentication, after which the worker keeps *)
(* the event too - counts as 503, any other as 409.                        *)
(***************************************************************************)
QueueReply(status, code) == [status |-> status, code |-> code, result |-> None]

Undecided(r) == TransientStatus(r.status) \/ r.status \in {401, 403}
FinalRefusal(r) == ~IsSuccess(r.status) /\ ~Undecided(r)

Abstract(r) ==
  CASE IsSuccess(r.status) -> QueueReply(200, None)
    [] FinalRefusal(r) -> QueueReply(409, ClassifiedCode(r))
    [] OTHER -> QueueReply(503, None)

QueueReplies ==
  { QueueReply(200, None), QueueReply(503, None) }
    \cup { QueueReply(409, code) : code \in PrivacyOperationErrorCode \cup {None} }

(***************************************************************************)
(* A status that may pass never comes with a code that is final: so Pack's *)
(* refusals are in tests/test_privacy_contract.py 897-968.                 *)
(***************************************************************************)
Consistent(r) ==
  TransientStatus(r.status) => ClassifiedCode(r) \in RetryCodes \cup {None}

(***************************************************************************)
(* The call as the queue knows it.  A wait before another attempt belongs  *)
(* to that attempt when the exchange was cut, and to the response it       *)
(* follows when there was one.                                             *)
(***************************************************************************)
AfterCut == pc = "backoff" /\ LastAnswer.cut

CallAttempt == IF AfterCut THEN attempt + 1 ELSE attempt

CallPc ==
  CASE pc \in {"begin", "send"} \/ AfterCut -> "send"
    [] pc = "done" -> "result"
    [] OTHER -> "await"

CallReply ==
  CASE pc = "headers" -> None
    [] pc = "read" -> Abstract(reply)
    [] pc \notin {"headers", "read"} /\ answers # << >> /\ LastAnswer.reply # None ->
         Abstract(LastAnswer.reply)
    [] OTHER -> None

Kept(a) == a.cut /\ a.reply # None /\ FinalRefusal(a.reply)

KeptStatus == IF \E i \in 1..Len(answers) : Kept(answers[i]) THEN 409 ELSE None

Over == terminal.kind = "transport" \/ (pc = "done" /\ outcome.kind # "result")

Call ==
  IF Over THEN None
  ELSE [ bytes |-> "bytes", attempt |-> CallAttempt, pc |-> CallPc,
         reply |-> CallReply, terminal_status |-> KeptStatus ]

(***************************************************************************)
(* A request may still reach Pack when no answer came for it, or one that  *)
(* says nothing final.                                                     *)
(***************************************************************************)
Inconclusive(r) ==
  Abstract(r) \in { QueueReply(503, None),
                    QueueReply(409, "privacy_operation_in_progress") }

AnsweredLate ==
  \E i \in 1..Len(answers) :
    answers[i].reply = None \/ Inconclusive(answers[i].reply)

MayArriveLate ==
  \/ AnsweredLate
  \/ reply # None /\ Inconclusive(reply)
  \/ pc = "done" /\ reply = None /\ Len(answers) < sent

Late == IF MayArriveLate THEN {[event |-> "event", bytes |-> "bytes"]} ELSE {}

Status ==
  IF outcome.disposition \in {"discard_event", "start_new_read"}
  THEN "dropped" ELSE "open"

Queue == INSTANCE DurableQueue WITH
  Events <- {"event"},
  AttemptLimit <- MaxAttempts(QueuedMethod),
  CrashLimit <- 0,
  late <- Late,
  queue <- [e \in {"event"} |-> "bytes"],
  status <- [e \in {"event"} |-> Status],
  call <- [e \in {"event"} |-> Call],
  crashes <- 0

ASSUME NoneIsNoCall ==
  /\ None \notin QueueReplies
  /\ None \notin [ bytes : {"bytes"}, attempt : Nat, pc : {"send", "await", "result"},
                    reply : QueueReplies \cup {None}, terminal_status : {None, 409} ]

-----------------------------------------------------------------------------
CallStep ==
  \/ Queue!Transmit("event")
  \/ Queue!Receive("event")
  \/ Queue!Cut("event")
  \/ Queue!Abandon("event")
  \/ \E r \in QueueReplies \ Queue!Transient : Queue!Answer("event", r)
  \/ Queue!AnswerLater("event")

(***************************************************************************)
(* A call of a queued operation begins as DurableQueue's NewCall, and goes *)
(* on by DurableQueue's steps alone: the event is dropped, or its result   *)
(* kept, exactly when Receive says so, an attempt follows another exactly  *)
(* when Receive or Cut allows it, a request that may reach Pack later is   *)
(* always accounted for, and every other end leaves the event queued.      *)
(***************************************************************************)
ImplementsQueuedCall ==
  /\ Late = {} /\ Status = "open" /\ Call = Queue!NewCall("bytes")
  /\ [][CallStep]_(Queue!queueVars)
=============================================================================
