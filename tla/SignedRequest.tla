--------------------------- MODULE SignedRequest ----------------------------
(***************************************************************************)
(* One awaited call of CompanionsClient: the public method, the attempt    *)
(* loop of _signed_request, the classification of a refusal and the error  *)
(* or result the host sees.                                                *)
(*                                                                         *)
(* The service and the network are the environment: Replies is the set of  *)
(* HTTP responses they may produce, and every await on the network may     *)
(* raise httpx.TransportError instead.  Signing (_signing.py) has no       *)
(* effect on the control of the call: it is part of Transmit.              *)
(***************************************************************************)
EXTENDS Dispositions, Sequences

CONSTANTS
  CommentMaxAttempts,   \* the client's comment_max_attempts
  PrivacyMaxAttempts,   \* the client's privacy_max_attempts
  MaxRetryAfter,        \* MAX_RETRY_AFTER_SECONDS
  Replies               \* HTTP responses the service may give, see Reply

(***************************************************************************)
(* The client's constructor refuses any other number of attempts.          *)
(***************************************************************************)
ASSUME AttemptsAssumption ==
  /\ CommentMaxAttempts \in 1..3
  /\ PrivacyMaxAttempts \in 1..3
ASSUME RetryAfterAssumption == MaxRetryAfter \in Nat

LinkRequiredCode == "existing_identity_link_required"
Codes == PrivacyOperationErrorCode \cup {LinkRequiredCode, None}

(***************************************************************************)
(* What the SDK can tell apart in a response.  form is "object" for a body *)
(* that is a JSON object, "garbage" for one that is not, "unreadable" for  *)
(* one _read_response_bounded refuses (encoded or too large); code and     *)
(* completed are the object's detail.code and detail.operation_completed   *)
(* (None: absent or of another type or vocabulary); valid says whether the *)
(* object satisfies the method's response schema.                          *)
(***************************************************************************)
FinalStatus == 200..999   \* httpx consumes informational responses itself

Reply ==
  [ status : FinalStatus, retry_after : Nat \cup {None},
    form : {"object", "garbage", "unreadable"}, code : Codes,
    completed : BOOLEAN \cup {None}, valid : BOOLEAN, is_new : BOOLEAN ]

ASSUME RepliesAssumption == Replies \subseteq Reply /\ None \notin Replies

(***************************************************************************)
(* What an awaiting host can observe: a return value, one of the SDK's     *)
(* exceptions, or the cancellation it asked for.                           *)
(***************************************************************************)
OutcomeKinds ==
  { "result", "auth", "service", "privacy_operation", "link_required",
    "transport", "protocol", "cancelled" }

ASSUME NoneIsNoKind == None \notin OutcomeKinds

(***************************************************************************)
(* The public methods, grouped by how they call _signed_request: "read"    *)
(* stands for the manifest and the runtime catalog, "recover" for an       *)
(* identify with require_existing_link, "privacy" for the seven privacy    *)
(* operations, "comment" for typed and "legacy" for snapshot-only comments.*)
(***************************************************************************)
Methods == { "ping", "read", "connected", "identify", "recover", "erase",
             "privacy", "comment", "legacy" }

MaxAttempts(m) ==
  CASE m = "comment" -> CommentMaxAttempts
    [] m = "privacy" -> PrivacyMaxAttempts
    [] OTHER -> 1

RetryableStatuses(m) ==
  IF m \in {"comment", "privacy"} THEN {502, 503, 504} ELSE {}

ClassifyPrivacyError(m) == m \in {"comment", "privacy", "erase"}
ClassifyMiss(m) == m = "recover"
Classifies(m) == ClassifyPrivacyError(m) \/ ClassifyMiss(m)

VARIABLES
  method,             \* the public method awaited
  oversize,           \* len(body) > MAX_REQUEST_BYTES
  pc,                 \* where the call is suspended
  attempt,            \* the loop variable of _signed_request
  sent,               \* requests put on the wire so far (history)
  reply,              \* active_response
  terminal,           \* terminal_kind, terminal_status
  error,              \* the classified metadata of a refusal
  response_body,      \* the reply whose body was read as a result, or None
  protocol_message,   \* whether protocol_message is set
  answers,            \* how each transmission ended (history)
  outcome             \* what the awaiting host receives

vars == << method, oversize, pc, attempt, sent, reply, terminal, error,
           response_body, protocol_message, answers, outcome >>

NoTerminal == [kind |-> None, status |-> None]
NoError == [ code |-> None, completed |-> None, retry_after |-> None,
             link_required |-> FALSE ]
NoOutcome == [ kind |-> None, status |-> None, code |-> None,
               completed |-> None, retry_after |-> None, disposition |-> None ]

\* Seeded fault: only 200 counts as a success.
OnlyOK(status) == status = 200
IsSuccess(status) == status >= 200 /\ status < 300

\* Seeded fault: the bound on the delay is forgotten.
UnboundedRetryAfter(value) == value
ParseRetryAfter(value) ==
  IF value # None /\ value <= MaxRetryAfter THEN value ELSE None

(***************************************************************************)
(* An answer is a response, or None when not even headers came, and        *)
(* whether the exchange was cut by a transport error.                      *)
(***************************************************************************)
Answer(r, cut) == [reply |-> r, cut |-> cut]
LastAnswer == answers[Len(answers)]

Init ==
  /\ method \in Methods
  /\ oversize \in BOOLEAN
  /\ pc = "begin"
  /\ attempt = 0
  /\ sent = 0
  /\ reply = None
  /\ terminal = NoTerminal
  /\ error = NoError
  /\ response_body = None
  /\ protocol_message = FALSE
  /\ answers = << >>
  /\ outcome = NoOutcome

-----------------------------------------------------------------------------
(***************************************************************************)
(* Entry: the size limit, then the httpx client and URL, whose failures    *)
(* the outer handler turns into a transport error.                         *)
(***************************************************************************)
RejectOversize ==
  /\ pc = "begin"
  /\ oversize
  /\ outcome' = [NoOutcome EXCEPT !.kind = "protocol"]
  /\ pc' = "done"
  /\ UNCHANGED << method, oversize, attempt, sent, reply, terminal, error,
                  response_body, protocol_message, answers >>

FailToOpen ==
  /\ pc = "begin"
  /\ ~oversize
  /\ terminal' = [terminal EXCEPT !.kind = "transport"]
  /\ pc' = "raise"
  /\ UNCHANGED << method, oversize, attempt, sent, reply, error, response_body,
                  protocol_message, answers, outcome >>

Open ==
  /\ pc = "begin"
  /\ ~oversize
  /\ pc' = "send"
  /\ UNCHANGED << method, oversize, attempt, sent, reply, terminal, error,
                  response_body, protocol_message, answers, outcome >>

Transmit ==
  /\ pc = "send"
  /\ sent' = sent + 1
  /\ pc' = "headers"
  /\ UNCHANGED << method, oversize, attempt, reply, terminal, error,
                  response_body, protocol_message, answers, outcome >>

(***************************************************************************)
(* Response headers.  The four branches of the status test, in its order.  *)
(***************************************************************************)
\* Seeded fault: an off-by-one in the retry test.
OneTooMany == attempt < MaxAttempts(method)
MayRetry == attempt + 1 < MaxAttempts(method)

\* Seeded fault: any failure is retried, not only the retryable statuses.
RetryEveryFailure(r) == ~IsSuccess(r.status) /\ MayRetry
RetryStatus(r) == r.status \in RetryableStatuses(method) /\ MayRetry

HeadersRetry(r) ==
  /\ pc = "headers"
  /\ RetryStatus(r)
  /\ answers' = Append(answers, Answer(r, FALSE))
  /\ pc' = "backoff"
  /\ UNCHANGED << method, oversize, attempt, sent, reply, terminal, error,
                  response_body, protocol_message, outcome >>

HeadersAuth(r) ==
  /\ pc = "headers"
  /\ ~RetryStatus(r)
  /\ r.status \in {401, 403}
  /\ terminal' = [kind |-> "auth", status |-> r.status]
  /\ answers' = Append(answers, Answer(r, FALSE))
  /\ pc' = "close"
  /\ UNCHANGED << method, oversize, attempt, sent, reply, error, response_body,
                  protocol_message, outcome >>

ServiceFailure(r) ==
  /\ ~RetryStatus(r)
  /\ r.status \notin {401, 403}
  /\ ~IsSuccess(r.status)

HeadersFailure(r) ==
  /\ pc = "headers"
  /\ ServiceFailure(r)
  /\ ~Classifies(method)
  /\ terminal' = [kind |-> "service", status |-> r.status]
  /\ answers' = Append(answers, Answer(r, FALSE))
  /\ pc' = "close"
  /\ UNCHANGED << method, oversize, attempt, sent, reply, error, response_body,
                  protocol_message, outcome >>

\* Seeded fault: an absent Retry-After leaves the earlier attempt's delay.
KeepOlderDelay(r) ==
  IF ParseRetryAfter(r.retry_after) = None THEN error
  ELSE [error EXCEPT !.retry_after = ParseRetryAfter(r.retry_after)]
ErrorAtHeaders(r) ==
  [error EXCEPT !.retry_after = ParseRetryAfter(r.retry_after)]

HeadersClassify(r) ==
  /\ pc = "headers"
  /\ ServiceFailure(r)
  /\ Classifies(method)
  /\ terminal' = [kind |-> "service", status |-> r.status]
  /\ error' = ErrorAtHeaders(r)
  /\ reply' = r
  /\ pc' = "read"
  /\ UNCHANGED << method, oversize, attempt, sent, response_body,
                  protocol_message, answers, outcome >>

HeadersSuccess(r) ==
  /\ pc = "headers"
  /\ IsSuccess(r.status)
  /\ reply' = r
  /\ pc' = "read"
  /\ UNCHANGED << method, oversize, attempt, sent, terminal, error,
                  response_body, protocol_message, answers, outcome >>

ReceiveHeaders ==
  \E r \in Replies :
     \/ HeadersRetry(r)
     \/ HeadersAuth(r)
     \/ HeadersFailure(r)
     \/ HeadersClassify(r)
     \/ HeadersSuccess(r)

(***************************************************************************)
(* Bodies.  A refusal's body only refines the error; a success's body is   *)
(* the result.  Neither read raises: what it refuses is a protocol message,*)
(* which the error path ignores.                                           *)
(***************************************************************************)
\* Seeded fault: a code is only taken with operation_completed beside it.
CodeWithFlag(r) ==
  IF r.form = "object" /\ r.code \in PrivacyOperationErrorCode /\ r.completed # None
  THEN r.code ELSE None
ClassifiedCode(r) ==
  IF r.form = "object" /\ r.code \in PrivacyOperationErrorCode THEN r.code ELSE None

\* Seeded fault: every 404 of an existing-only identify is a missing link.
AnyMissingIsALinkMiss(r) ==
  [error EXCEPT !.link_required = ClassifyMiss(method) /\ r.status = 404]
Classified(r) ==
  [ code |-> IF ClassifyPrivacyError(method) THEN ClassifiedCode(r) ELSE None,
    completed |-> IF ClassifyPrivacyError(method) /\ ClassifiedCode(r) # None
                  THEN r.completed ELSE None,
    retry_after |-> error.retry_after,
    link_required |-> /\ ClassifyMiss(method) /\ r.status = 404
                      /\ r.form = "object" /\ r.code = LinkRequiredCode ]

ReadError ==
  /\ pc = "read"
  /\ ~IsSuccess(reply.status)
  /\ error' = Classified(reply)
  /\ answers' = Append(answers, Answer(reply, FALSE))
  /\ reply' = None
  /\ pc' = "close"
  /\ UNCHANGED << method, oversize, attempt, sent, terminal, response_body,
                  protocol_message, outcome >>

ReadResult ==
  /\ pc = "read"
  /\ IsSuccess(reply.status)
  /\ IF reply.form = "unreadable"
     THEN protocol_message' = TRUE /\ UNCHANGED response_body
     ELSE response_body' = reply /\ UNCHANGED protocol_message
  /\ answers' = Append(answers, Answer(reply, FALSE))
  /\ reply' = None
  /\ pc' = "close"
  /\ UNCHANGED << method, oversize, attempt, sent, terminal, error, outcome >>

(***************************************************************************)
(* httpx.TransportError while waiting for headers or reading a body.  Note *)
(* that terminal and error keep what this attempt already wrote to them.   *)
(***************************************************************************)
TransportError ==
  /\ pc \in {"headers", "read"}
  /\ answers' = Append(answers, Answer(reply, TRUE))
  /\ reply' = None
  /\ IF MayRetry
     THEN pc' = "backoff" /\ UNCHANGED terminal
     ELSE pc' = "close" /\ terminal' = [terminal EXCEPT !.kind = "transport"]
  /\ UNCHANGED << method, oversize, attempt, sent, error, response_body,
                  protocol_message, outcome >>

Backoff ==
  /\ pc = "backoff"
  /\ attempt' = attempt + 1
  /\ pc' = "send"
  /\ UNCHANGED << method, oversize, sent, reply, terminal, error,
                  response_body, protocol_message, answers, outcome >>

(***************************************************************************)
(* Leaving the async client: its close may fail, and the outer handler     *)
(* then overrides whatever the loop decided.                               *)
(***************************************************************************)
Close ==
  /\ pc = "close"
  /\ pc' = "raise"
  /\ \/ UNCHANGED terminal
     \/ terminal' = [terminal EXCEPT !.kind = "transport"]
  /\ UNCHANGED << method, oversize, attempt, sent, reply, error, response_body,
                  protocol_message, answers, outcome >>

(***************************************************************************)
(* What the call raises or returns: the chain of tests after the loop,     *)
(* then the JSON decoding and the method's own validation.                 *)
(***************************************************************************)
PrivacyOperationError ==
  [ kind |-> "privacy_operation", status |-> terminal.status,
    code |-> error.code, completed |-> error.completed,
    retry_after |-> error.retry_after,
    disposition |-> Disposition(terminal.status, error.code) ]

ServiceError ==
  IF ClassifyPrivacyError(method) THEN PrivacyOperationError
  ELSE [ NoOutcome EXCEPT
           !.kind = IF error.link_required /\ terminal.status = 404
                    THEN "link_required" ELSE "service",
           !.status = terminal.status ]

Acceptable(r) ==
  /\ r.form = "object"
  /\ method = "ping" \/ r.valid
  /\ method = "recover" => ~r.is_new

HasResult ==
  /\ ~protocol_message
  /\ response_body # None
  /\ Acceptable(response_body)

\* Seeded fault: the body is returned without decoding or validating it.
UnvalidatedResult ==
  CASE terminal.kind = "auth" ->
         [NoOutcome EXCEPT !.kind = "auth", !.status = terminal.status]
    [] terminal.kind = "service" -> ServiceError
    [] terminal.kind = "transport" -> [NoOutcome EXCEPT !.kind = "transport"]
    [] OTHER -> [NoOutcome EXCEPT !.kind = "result"]

RaisedOrReturned ==
  CASE terminal.kind = "auth" ->
         [NoOutcome EXCEPT !.kind = "auth", !.status = terminal.status]
    [] terminal.kind = "service" -> ServiceError
    [] terminal.kind = "transport" -> [NoOutcome EXCEPT !.kind = "transport"]
    [] OTHER -> [NoOutcome EXCEPT !.kind = IF HasResult THEN "result" ELSE "protocol"]

Raise ==
  /\ pc = "raise"
  /\ outcome' = RaisedOrReturned
  /\ pc' = "done"
  /\ UNCHANGED << method, oversize, attempt, sent, reply, terminal, error,
                  response_body, protocol_message, answers >>

(***************************************************************************)
(* The host cancels the task at an await: asyncio.CancelledError is not    *)
(* caught anywhere and reaches the host as it is.                          *)
(***************************************************************************)
Cancel ==
  /\ pc \in {"headers", "read", "backoff", "close"}
  /\ outcome' = [NoOutcome EXCEPT !.kind = "cancelled"]
  /\ pc' = "done"
  /\ UNCHANGED << method, oversize, attempt, sent, reply, terminal, error,
                  response_body, protocol_message, answers >>

Progress ==
  \/ RejectOversize
  \/ FailToOpen
  \/ Open
  \/ Transmit
  \/ ReceiveHeaders
  \/ ReadError
  \/ ReadResult
  \/ TransportError
  \/ Backoff
  \/ Close
  \/ Raise

Next == Progress \/ Cancel

(***************************************************************************)
(* Every await of the call is bounded by the httpx timeout or by sleep, so *)
(* a pending step is eventually taken; the host need never cancel.         *)
(***************************************************************************)
Spec == Init /\ [][Next]_vars /\ WF_vars(Progress)

-----------------------------------------------------------------------------
(***************************************************************************)
(* Type invariant.  In particular no Retry-After beyond the SDK's bound and*)
(* no code outside the allowlist is ever kept (client.py:829-840, 769-800).*)
(***************************************************************************)
Delays == 0..MaxRetryAfter \cup {None}
PrivacyCodes == PrivacyOperationErrorCode \cup {None}

TerminalType ==
  [ kind : {"auth", "service", "transport", None}, status : FinalStatus \cup {None} ]

ErrorType ==
  [ code : PrivacyCodes, completed : BOOLEAN \cup {None}, retry_after : Delays,
    link_required : BOOLEAN ]

AnswerType == [reply : Replies \cup {None}, cut : BOOLEAN]

OutcomeType ==
  [ kind : OutcomeKinds \cup {None},
    status : FinalStatus \cup {None}, code : PrivacyCodes,
    completed : BOOLEAN \cup {None}, retry_after : Delays,
    disposition : PrivacyErrorDisposition \cup {None} ]

TypeOK ==
  /\ method \in Methods
  /\ oversize \in BOOLEAN
  /\ pc \in {"begin", "send", "headers", "read", "backoff", "close", "raise", "done"}
  /\ attempt \in Nat
  /\ sent \in Nat
  /\ reply \in Replies \cup {None}
  /\ terminal \in TerminalType
  /\ error \in ErrorType
  /\ response_body \in Replies \cup {None}
  /\ protocol_message \in BOOLEAN
  /\ answers \in Seq(AnswerType)
  /\ outcome \in OutcomeType

(***************************************************************************)
(* No interleaving of retryable statuses and transport errors puts more    *)
(* requests on the wire than the method's limit: one for every method but  *)
(* typed comments and the seven privacy operations.                        *)
(***************************************************************************)
BoundedTransmissions == sent <= MaxAttempts(method)

(***************************************************************************)
(* The SDK transmits again only after an exchange that left open whether   *)
(* the service acted: one cut by the transport, or a 502, 503 or 504.      *)
(***************************************************************************)
Ambiguous(a) == a.cut \/ a.reply.status \in {502, 503, 504}

RetryOnlyAmbiguous ==
  \A i \in 1..Len(answers) : i < sent => Ambiguous(answers[i])

(***************************************************************************)
(* A PrivacyOperationError never combines two attempts' metadata: status   *)
(* and retry delay are of one and the same answer, and a machine code only *)
(* ever comes with the last answer, read to its end.                       *)
(***************************************************************************)
ErrorFromOneAnswer ==
  outcome.kind = "privacy_operation" =>
    \E i \in 1..Len(answers) :
       /\ answers[i].reply # None
       /\ outcome.status = answers[i].reply.status
       /\ outcome.retry_after = ParseRetryAfter(answers[i].reply.retry_after)
       /\ outcome.code # None =>
            /\ i = Len(answers)
            /\ ~answers[i].cut
            /\ outcome.code = answers[i].reply.code

(***************************************************************************)
(* The host is told never to send an event again only when the service     *)
(* did refuse it for good in some answer: with a status that is neither a  *)
(* success nor transient, or with a code that says so.                     *)
(***************************************************************************)
RefusedForGood(a) ==
  /\ a.reply # None
  /\ \/ a.reply.status \in 300..499 \ {408, 425, 429}
     \/ a.reply.status >= 300 /\ a.reply.code \notin RetryCodes \cup {None}

DropOnlyIfRefused ==
  outcome.disposition \in {"discard_event", "start_new_read"} =>
    \E i \in 1..Len(answers) : RefusedForGood(answers[i])

(***************************************************************************)
(* A call whose last exchange Pack answered, readably, with a code that    *)
(* asks for a retry never tells the host to drop the event, whatever its   *)
(* status and whatever an earlier attempt left on record.                  *)
(***************************************************************************)
AsksForRetry(a) ==
  /\ ~a.cut
  /\ a.reply.status \notin 200..299
  /\ a.reply.form = "object"
  /\ a.reply.code \in RetryCodes

KeptIfAsked ==
  outcome.disposition \in {"discard_event", "start_new_read"} =>
    ~AsksForRetry(LastAnswer)

(***************************************************************************)
(* A result is only ever the complete and valid success of the last        *)
(* transmission, and an existing-only identify never yields a new link.    *)
(***************************************************************************)
Accepted(a) ==
  /\ ~a.cut
  /\ a.reply.status \in 200..299
  /\ a.reply.form = "object"
  /\ method # "ping" => a.reply.valid

ResultOnlyIfAccepted ==
  outcome.kind = "result" =>
    /\ Len(answers) = sent /\ sent > 0
    /\ Accepted(LastAnswer)
    /\ method = "recover" => ~LastAnswer.reply.is_new

(***************************************************************************)
(* When the last exchange was a complete success the host learns of no     *)
(* refusal, unless an earlier attempt's refusal was cut while its body was *)
(* being read (see DropMeansRefused for that case).                        *)
(***************************************************************************)
Refusals == {"auth", "service", "privacy_operation", "link_required"}

AcceptedIsNotRefused ==
  outcome.kind \in Refusals /\ Accepted(LastAnswer) =>
    \E i \in 1..Len(answers) :
      /\ answers[i].cut
      /\ answers[i].reply # None
      /\ answers[i].reply.status \notin 200..299

(***************************************************************************)
(* An existing-only identify reports a missing link exactly when the       *)
(* service said so in a complete 404: any other refusal stays an ordinary  *)
(* service error, so that an outage is never taken for a missing account.  *)
(***************************************************************************)
LinkMiss(a) ==
  /\ ~a.cut
  /\ a.reply.status = 404
  /\ a.reply.form = "object"
  /\ a.reply.code = LinkRequiredCode

LinkRequiredExact ==
  /\ outcome.kind = "link_required" => method = "recover" /\ LinkMiss(LastAnswer)
  /\ outcome.kind = "service" /\ method = "recover" => ~LinkMiss(LastAnswer)

(***************************************************************************)
(* What README.md says of discard_event: "the UUID was reused incorrectly  *)
(* or the failure is otherwise terminal without a safe recovery read"      *)
(* (lines 359-360).  A call whose last exchange was accepted has no such   *)
(* failure.                                                                *)
(***************************************************************************)
DropMeansRefused ==
  outcome.disposition \in {"discard_event", "start_new_read"} =>
    ~Accepted(LastAnswer)
-----------------------------------------------------------------------------
Refused(a) == a.reply # None /\ a.reply.status \notin 200..299

Verdict ==
  CASE outcome.kind = None -> "open"
    [] outcome.kind = "result" -> "done"
    [] outcome.disposition \in {"discard_event", "start_new_read"} -> "drop"
    [] OTHER -> "keep"

(***************************************************************************)
(* The call implements the contract a durable queue relies on: it never    *)
(* concludes "done" or "drop" without an answer that justifies it, never   *)
(* transmits once the question is closed, and always concludes.            *)
(***************************************************************************)
Promise == INSTANCE CallContract WITH
  MaxLimit <- 3,
  limit <- MaxAttempts(method),
  pending <- pc \in {"headers", "read"},
  open_question <- answers = << >> \/ Ambiguous(LastAnswer),
  refused <- \E i \in 1..Len(answers) : Refused(answers[i]),
  accepted <- answers # << >> /\ Accepted(LastAnswer),
  verdict <- Verdict

ImplementsContract == Promise!Spec
=============================================================================
