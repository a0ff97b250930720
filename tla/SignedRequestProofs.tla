------------------------- MODULE SignedRequestProofs ------------------------
(***************************************************************************)
(* What SignedRequest promises for every set of replies, every retry-delay *)
(* bound and every admissible number of attempts, and that a call of a     *)
(* queued operation is the one DurableQueue models.                        *)
(***************************************************************************)
EXTENDS QueuedCall, SequenceTheorems, TLAPS

USE AttemptsAssumption, RetryAfterAssumption, RepliesAssumption, NoneIsNoValue

\* Every public method may transmit one to three times.
LEMMA MaxAttemptsType == \A m \in Methods : MaxAttempts(m) \in 1..3
BY DEF Methods, MaxAttempts

\* Every refusal has one of the three dispositions, with or without a code.
LEMMA DispositionType ==
  ASSUME NEW status, NEW code
  PROVE  Disposition(status, code) \in PrivacyErrorDisposition
BY DEF Disposition, CodeDisposition, DefaultDisposition, PrivacyErrorDisposition

\* A parsed Retry-After is within the SDK's bound or absent.
LEMMA RetryAfterType ==
  ASSUME NEW value \in Nat \cup {None}
  PROVE  ParseRetryAfter(value) \in Delays
BY DEF ParseRetryAfter, Delays

\* A response is a success exactly when its status is one of 200..299.
LEMMA SuccessStatus ==
  ASSUME NEW r \in Reply
  PROVE  IsSuccess(r.status) <=> r.status \in 200..299
<1>1. r.status \in 200..999
  BY DEF Reply, FinalStatus
<1> QED
  BY <1>1 DEF IsSuccess

\* Appending an answer keeps the earlier ones and makes it the last.
LEMMA Recorded ==
  ASSUME NEW seq \in Seq(AnswerType), NEW r \in Replies \cup {None},
         NEW cut \in BOOLEAN
  PROVE  LET new == Append(seq, Answer(r, cut))
         IN  /\ new \in Seq(AnswerType)
             /\ Len(new) = Len(seq) + 1
             /\ \A i \in 1..Len(seq) : new[i] = seq[i]
             /\ new[Len(seq) + 1] = Answer(r, cut)
<1>1. Answer(r, cut) \in AnswerType
  BY DEF Answer, AnswerType
<1> QED
  BY <1>1, AppendProperties

-----------------------------------------------------------------------------
(***************************************************************************)
(* Type correctness.  A body is read only after its headers.               *)
(***************************************************************************)
Typed == TypeOK /\ (pc = "read" => reply \in Replies)

\* The initial metadata are well typed.
LEMMA NothingTyped ==
  /\ NoTerminal \in TerminalType
  /\ NoError \in ErrorType
  /\ NoOutcome \in OutcomeType
BY DEF NoTerminal, NoError, NoOutcome, TerminalType, ErrorType, OutcomeType,
   Delays, PrivacyCodes

\* The initial states are well typed.
LEMMA TypedInit == Init => Typed
<1> SUFFICES ASSUME Init PROVE Typed
  OBVIOUS
<1>1. answers \in Seq(AnswerType)
  BY DEF Init
<1>2. protocol_message \in BOOLEAN
  BY DEF Init
<1> QED
  BY NothingTyped, <1>1, <1>2 DEF Init, Typed, TypeOK

\* Every step of a call keeps its state well typed.
LEMMA TypedNext == Typed /\ [Next]_vars => Typed'
<1> SUFFICES ASSUME Typed, [Next]_vars PROVE Typed'
  OBVIOUS
<1> USE DEF Typed, TypeOK
<1>1. CASE RejectOversize
  BY <1>1, NothingTyped DEF RejectOversize, OutcomeType, OutcomeKinds
<1>2. CASE FailToOpen
  BY <1>2 DEF FailToOpen, TerminalType
<1>3. CASE Open
  BY <1>3 DEF Open
<1>4. CASE Transmit
  BY <1>4 DEF Transmit
<1>5. CASE ReceiveHeaders
  <2> PICK r \in Replies : \/ HeadersRetry(r) \/ HeadersAuth(r)
                           \/ HeadersFailure(r) \/ HeadersClassify(r)
                           \/ HeadersSuccess(r)
    BY <1>5 DEF ReceiveHeaders
  <2>0. r \in Reply /\ r.status \in FinalStatus /\ r.retry_after \in Nat \cup {None}
    BY DEF Reply
  <2>a. Append(answers, Answer(r, FALSE)) \in Seq(AnswerType)
    BY Recorded
  <2>1. CASE HeadersRetry(r)
    BY <2>1, <2>a DEF HeadersRetry
  <2>2. CASE HeadersAuth(r)
    BY <2>2, <2>a, <2>0 DEF HeadersAuth, TerminalType
  <2>3. CASE HeadersFailure(r)
    BY <2>3, <2>a, <2>0 DEF HeadersFailure, TerminalType
  <2>4. CASE HeadersClassify(r)
    <3>1. terminal' \in TerminalType
      BY <2>4, <2>0 DEF HeadersClassify, TerminalType
    <3>2. error' \in ErrorType
      BY <2>4, <2>0, RetryAfterType DEF HeadersClassify, ErrorAtHeaders, ErrorType
    <3> QED
      BY <2>4, <3>1, <3>2 DEF HeadersClassify
  <2>5. CASE HeadersSuccess(r)
    BY <2>5 DEF HeadersSuccess
  <2> QED
    BY <2>1, <2>2, <2>3, <2>4, <2>5
<1>6. CASE ReadError
  <2>1. reply \in Replies /\ reply \in Reply
    BY <1>6 DEF ReadError
  <2>2. Append(answers, Answer(reply, FALSE)) \in Seq(AnswerType)
    BY <2>1, Recorded
  <2>3. Classified(reply) \in ErrorType
    BY <2>1 DEF Classified, ClassifiedCode, PrivacyCodes, Reply, ClassifyMiss, ErrorType
  <2> QED
    BY <1>6, <2>2, <2>3 DEF ReadError
<1>7. CASE ReadResult
  <2>1. Append(answers, Answer(reply, FALSE)) \in Seq(AnswerType)
    BY Recorded
  <2> QED
    BY <1>7, <2>1 DEF ReadResult
<1>8. CASE TransportError
  <2>1. Append(answers, Answer(reply, TRUE)) \in Seq(AnswerType)
    BY Recorded
  <2> QED
    BY <1>8, <2>1 DEF TransportError, TerminalType
<1>9. CASE Backoff
  BY <1>9 DEF Backoff
<1>10. CASE Close
  BY <1>10 DEF Close, TerminalType
<1>11. CASE Raise
  <2>1. RaisedOrReturned \in OutcomeType
    BY DispositionType, NothingTyped DEF RaisedOrReturned, ServiceError,
       PrivacyOperationError, OutcomeType, OutcomeKinds, TerminalType, ErrorType
  <2> QED
    BY <1>11, <2>1 DEF Raise
<1>12. CASE Cancel
  BY <1>12, NothingTyped DEF Cancel, OutcomeType, OutcomeKinds
<1>13. CASE UNCHANGED vars
  BY <1>13 DEF vars
<1> QED
  BY <1>1, <1>2, <1>3, <1>4, <1>5, <1>6, <1>7, <1>8, <1>9, <1>10, <1>11,
     <1>12, <1>13 DEF Next, Progress

\* A call is well typed throughout.
LEMMA AlwaysTyped == Spec => []Typed
BY TypedInit, TypedNext, PTL DEF Spec

(***************************************************************************)
(* Type correctness of every reachable state; in particular no delay       *)
(* beyond the bound and no code outside the allowlist reaches the host.    *)
(***************************************************************************)
THEOREM TypeCorrect == Spec => []TypeOK
BY AlwaysTyped, PTL DEF Typed

-----------------------------------------------------------------------------
(***************************************************************************)
(* Counting transmissions.  sent alone is not inductive: at each await it  *)
(* is tied to the loop variable and to the answers received so far, and a  *)
(* backoff is only entered while one more attempt is allowed.              *)
(***************************************************************************)
Ended == {"close", "raise", "done"}

Counted ==
  /\ pc = "begin" => attempt = 0 /\ sent = 0 /\ Len(answers) = 0
  /\ pc = "send" =>
       sent = attempt /\ Len(answers) = attempt /\ attempt < MaxAttempts(method)
  /\ pc \in {"headers", "read"} =>
       /\ sent = attempt + 1
       /\ Len(answers) = attempt
       /\ attempt < MaxAttempts(method)
  /\ pc = "backoff" =>
       sent = attempt + 1 /\ Len(answers) = sent /\ sent < MaxAttempts(method)
  /\ pc \in Ended => Len(answers) <= sent /\ sent <= MaxAttempts(method)

\* Initially nothing was sent.
LEMMA CountedInit == Init => Counted
BY MaxAttemptsType DEF Init, Counted, Ended

\* Every step keeps the requests sent in line with the attempt.
LEMMA CountedNext == Typed /\ Counted /\ [Next]_vars => Counted'
<1> SUFFICES ASSUME Typed, Counted, [Next]_vars PROVE Counted'
  OBVIOUS
<1>0. MaxAttempts(method) \in 1..3 /\ Len(answers) \in Nat
  BY MaxAttemptsType DEF Typed, TypeOK
<1>a. ASSUME NEW r \in Replies \cup {None}, NEW cut \in BOOLEAN,
             answers' = Append(answers, Answer(r, cut))
      PROVE  Len(answers') = Len(answers) + 1
  BY <1>a, Recorded DEF Typed, TypeOK
<1> USE <1>0 DEF Counted, Ended, Typed, TypeOK
<1>1. CASE RejectOversize
  BY <1>1 DEF RejectOversize
<1>2. CASE FailToOpen
  BY <1>2 DEF FailToOpen
<1>3. CASE Open
  BY <1>3 DEF Open
<1>4. CASE Transmit
  BY <1>4 DEF Transmit
<1>5. CASE ReceiveHeaders
  <2> PICK r \in Replies : \/ HeadersRetry(r) \/ HeadersAuth(r)
                           \/ HeadersFailure(r) \/ HeadersClassify(r)
                           \/ HeadersSuccess(r)
    BY <1>5 DEF ReceiveHeaders
  <2>1. CASE HeadersRetry(r)
    BY <2>1, <1>a DEF HeadersRetry, RetryStatus, MayRetry
  <2>2. CASE HeadersAuth(r)
    BY <2>2, <1>a DEF HeadersAuth
  <2>3. CASE HeadersFailure(r)
    BY <2>3, <1>a DEF HeadersFailure
  <2>4. CASE HeadersClassify(r)
    BY <2>4 DEF HeadersClassify
  <2>5. CASE HeadersSuccess(r)
    BY <2>5 DEF HeadersSuccess
  <2> QED
    BY <2>1, <2>2, <2>3, <2>4, <2>5
<1>6. CASE ReadError
  BY <1>6, <1>a DEF ReadError
<1>7. CASE ReadResult
  BY <1>7, <1>a DEF ReadResult
<1>8. CASE TransportError
  BY <1>8, <1>a DEF TransportError, MayRetry
<1>9. CASE Backoff
  BY <1>9 DEF Backoff
<1>10. CASE Close
  BY <1>10 DEF Close
<1>11. CASE Raise
  BY <1>11 DEF Raise
<1>12. CASE Cancel
  BY <1>12 DEF Cancel
<1>13. CASE UNCHANGED vars
  BY <1>13 DEF vars
<1> QED
  BY <1>1, <1>2, <1>3, <1>4, <1>5, <1>6, <1>7, <1>8, <1>9, <1>10, <1>11,
     <1>12, <1>13 DEF Next, Progress

\* The requests sent and the attempt agree throughout.
LEMMA AlwaysCounted == Spec => []Counted
BY CountedInit, CountedNext, AlwaysTyped, PTL DEF Spec

(***************************************************************************)
(* Whatever the service answers and wherever the transport fails, no       *)
(* method transmits more often than it was configured to.                  *)
(***************************************************************************)
THEOREM TransmissionsBounded == Spec => []BoundedTransmissions
<1>1. Typed /\ Counted => BoundedTransmissions
  BY MaxAttemptsType DEF Typed, TypeOK, Counted, Ended, BoundedTransmissions
<1> QED
  BY <1>1, AlwaysTyped, AlwaysCounted, PTL

-----------------------------------------------------------------------------
(***************************************************************************)
(* Retrying only what is ambiguous.  While the loop can still transmit,    *)
(* every answer so far must have been ambiguous, the last one included.    *)
(***************************************************************************)
Looping == {"send", "headers", "read", "backoff"}

Asked ==
  \A i \in 1..Len(answers) : pc \in Looping \/ i < sent => Ambiguous(answers[i])

\* Initially no exchange has ended.
LEMMA AskedInit == Init => Asked
BY DEF Init, Asked

\* Every step keeps all but the last exchange ambiguous.
LEMMA AskedNext == Typed /\ Counted /\ Asked /\ [Next]_vars => Asked'
<1> SUFFICES ASSUME Typed, Counted, Asked, [Next]_vars PROVE Asked'
  OBVIOUS
<1>0. Len(answers) \in Nat /\ sent \in Nat
  BY DEF Typed, TypeOK
(* An answer that ends the loop. *)
<1>a. ASSUME NEW r \in Replies \cup {None}, NEW cut \in BOOLEAN,
             answers' = Append(answers, Answer(r, cut)),
             pc \in {"headers", "read"}, sent' = sent,
             Ambiguous(Answer(r, cut)) \/ pc' = "close"
      PROVE  Asked'
  <2>1. /\ Len(answers') = Len(answers) + 1
        /\ \A i \in 1..Len(answers) : answers'[i] = answers[i]
        /\ answers'[Len(answers) + 1] = Answer(r, cut)
    BY <1>a, Recorded DEF Typed, TypeOK
  <2>2. sent = Len(answers) + 1
    BY <1>a DEF Counted
  <2>3. SUFFICES ASSUME NEW i \in 1..Len(answers'), pc' \in Looping \/ i < sent'
                 PROVE  Ambiguous(answers'[i])
    BY DEF Asked, Ambiguous
  <2>4. CASE i = Len(answers) + 1
    BY <1>a, <2>1, <2>2, <2>3, <2>4, <1>0 DEF Looping
  <2>5. CASE i # Len(answers) + 1
    BY <1>a, <2>1, <2>3, <2>5, <1>0 DEF Asked, Looping
  <2> QED
    BY <2>4, <2>5
(* A step that neither receives an answer nor re-enters the loop. *)
<1>b. ASSUME UNCHANGED answers, sent' = sent, pc' \in Looping => pc \in Looping
      PROVE  Asked'
  BY <1>b DEF Asked, Ambiguous
<1>1. CASE RejectOversize
  BY <1>1, <1>b DEF RejectOversize, Looping
<1>2. CASE FailToOpen
  BY <1>2, <1>b DEF FailToOpen, Looping
<1>3. CASE Open
  BY <1>3 DEF Open, Asked, Counted
<1>4. CASE Transmit
  BY <1>4 DEF Transmit, Asked, Looping, Ambiguous
<1>5. CASE ReceiveHeaders
  <2> PICK r \in Replies : \/ HeadersRetry(r) \/ HeadersAuth(r)
                           \/ HeadersFailure(r) \/ HeadersClassify(r)
                           \/ HeadersSuccess(r)
    BY <1>5 DEF ReceiveHeaders
  <2>1. CASE HeadersRetry(r)
    <3>1. r.status \in {502, 503, 504}
      BY <2>1 DEF HeadersRetry, RetryStatus, RetryableStatuses
    <3>2. Ambiguous(Answer(r, FALSE))
      BY <3>1 DEF Ambiguous, Answer
    <3> QED
      BY <2>1, <3>2, <1>a DEF HeadersRetry
  <2>2. CASE HeadersAuth(r)
    BY <2>2, <1>a DEF HeadersAuth
  <2>3. CASE HeadersFailure(r)
    BY <2>3, <1>a DEF HeadersFailure
  <2>4. CASE HeadersClassify(r)
    BY <2>4, <1>b DEF HeadersClassify, Looping
  <2>5. CASE HeadersSuccess(r)
    BY <2>5, <1>b DEF HeadersSuccess, Looping
  <2> QED
    BY <2>1, <2>2, <2>3, <2>4, <2>5
<1>6. CASE ReadError
  BY <1>6, <1>a DEF ReadError, Typed
<1>7. CASE ReadResult
  BY <1>7, <1>a DEF ReadResult, Typed
<1>8. CASE TransportError
  <2>1. Ambiguous(Answer(reply, TRUE))
    BY DEF Ambiguous, Answer
  <2> QED
    BY <1>8, <2>1, <1>a DEF TransportError, Typed, TypeOK
<1>9. CASE Backoff
  BY <1>9, <1>b DEF Backoff, Looping
<1>10. CASE Close
  BY <1>10, <1>b DEF Close, Looping
<1>11. CASE Raise
  BY <1>11, <1>b DEF Raise, Looping
<1>12. CASE Cancel
  BY <1>12, <1>b DEF Cancel, Looping
<1>13. CASE UNCHANGED vars
  BY <1>13, <1>b DEF vars
<1> QED
  BY <1>1, <1>2, <1>3, <1>4, <1>5, <1>6, <1>7, <1>8, <1>9, <1>10, <1>11,
     <1>12, <1>13 DEF Next, Progress

\* All but the last exchange are ambiguous throughout.
LEMMA AlwaysAsked == Spec => []Asked
BY AskedInit, AskedNext, AlwaysTyped, AlwaysCounted, PTL DEF Spec

(***************************************************************************)
(* An answer that settles whether the service acted is never followed by   *)
(* another transmission.                                                   *)
(***************************************************************************)
THEOREM OnlyAmbiguousRetried == Spec => []RetryOnlyAmbiguous
<1>1. Asked => RetryOnlyAmbiguous
  BY DEF Asked, RetryOnlyAmbiguous
<1> QED
  BY <1>1, AlwaysAsked, PTL

-----------------------------------------------------------------------------
(***************************************************************************)
(* Results.  A body kept as the result is the last answer's, received in   *)
(* full, and the loop has ended; nothing after the loop replaces it.       *)
(***************************************************************************)
ResultHeld ==
  /\ response_body # None =>
       /\ pc \in Ended
       /\ Len(answers) = sent /\ sent > 0
       /\ LastAnswer = Answer(response_body, FALSE)
       /\ IsSuccess(response_body.status)
  /\ outcome.kind = "result" => pc = "done" /\ HasResult

\* Initially no response body is held.
LEMMA ResultHeldInit == Init => ResultHeld
<1> SUFFICES ASSUME Init PROVE ResultHeld
  OBVIOUS
<1>1. outcome.kind = None
  BY DEF Init, NoOutcome
<1>2. None # "result"
  BY NoneIsNoKind DEF OutcomeKinds
<1> QED
  BY <1>1, <1>2 DEF Init, ResultHeld

\* Every step keeps a held body that of the last, complete success.
LEMMA ResultHeldNext ==
  Typed /\ Counted /\ ResultHeld /\ [Next]_vars => ResultHeld'
<1> SUFFICES ASSUME Typed, Counted, ResultHeld, [Next]_vars PROVE ResultHeld'
  OBVIOUS
<1>0. Len(answers) \in Nat /\ sent \in Nat
  BY DEF Typed, TypeOK
(* Before the loop has ended there is neither a body nor an outcome. *)
<1>a. ASSUME pc \notin Ended, UNCHANGED << response_body, outcome >>
      PROVE  ResultHeld'
  <2>1. response_body' = None /\ outcome'.kind # "result"
    BY <1>a DEF ResultHeld, Ended
  <2> QED
    BY <2>1 DEF ResultHeld
(* After it, the body and the answers it came from stay what they are. *)
<1>b. ASSUME pc \in Ended, pc' \in Ended,
             UNCHANGED << response_body, answers, sent >>,
             outcome'.kind = "result" =>
               pc' = "done" /\ HasResult'
      PROVE  ResultHeld'
  BY <1>b DEF ResultHeld, LastAnswer
<1>1. CASE RejectOversize
  <2>1. response_body' = None /\ outcome'.kind # "result"
    BY <1>1 DEF RejectOversize, ResultHeld, Ended, NoOutcome
  <2> QED
    BY <2>1 DEF ResultHeld
<1>2. CASE FailToOpen
  BY <1>2, <1>a DEF FailToOpen, Ended
<1>3. CASE Open
  BY <1>3, <1>a DEF Open, Ended
<1>4. CASE Transmit
  BY <1>4, <1>a DEF Transmit, Ended
<1>5. CASE ReceiveHeaders
  BY <1>5, <1>a DEF ReceiveHeaders, Ended, HeadersRetry, HeadersAuth,
     HeadersFailure, HeadersClassify, HeadersSuccess
<1>6. CASE ReadError
  BY <1>6, <1>a DEF ReadError, Ended
<1>7. CASE ReadResult
  <2>1. response_body = None /\ outcome.kind # "result"
    BY <1>7 DEF ReadResult, ResultHeld, Ended
  <2>2. CASE reply.form = "unreadable"
    BY <1>7, <1>a, <2>2 DEF ReadResult, Ended
  <2>3. CASE reply.form # "unreadable"
    <3>1. /\ answers' = Append(answers, Answer(reply, FALSE))
          /\ response_body' = reply /\ pc' = "close"
          /\ sent' = sent /\ outcome' = outcome /\ IsSuccess(reply.status)
      BY <1>7, <2>3 DEF ReadResult
    <3>2. /\ Len(answers') = Len(answers) + 1
          /\ answers'[Len(answers) + 1] = Answer(reply, FALSE)
      BY <1>7, <3>1, Recorded DEF ReadResult, Typed, TypeOK
    <3>3. sent = Len(answers) + 1
      BY <1>7 DEF ReadResult, Counted
    <3>4. LastAnswer' = Answer(response_body', FALSE) /\ Len(answers') = sent'
      BY <3>1, <3>2, <3>3 DEF LastAnswer
    <3>5. IsSuccess(response_body'.status)
      BY <3>1
    <3>6. pc' \in Ended /\ sent' > 0 /\ outcome'.kind # "result"
      BY <3>1, <3>3, <2>1, <1>0 DEF Ended
    <3> QED
      BY <3>4, <3>5, <3>6 DEF ResultHeld, IsSuccess
  <2> QED
    BY <2>2, <2>3
<1>8. CASE TransportError
  BY <1>8, <1>a DEF TransportError, Ended
<1>9. CASE Backoff
  BY <1>9, <1>a DEF Backoff, Ended
<1>10. CASE Close
  <2>1. outcome'.kind # "result"
    BY <1>10 DEF Close, ResultHeld
  <2> QED
    BY <1>10, <1>b, <2>1 DEF Close, Ended
<1>11. CASE Raise
  <2>1. outcome'.kind = "result" => HasResult
    <3>1. SUFFICES ASSUME RaisedOrReturned.kind = "result" PROVE HasResult
      BY <1>11 DEF Raise
    <3>2. ServiceError.kind # "result"
      BY DEF ServiceError, PrivacyOperationError, NoOutcome
    <3> QED
      BY <3>1, <3>2 DEF RaisedOrReturned, NoOutcome
  <2>2. HasResult' = HasResult
    BY <1>11 DEF Raise, HasResult, Acceptable
  <2> QED
    BY <1>11, <1>b, <2>1, <2>2 DEF Raise, Ended
<1>12. CASE Cancel
  <2>1. outcome'.kind # "result" /\ pc' = "done"
        /\ UNCHANGED << response_body, answers, sent >>
    BY <1>12 DEF Cancel, NoOutcome
  <2> QED
    BY <2>1 DEF ResultHeld, LastAnswer, Ended
<1>13. CASE UNCHANGED vars
  BY <1>13 DEF vars, ResultHeld, LastAnswer, HasResult, Acceptable
<1> QED
  BY <1>1, <1>2, <1>3, <1>4, <1>5, <1>6, <1>7, <1>8, <1>9, <1>10, <1>11,
     <1>12, <1>13 DEF Next, Progress

\* A held body is that of the last, complete success throughout.
LEMMA AlwaysResultHeld == Spec => []ResultHeld
BY ResultHeldInit, ResultHeldNext, AlwaysTyped, AlwaysCounted, PTL DEF Spec

(***************************************************************************)
(* The host receives a result only for the complete, valid success that    *)
(* ended the call.                                                         *)
(***************************************************************************)
THEOREM ResultsAreAccepted == Spec => []ResultOnlyIfAccepted
<1>1. Typed /\ ResultHeld => ResultOnlyIfAccepted
  <2> SUFFICES ASSUME Typed, ResultHeld, outcome.kind = "result"
               PROVE  /\ Len(answers) = sent /\ sent > 0
                      /\ Accepted(LastAnswer)
                      /\ method = "recover" => ~LastAnswer.reply.is_new
    BY DEF ResultOnlyIfAccepted
  <2>1. response_body # None /\ Acceptable(response_body)
    BY DEF ResultHeld, HasResult
  <2>2. response_body \in Reply /\ response_body.status \in 200..299
    <3>1. response_body \in Reply
      BY <2>1 DEF Typed, TypeOK
    <3>2. IsSuccess(response_body.status)
      BY <2>1 DEF ResultHeld
    <3> QED
      BY <3>1, <3>2, SuccessStatus
  <2>3. LastAnswer.reply = response_body /\ LastAnswer.cut = FALSE
    BY <2>1 DEF ResultHeld, Answer
  <2>4. Accepted(LastAnswer)
    BY <2>1, <2>2, <2>3 DEF Accepted, Acceptable
  <2>5. method = "recover" => ~LastAnswer.reply.is_new
    BY <2>1, <2>3 DEF Acceptable
  <2> QED
    BY <2>1, <2>4, <2>5 DEF ResultHeld
<1> QED
  BY <1>1, AlwaysTyped, AlwaysResultHeld, PTL

-----------------------------------------------------------------------------
(***************************************************************************)
(* Refusals.  The status and the delay the call has recorded are those of  *)
(* one answer it has received, or of the response it is still reading; a   *)
(* machine code is the last answer's, and ends the loop.                   *)
(***************************************************************************)
Evidence(a) ==
  /\ a.reply \in Replies
  /\ ~IsSuccess(a.reply.status)
  /\ a.reply.status = terminal.status
  /\ Classifies(method) => error.retry_after = ParseRetryAfter(a.reply.retry_after)

Shown == \E i \in 1..Len(answers) : Evidence(answers[i])

CodeShown ==
  /\ pc \in Ended
  /\ Len(answers) > 0
  /\ Evidence(LastAnswer)
  /\ ~LastAnswer.cut
  /\ LastAnswer.reply.code = error.code

RefusalHeld ==
  /\ pc \notin {"read", "done"} => reply = None
  /\ pc = "read" /\ ~IsSuccess(reply.status) =>
       terminal.kind = "service" /\ Evidence(Answer(reply, FALSE))
  /\ terminal.kind = "service" => Shown \/ Evidence(Answer(reply, FALSE))
  /\ error.code # None => CodeShown
  /\ pc # "done" => outcome = NoOutcome
  /\ outcome.disposition # None => outcome.kind = "privacy_operation"
  /\ outcome.kind = "privacy_operation" =>
       /\ ClassifyPrivacyError(method)
       /\ outcome = PrivacyOperationError
       /\ Shown

\* No response is None.
LEMMA NoneIsNoReply ==
  /\ None \notin Replies
  /\ NoOutcome.kind = None /\ NoOutcome.disposition = None
  /\ None # "privacy_operation" /\ None # "service"
BY RepliesAssumption, NoneIsNoKind DEF NoOutcome, OutcomeKinds

\* Initially no refusal is held.
LEMMA RefusalHeldInit == Init => RefusalHeld
<1> SUFFICES ASSUME Init PROVE RefusalHeld
  OBVIOUS
<1>1. terminal.kind = None /\ error.code = None /\ outcome = NoOutcome
  BY DEF Init, NoTerminal, NoError
<1> QED
  BY <1>1, NoneIsNoReply DEF Init, RefusalHeld

\* Every step keeps held metadata those of one refusal.
LEMMA RefusalHeldNext ==
  Typed /\ Counted /\ RefusalHeld /\ [Next]_vars => RefusalHeld'
<1> SUFFICES ASSUME Typed, Counted, RefusalHeld, [Next]_vars PROVE RefusalHeld'
  OBVIOUS
<1>0. Len(answers) \in Nat
  BY DEF Typed, TypeOK
<1>n. /\ None \notin Replies
      /\ NoOutcome.kind = None /\ NoOutcome.disposition = None
      /\ None # "privacy_operation" /\ None # "service"
  BY NoneIsNoReply
(* Steps that record nothing new about the exchanges. *)
<1>a. ASSUME UNCHANGED << method, terminal, error, answers, reply >>
      PROVE  /\ Shown' = Shown
             /\ Evidence(Answer(reply, FALSE))' = Evidence(Answer(reply, FALSE))
             /\ pc \in Ended /\ pc' \in Ended => CodeShown' = CodeShown
  BY <1>a DEF Shown, Evidence, Classifies, ClassifyPrivacyError, ClassifyMiss,
     CodeShown, LastAnswer
(* An answer joins the history; the record of the refusal stays. *)
<1>b. ASSUME NEW r \in Replies \cup {None}, NEW cut \in BOOLEAN,
             answers' = Append(answers, Answer(r, cut)), method' = method,
             terminal'.status = terminal.status,
             error'.retry_after = error.retry_after,
             Shown \/ Evidence(Answer(r, FALSE))
      PROVE  Shown'
  <2>1. /\ Len(answers') = Len(answers) + 1
        /\ \A i \in 1..Len(answers) : answers'[i] = answers[i]
        /\ answers'[Len(answers) + 1] = Answer(r, cut)
    BY <1>b, Recorded DEF Typed, TypeOK
  <2>2. \A a : Evidence(a) => Evidence(a)'
    BY <1>b DEF Evidence, Classifies, ClassifyPrivacyError, ClassifyMiss
  <2>3. Evidence(Answer(r, FALSE)) => Evidence(Answer(r, cut))
    BY DEF Evidence, Answer
  <2>4. CASE Shown
    <3>1. PICK i \in 1..Len(answers) : Evidence(answers[i])
      BY <2>4 DEF Shown
    <3>2. i \in 1..Len(answers') /\ answers'[i] = answers[i]
      BY <2>1, <1>0
    <3> QED
      BY <3>1, <3>2, <2>2 DEF Shown, Evidence
  <2>5. CASE Evidence(Answer(r, FALSE))
    <3>1. PICK n : n \in 1..Len(answers') /\ answers'[n] = Answer(r, cut)
      BY <2>1, <1>0
    <3> QED
      BY <3>1, <2>2, <2>3, <2>5 DEF Shown, Evidence
  <2> QED
    BY <1>b, <2>4, <2>5
<1>1. CASE RejectOversize
  <2>1. error.code = None /\ outcome'.kind = "protocol" /\ outcome'.disposition = None
    BY <1>1 DEF RejectOversize, RefusalHeld, CodeShown, Ended, NoOutcome
  <2> QED
    BY <1>1, <1>a, <1>n, <2>1 DEF RejectOversize, RefusalHeld
<1>2. CASE FailToOpen
  <2>1. error.code = None /\ terminal'.kind = "transport"
    BY <1>2 DEF FailToOpen, RefusalHeld, CodeShown, Ended, Typed, TypeOK, TerminalType
  <2> QED
    BY <1>2, <1>n, <2>1 DEF FailToOpen, RefusalHeld
<1>3. CASE Open
  BY <1>3, <1>a, <1>n DEF Open, RefusalHeld, CodeShown, Ended
<1>4. CASE Transmit
  BY <1>4, <1>a, <1>n DEF Transmit, RefusalHeld, CodeShown, Ended
<1>5. CASE ReceiveHeaders
  <2> PICK r \in Replies : \/ HeadersRetry(r) \/ HeadersAuth(r)
                           \/ HeadersFailure(r) \/ HeadersClassify(r)
                           \/ HeadersSuccess(r)
    BY <1>5 DEF ReceiveHeaders
  <2>0. pc = "headers" /\ outcome' = outcome /\ outcome = NoOutcome
        /\ error.code = None /\ reply = None
    BY <1>n DEF HeadersRetry, HeadersAuth, HeadersFailure, HeadersClassify,
       HeadersSuccess, RefusalHeld, CodeShown, Ended
  <2>1. CASE HeadersRetry(r)
    <3>1. terminal.kind = "service" => Shown
      BY <2>0, <1>n DEF RefusalHeld, Evidence, Answer
    <3>2. terminal.kind = "service" => Shown'
      BY <2>1, <3>1, <1>b DEF HeadersRetry
    <3> QED
      BY <2>1, <2>0, <3>2, <1>n DEF HeadersRetry, RefusalHeld
  <2>2. CASE HeadersAuth(r)
    BY <2>2, <2>0, <1>n DEF HeadersAuth, RefusalHeld
  <2>3. CASE HeadersFailure(r)
    <3>1. /\ answers' = Append(answers, Answer(r, FALSE))
          /\ terminal'.status = r.status /\ ~Classifies(method)
          /\ method' = method /\ ~IsSuccess(r.status)
      BY <2>3 DEF HeadersFailure, ServiceFailure
    <3>2. /\ Len(answers') = Len(answers) + 1
          /\ answers'[Len(answers) + 1] = Answer(r, FALSE)
      BY <3>1, Recorded DEF Typed, TypeOK
    <3>3. Evidence(Answer(r, FALSE))'
      BY <3>1 DEF Evidence, Answer, IsSuccess, Classifies, ClassifyPrivacyError,
         ClassifyMiss
    <3>4. Len(answers) + 1 \in 1..Len(answers')
      BY <3>2, <1>0
    <3>5. Shown'
      BY <3>2, <3>3, <3>4 DEF Shown, Evidence
    <3> QED
      BY <2>3, <2>0, <3>5, <1>n DEF HeadersFailure, RefusalHeld
  <2>4. CASE HeadersClassify(r)
    <3>1. /\ terminal'.status = r.status /\ method' = method /\ reply' = r
          /\ error'.retry_after = ParseRetryAfter(r.retry_after)
          /\ error'.code = error.code /\ ~IsSuccess(r.status)
          /\ terminal'.kind = "service"
      BY <2>4 DEF HeadersClassify, ServiceFailure, ErrorAtHeaders, Typed, TypeOK,
         ErrorType
    <3>2. Evidence(Answer(reply, FALSE))'
      BY <3>1 DEF Evidence, Answer, IsSuccess, ParseRetryAfter
    <3> QED
      BY <2>4, <2>0, <3>1, <3>2, <1>n DEF HeadersClassify, RefusalHeld
  <2>5. CASE HeadersSuccess(r)
    <3>1. terminal.kind = "service" => Shown
      BY <2>0, <1>n DEF RefusalHeld, Evidence, Answer
    <3>2. Shown' = Shown
      BY <2>5 DEF HeadersSuccess, Shown, Evidence, Classifies,
         ClassifyPrivacyError, ClassifyMiss
    <3>3. IsSuccess(reply'.status)
      BY <2>5 DEF HeadersSuccess
    <3> QED
      BY <2>5, <2>0, <3>1, <3>2, <3>3, <1>n DEF HeadersSuccess, RefusalHeld, IsSuccess
  <2> QED
    BY <2>1, <2>2, <2>3, <2>4, <2>5
<1>6. CASE ReadError
  <2>1. /\ answers' = Append(answers, Answer(reply, FALSE)) /\ reply \in Replies
        /\ error' = Classified(reply) /\ terminal' = terminal /\ method' = method
        /\ pc' = "close" /\ reply' = None /\ outcome' = NoOutcome
        /\ Evidence(Answer(reply, FALSE))
    BY <1>6 DEF ReadError, RefusalHeld, Typed
  <2>2. /\ Len(answers') = Len(answers) + 1
        /\ answers'[Len(answers) + 1] = Answer(reply, FALSE)
    BY <2>1, Recorded DEF Typed, TypeOK
  <2>3. error'.retry_after = error.retry_after
    BY <2>1 DEF Classified
  <2>4. Shown'
    BY <2>1, <2>3, <1>b
  <2>5. Evidence(Answer(reply, FALSE)) => LastAnswer' = Answer(reply, FALSE)
    BY <2>2, <1>0 DEF LastAnswer
  <2>6. \A a : Evidence(a) => Evidence(a)'
    BY <2>1, <2>3 DEF Evidence, Classifies, ClassifyPrivacyError, ClassifyMiss
  <2>7. Evidence(LastAnswer)'
    BY <2>1, <2>5, <2>6 DEF Evidence
  <2>8. error'.code # None => error'.code = reply.code
    BY <2>1 DEF Classified, ClassifiedCode
  <2>9. error'.code # None => CodeShown'
    BY <2>1, <2>2, <2>5, <2>7, <2>8, <1>0 DEF CodeShown, Ended, Answer
  <2> QED
    BY <2>1, <2>4, <2>9, <1>n DEF RefusalHeld
<1>7. CASE ReadResult
  <2>1. /\ answers' = Append(answers, Answer(reply, FALSE)) /\ reply \in Replies
        /\ error' = error /\ terminal' = terminal /\ method' = method
        /\ pc = "read" /\ pc' = "close" /\ reply' = None /\ outcome' = NoOutcome
        /\ IsSuccess(reply.status)
    BY <1>7 DEF ReadResult, RefusalHeld, Typed
  <2>2. terminal.kind = "service" => Shown
    BY <2>1 DEF RefusalHeld, Evidence, Answer
  <2>3. terminal.kind = "service" => Shown'
    BY <2>1, <2>2, <1>b
  <2>4. error.code = None
    BY <2>1 DEF RefusalHeld, CodeShown, Ended
  <2> QED
    BY <2>1, <2>3, <2>4, <1>n DEF RefusalHeld
<1>8. CASE TransportError
  <2>1. /\ answers' = Append(answers, Answer(reply, TRUE))
        /\ reply \in Replies \cup {None}
        /\ error' = error /\ terminal'.status = terminal.status
        /\ method' = method /\ pc \in {"headers", "read"}
        /\ pc' \in {"backoff", "close"} /\ reply' = None /\ outcome' = NoOutcome
        /\ terminal'.kind = "service" => terminal.kind = "service"
    BY <1>8 DEF TransportError, RefusalHeld, Typed, TypeOK, TerminalType
  <2>2. terminal'.kind = "service" => Shown'
    BY <2>1, <1>b DEF RefusalHeld
  <2>3. error.code = None
    BY <2>1 DEF RefusalHeld, CodeShown, Ended
  <2> QED
    BY <2>1, <2>2, <2>3, <1>n DEF RefusalHeld
<1>9. CASE Backoff
  BY <1>9, <1>a, <1>n DEF Backoff, RefusalHeld, CodeShown, Ended
<1>10. CASE Close
  <2>1. /\ UNCHANGED << method, answers, reply, error, outcome >>
        /\ terminal'.status = terminal.status
        /\ terminal'.kind = "service" => terminal.kind = "service"
        /\ pc = "close" /\ pc' = "raise"
    BY <1>10 DEF Close, Typed, TypeOK, TerminalType
  <2>2. /\ Shown' = Shown
        /\ Evidence(Answer(reply, FALSE))' = Evidence(Answer(reply, FALSE))
        /\ CodeShown' = CodeShown
    BY <2>1 DEF Shown, Evidence, Classifies, ClassifyPrivacyError, ClassifyMiss,
       CodeShown, LastAnswer, Ended
  <2> QED
    BY <2>1, <2>2, <1>n DEF RefusalHeld
<1>11. CASE Raise
  <2>1. UNCHANGED << method, terminal, error, answers, reply >>
        /\ pc = "raise" /\ pc' = "done" /\ outcome' = RaisedOrReturned
    BY <1>11 DEF Raise
  <2>2. reply = None
    BY <2>1 DEF RefusalHeld
  <2>3. terminal.kind = "service" => Shown
    BY <2>2, <1>n DEF RefusalHeld, Evidence, Answer
  <2>4. \/ /\ terminal.kind = "service" /\ ClassifyPrivacyError(method)
           /\ outcome' = PrivacyOperationError
        \/ outcome'.disposition = None /\ outcome'.kind # "privacy_operation"
    BY <2>1, <1>n DEF RaisedOrReturned, ServiceError, NoOutcome
  <2>5. PrivacyOperationError' = PrivacyOperationError
    BY <2>1 DEF PrivacyOperationError
  <2>6. PrivacyOperationError.kind = "privacy_operation"
    BY DEF PrivacyOperationError
  <2>7. CodeShown' = CodeShown
    BY <2>1, <1>a DEF Ended
  <2> QED
    BY <2>1, <2>2, <2>3, <2>4, <2>5, <2>6, <2>7, <1>a
       DEF RefusalHeld, ClassifyPrivacyError
<1>12. CASE Cancel
  <2>1. UNCHANGED << method, terminal, error, answers, reply >>
        /\ pc # "done" /\ pc' = "done" /\ outcome'.disposition = None
        /\ outcome'.kind = "cancelled"
    BY <1>12 DEF Cancel, NoOutcome
  <2>2. error.code # None => CodeShown'
    BY <2>1, <1>a DEF RefusalHeld, CodeShown, Ended
  <2> QED
    BY <2>1, <2>2, <1>a DEF RefusalHeld
<1>13. CASE UNCHANGED vars
  BY <1>13 DEF vars, RefusalHeld, Shown, Evidence, CodeShown, LastAnswer,
     Classifies, ClassifyPrivacyError, ClassifyMiss, PrivacyOperationError
<1> QED
  BY <1>1, <1>2, <1>3, <1>4, <1>5, <1>6, <1>7, <1>8, <1>9, <1>10, <1>11,
     <1>12, <1>13 DEF Next, Progress

\* Held metadata are those of one refusal throughout.
LEMMA AlwaysRefusalHeld == Spec => []RefusalHeld
BY RefusalHeldInit, RefusalHeldNext, AlwaysTyped, AlwaysCounted, PTL DEF Spec

(***************************************************************************)
(* A PrivacyOperationError is wholly the account of one answer: a retry    *)
(* never mixes one attempt's code or delay with another's status.          *)
(***************************************************************************)
THEOREM ErrorsFromOneAnswer == Spec => []ErrorFromOneAnswer
<1>1. Typed /\ RefusalHeld => ErrorFromOneAnswer
  <2> SUFFICES ASSUME Typed, RefusalHeld, outcome.kind = "privacy_operation"
               PROVE  \E i \in 1..Len(answers) :
                        /\ answers[i].reply # None
                        /\ outcome.status = answers[i].reply.status
                        /\ outcome.retry_after =
                             ParseRetryAfter(answers[i].reply.retry_after)
                        /\ outcome.code # None =>
                             /\ i = Len(answers)
                             /\ ~answers[i].cut
                             /\ outcome.code = answers[i].reply.code
    BY DEF ErrorFromOneAnswer
  <2>1. /\ Shown /\ Classifies(method)
        /\ outcome.status = terminal.status
        /\ outcome.retry_after = error.retry_after
        /\ outcome.code = error.code
    BY DEF RefusalHeld, PrivacyOperationError, Classifies
  <2>2. ASSUME NEW a, Evidence(a)
        PROVE  /\ a.reply # None
               /\ outcome.status = a.reply.status
               /\ outcome.retry_after = ParseRetryAfter(a.reply.retry_after)
    BY <2>1, <2>2, NoneIsNoReply DEF Evidence
  <2>3. CASE outcome.code = None
    BY <2>1, <2>2, <2>3 DEF Shown
  <2>4. CASE outcome.code # None
    <3>1. CodeShown
      BY <2>1, <2>4 DEF RefusalHeld
    <3>2. Len(answers) \in 1..Len(answers)
      BY <3>1 DEF CodeShown, Typed, TypeOK
    <3> QED
      BY <2>1, <2>2, <3>1, <3>2 DEF CodeShown, LastAnswer
  <2> QED
    BY <2>3, <2>4
<1> QED
  BY <1>1, AlwaysTyped, AlwaysRefusalHeld, PTL

\* A status that is neither success nor transient refuses for good.
LEMMA RefusedByStatus ==
  ASSUME NEW a, a.reply # None, a.reply.status \in 300..999,
         ~TransientStatus(a.reply.status)
  PROVE  RefusedForGood(a)
<1>1. a.reply.status \in 300..499 \ {408, 425, 429}
  BY DEF TransientStatus
<1> QED
  BY <1>1 DEF RefusedForGood

\* A code whose disposition is not a retry refuses for good.
LEMMA RefusedByCode ==
  ASSUME NEW a, a.reply # None, a.reply.status \in 300..999,
         a.reply.code \notin RetryCodes \cup {None}
  PROVE  RefusedForGood(a)
BY DEF RefusedForGood

(***************************************************************************)
(* A host is only ever told to drop an event that some answer refused for  *)
(* good, whatever the interleaving of answers, cuts and retries.           *)
(***************************************************************************)
THEOREM DropsAreRefused == Spec => []DropOnlyIfRefused
<1>1. Typed /\ RefusalHeld => DropOnlyIfRefused
  <2> SUFFICES ASSUME Typed, RefusalHeld,
                      outcome.disposition \in {"discard_event", "start_new_read"}
               PROVE  \E i \in 1..Len(answers) : RefusedForGood(answers[i])
    BY DEF DropOnlyIfRefused
  <2>1. outcome.disposition # None
    BY NoneIsNoValue DEF PrivacyErrorDisposition
  <2>2. /\ Shown
        /\ outcome.disposition = Disposition(terminal.status, error.code)
    BY <2>1 DEF RefusalHeld, PrivacyOperationError
  <2>3. ASSUME NEW a, Evidence(a)
        PROVE  /\ a.reply # None
               /\ a.reply.status = terminal.status
               /\ terminal.status \in 300..999
    <3>1. a.reply \in Reply /\ ~IsSuccess(a.reply.status)
      BY <2>3, RepliesAssumption DEF Evidence
    <3>2. a.reply.status \in 200..999
      BY <3>1 DEF Reply, FinalStatus
    <3>3. a.reply.status \in 300..999
      BY <3>1, <3>2 DEF IsSuccess
    <3> QED
      BY <2>3, <3>3, NoneIsNoReply DEF Evidence
  <2>4. CASE error.code = None
    <3>1. ~TransientStatus(terminal.status)
      BY <2>2, <2>4 DEF Disposition, DefaultDisposition
    <3>2. PICK i \in 1..Len(answers) : Evidence(answers[i])
      BY <2>2 DEF Shown
    <3>3. /\ answers[i].reply # None
          /\ answers[i].reply.status = terminal.status
          /\ terminal.status \in 300..999
      BY <3>2, <2>3
    <3>4. RefusedForGood(answers[i])
      BY <3>1, <3>3, RefusedByStatus
    <3> QED
      BY <3>4
  <2>5. CASE error.code # None
    <3>1. CodeShown /\ Len(answers) \in 1..Len(answers)
      BY <2>5 DEF RefusalHeld, CodeShown, Typed, TypeOK
    <3>2. error.code \notin RetryCodes
      BY <2>2, <2>5 DEF Disposition, CodeDisposition
    <3>3. /\ LastAnswer.reply # None
          /\ LastAnswer.reply.status = terminal.status
          /\ terminal.status \in 300..999
      <4>1. Evidence(LastAnswer)
        BY <3>1 DEF CodeShown
      <4> QED
        BY <4>1, <2>3
    <3>4. LastAnswer.reply.code \notin RetryCodes \cup {None}
      BY <3>1, <3>2, <2>5 DEF CodeShown
    <3>5. RefusedForGood(LastAnswer)
      BY <3>3, <3>4, RefusedByCode
    <3> QED
      BY <3>1, <3>5 DEF LastAnswer
  <2> QED
    BY <2>4, <2>5
<1> QED
  BY <1>1, AlwaysTyped, AlwaysRefusalHeld, PTL

-----------------------------------------------------------------------------
(***************************************************************************)
(* Refusals the call ends with.  A recorded refusal is still being read,   *)
(* was cut in an earlier attempt, or is an answer that is no success.      *)
(***************************************************************************)
CutRefusal ==
  \E i \in 1..Len(answers) :
    /\ answers[i].cut
    /\ answers[i].reply # None
    /\ answers[i].reply.status \notin 200..299

Denying == terminal.kind \in {"auth", "service"}

Denied ==
  /\ Denying =>
       \/ outcome.kind = "cancelled"
       \/ CutRefusal
       \/ pc = "read" /\ ~IsSuccess(reply.status)
       \/ pc \in Ended /\ ~Accepted(LastAnswer)
  /\ outcome.kind \in Refusals => Denying

\* The kinds of outcome are told apart, and from none at all.
LEMMA KindsApart ==
  /\ NoOutcome.kind \notin Refusals \cup {"cancelled"}
  /\ "cancelled" \notin Refusals
  /\ "protocol" \notin Refusals \cup {"cancelled"}
BY NoneIsNoKind DEF NoOutcome, OutcomeKinds, Refusals

\* Initially nothing was refused.
LEMMA DeniedInit == Init => Denied
<1> SUFFICES ASSUME Init PROVE Denied
  OBVIOUS
<1>1. terminal.kind = None /\ outcome = NoOutcome
  BY DEF Init, NoTerminal
<1>2. None \notin {"auth", "service"}
  BY NoneIsNoKind DEF OutcomeKinds
<1> QED
  BY <1>1, <1>2, KindsApart DEF Denied, Denying

\* Every step keeps a recorded refusal accounted for.
LEMMA DeniedNext ==
  Typed /\ Counted /\ RefusalHeld /\ Denied /\ [Next]_vars => Denied'
<1> SUFFICES ASSUME Typed, Counted, RefusalHeld, Denied, [Next]_vars
             PROVE  Denied'
  OBVIOUS
<1>0. /\ Len(answers) \in Nat
      /\ pc # "done" => outcome.kind \notin Refusals \cup {"cancelled"}
  BY KindsApart DEF Typed, TypeOK, RefusalHeld
(* A cut refusal stays in the history. *)
<1>c. ASSUME NEW r \in Replies \cup {None}, NEW cut \in BOOLEAN,
             answers' = Append(answers, Answer(r, cut)), CutRefusal
      PROVE  CutRefusal'
  <2>1. /\ Len(answers') = Len(answers) + 1
        /\ \A i \in 1..Len(answers) : answers'[i] = answers[i]
    BY <1>c, Recorded DEF Typed, TypeOK
  <2>2. PICK i \in 1..Len(answers) :
               /\ answers[i].cut
               /\ answers[i].reply # None
               /\ answers[i].reply.status \notin 200..299
    BY <1>c DEF CutRefusal
  <2>3. i \in 1..Len(answers') /\ answers'[i] = answers[i]
    BY <2>1, <1>0
  <2> QED
    BY <2>2, <2>3 DEF CutRefusal
(* Before the loop ends, only a cut refusal can have been recorded. *)
<1>u. pc \notin Ended /\ ~(pc = "read" /\ ~IsSuccess(reply.status)) /\ Denying
        => CutRefusal
  BY <1>0 DEF Denied, Ended
(* An answer that is a complete refusal accounts for any record. *)
<1>r. ASSUME NEW r \in Replies, ~IsSuccess(r.status),
             answers' = Append(answers, Answer(r, FALSE)),
             pc' = "close", outcome' = outcome, pc # "done"
      PROVE  Denied'
  <2>1. /\ Len(answers') = Len(answers) + 1
        /\ answers'[Len(answers) + 1] = Answer(r, FALSE)
    BY <1>r, Recorded DEF Typed, TypeOK
  <2>2. LastAnswer' = Answer(r, FALSE)
    BY <2>1 DEF LastAnswer
  <2>3. r.status \notin 200..299
    BY <1>r, SuccessStatus, RepliesAssumption
  <2>4. ~Accepted(LastAnswer)'
    BY <2>2, <2>3 DEF Accepted, Answer
  <2>5. outcome'.kind \notin Refusals
    BY <1>r, <1>0
  <2> QED
    BY <1>r, <2>4, <2>5 DEF Denied, Ended
(* A record that a cut refusal accounts for. *)
<1>k. ASSUME Denying' => CutRefusal', outcome'.kind \notin Refusals
      PROVE  Denied'
  BY <1>k DEF Denied
(* The loop goes on without a new answer. *)
<1>a. ASSUME pc \notin Ended, ~(pc = "read" /\ ~IsSuccess(reply.status)),
             UNCHANGED << terminal, answers >>, outcome'.kind \notin Refusals
      PROVE  Denied'
  <2>1. CutRefusal' = CutRefusal /\ Denying' = Denying
    BY <1>a DEF CutRefusal, Denying
  <2> QED
    BY <2>1, <1>a, <1>u, <1>k
<1>1. CASE RejectOversize
  <2>1. outcome'.kind \notin Refusals
    BY <1>1, KindsApart DEF RejectOversize, NoOutcome
  <2> QED
    BY <1>1, <1>a, <2>1 DEF RejectOversize, Ended
<1>2. CASE FailToOpen
  <2>1. ~Denying' /\ outcome'.kind \notin Refusals
    BY <1>2, <1>0 DEF FailToOpen, Denying, Typed, TypeOK, TerminalType
  <2> QED
    BY <2>1, <1>k
<1>3. CASE Open
  BY <1>3, <1>a, <1>0 DEF Open, Ended
<1>4. CASE Transmit
  BY <1>4, <1>a, <1>0 DEF Transmit, Ended
<1>5. CASE ReceiveHeaders
  <2> PICK r \in Replies : \/ HeadersRetry(r) \/ HeadersAuth(r)
                           \/ HeadersFailure(r) \/ HeadersClassify(r)
                           \/ HeadersSuccess(r)
    BY <1>5 DEF ReceiveHeaders
  <2>1. CASE HeadersRetry(r)
    <3>1. /\ pc = "headers" /\ terminal' = terminal /\ outcome' = outcome
          /\ answers' = Append(answers, Answer(r, FALSE))
      BY <2>1 DEF HeadersRetry
    <3>2. Denying' => CutRefusal
      BY <3>1, <1>u DEF Denying, Ended
    <3>3. Denying' => CutRefusal'
      BY <3>1, <3>2, <1>c
    <3> QED
      BY <3>1, <3>3, <1>k, <1>0
  <2>2. CASE HeadersAuth(r)
    <3>1. ~IsSuccess(r.status)
      BY <2>2 DEF HeadersAuth, IsSuccess
    <3>2. /\ pc = "headers" /\ pc' = "close" /\ outcome' = outcome
          /\ answers' = Append(answers, Answer(r, FALSE))
      BY <2>2 DEF HeadersAuth
    <3> QED
      BY <3>1, <3>2, <1>r
  <2>3. CASE HeadersFailure(r)
    BY <2>3, <1>r DEF HeadersFailure, ServiceFailure
  <2>4. CASE HeadersClassify(r)
    <3>1. /\ pc' = "read" /\ reply' = r /\ ~IsSuccess(r.status)
          /\ outcome'.kind \notin Refusals
      BY <2>4, <1>0 DEF HeadersClassify, ServiceFailure
    <3>2. ~IsSuccess(reply.status)'
      BY <3>1 DEF IsSuccess
    <3> QED
      BY <3>1, <3>2 DEF Denied
  <2>5. CASE HeadersSuccess(r)
    BY <2>5, <1>a, <1>0 DEF HeadersSuccess, Ended
  <2> QED
    BY <2>1, <2>2, <2>3, <2>4, <2>5
<1>6. CASE ReadError
  BY <1>6, <1>r DEF ReadError, Typed
<1>7. CASE ReadResult
  <2>1. /\ pc = "read" /\ IsSuccess(reply.status) /\ reply \in Replies
        /\ terminal' = terminal /\ outcome' = outcome
        /\ answers' = Append(answers, Answer(reply, FALSE))
    BY <1>7 DEF ReadResult, Typed
  <2>2. Denying' => CutRefusal
    BY <2>1, <1>u DEF Denying, Ended
  <2>3. Denying' => CutRefusal'
    BY <2>1, <2>2, <1>c
  <2> QED
    BY <2>1, <2>3, <1>k, <1>0
<1>8. CASE TransportError
  <2>1. /\ pc \in {"headers", "read"} /\ outcome' = outcome
        /\ reply \in Replies \cup {None}
        /\ answers' = Append(answers, Answer(reply, TRUE))
        /\ terminal' = terminal \/ terminal'.kind = "transport"
    BY <1>8 DEF TransportError, Typed, TypeOK, TerminalType
  <2>2. CASE terminal'.kind = "transport"
    BY <2>1, <2>2, <1>k, <1>0 DEF Denying
  <2>3. CASE terminal' = terminal /\ ~(pc = "read" /\ ~IsSuccess(reply.status))
    <3>1. Denying' => CutRefusal
      BY <2>1, <2>3, <1>u DEF Denying, Ended
    <3>2. Denying' => CutRefusal'
      BY <2>1, <3>1, <1>c
    <3> QED
      BY <2>1, <3>2, <1>k, <1>0
  <2>4. CASE pc = "read" /\ ~IsSuccess(reply.status)
    <3>1. /\ Len(answers') = Len(answers) + 1
          /\ answers'[Len(answers) + 1] = Answer(reply, TRUE)
      BY <2>1, Recorded DEF Typed, TypeOK
    <3>2. reply # None /\ reply.status \notin 200..299
      <4>1. reply \in Replies /\ reply # None /\ reply \in Reply
        BY <2>4, RepliesAssumption DEF Typed
      <4> QED
        BY <2>4, <4>1, SuccessStatus
    <3>3. Len(answers) + 1 \in 1..Len(answers')
      BY <3>1, <1>0
    <3>4. PICK i \in 1..Len(answers') : answers'[i] = Answer(reply, TRUE)
      BY <3>1, <3>3
    <3>5. answers'[i].cut /\ answers'[i].reply = reply
      BY <3>4 DEF Answer
    <3>6. CutRefusal'
      BY <3>2, <3>5 DEF CutRefusal
    <3> QED
      BY <2>1, <3>6, <1>k, <1>0
  <2> QED
    BY <2>1, <2>2, <2>3, <2>4
<1>9. CASE Backoff
  BY <1>9, <1>a, <1>0 DEF Backoff, Ended
<1>10. CASE Close
  <2>1. /\ pc = "close" /\ pc' = "raise" /\ outcome' = outcome
        /\ answers' = answers
        /\ terminal' = terminal \/ terminal'.kind = "transport"
    BY <1>10 DEF Close, Typed, TypeOK, TerminalType
  <2>2. CASE terminal'.kind = "transport"
    BY <2>1, <2>2, <1>k, <1>0 DEF Denying
  <2>3. CASE terminal' = terminal
    <3>1. /\ CutRefusal' = CutRefusal /\ Denying' = Denying
          /\ Accepted(LastAnswer)' = Accepted(LastAnswer)
      BY <1>10, <2>1, <2>3 DEF Close, CutRefusal, Denying, Accepted, LastAnswer
    <3> QED
      BY <2>1, <3>1, <1>0 DEF Denied, Ended
  <2> QED
    BY <2>1, <2>2, <2>3
<1>11. CASE Raise
  <2>1. /\ pc = "raise" /\ pc' = "done" /\ outcome' = RaisedOrReturned
        /\ answers' = answers /\ terminal' = terminal /\ method' = method
    BY <1>11 DEF Raise
  <2>2. /\ CutRefusal' = CutRefusal /\ Denying' = Denying
        /\ Accepted(LastAnswer)' = Accepted(LastAnswer)
    BY <2>1 DEF CutRefusal, Denying, Accepted, LastAnswer
  <2>3. RaisedOrReturned.kind \in Refusals => Denying
    BY DEF RaisedOrReturned, Denying, NoOutcome, Refusals
  <2> QED
    BY <2>1, <2>2, <2>3, <1>0 DEF Denied, Ended
<1>12. CASE Cancel
  <2>1. outcome'.kind = "cancelled"
    BY <1>12 DEF Cancel, NoOutcome
  <2> QED
    BY <2>1, KindsApart DEF Denied
<1>13. CASE UNCHANGED vars
  BY <1>13 DEF vars, Denied, Denying, CutRefusal, Accepted, LastAnswer, IsSuccess
<1> QED
  BY <1>1, <1>2, <1>3, <1>4, <1>5, <1>6, <1>7, <1>8, <1>9, <1>10, <1>11,
     <1>12, <1>13 DEF Next, Progress

\* A recorded refusal is accounted for throughout.
LEMMA AlwaysDenied == Spec => []Denied
BY DeniedInit, DeniedNext, AlwaysTyped, AlwaysCounted, AlwaysRefusalHeld, PTL
   DEF Spec

(***************************************************************************)
(* A call whose last exchange was a complete success never ends in a       *)
(* refusal, but for one that an earlier attempt's cut left on record.      *)
(***************************************************************************)
THEOREM SuccessIsNotDenied == Spec => []AcceptedIsNotRefused
<1>1. RefusalHeld /\ Denied => AcceptedIsNotRefused
  <2> SUFFICES ASSUME RefusalHeld, Denied,
                      outcome.kind \in Refusals, Accepted(LastAnswer)
               PROVE  CutRefusal
    BY DEF AcceptedIsNotRefused, CutRefusal
  <2>1. pc = "done"
    BY KindsApart DEF RefusalHeld
  <2>2. outcome.kind # "cancelled"
    BY KindsApart
  <2> QED
    BY <2>1, <2>2 DEF Denied
<1> QED
  BY <1>1, AlwaysRefusalHeld, AlwaysDenied, PTL
-----------------------------------------------------------------------------
(***************************************************************************)
(* Existing-only identification.  It has one attempt, so that what it      *)
(* recorded of a refusal is all about its only answer.                     *)
(***************************************************************************)
Explained ==
  /\ ~LastAnswer.cut
  /\ LastAnswer.reply.status = terminal.status
  /\ error.link_required <=> LinkMiss(LastAnswer)

LinkHeld ==
  /\ error.link_required => method = "recover"
  /\ method = "recover" =>
       /\ pc # "backoff"
       /\ pc \in {"begin", "send", "headers"} => terminal.kind # "service"
       /\ pc = "read" /\ terminal.kind = "service" => ~IsSuccess(reply.status)
       /\ pc \in Ended /\ terminal.kind = "service" =>
            outcome.kind = "cancelled" \/ Explained
  /\ outcome.kind \in {"link_required", "service"} =>
       terminal.kind = "service" /\ outcome.kind = RaisedOrReturned.kind

\* Initially no link is missed.
LEMMA LinkHeldInit == Init => LinkHeld
<1> SUFFICES ASSUME Init PROVE LinkHeld
  OBVIOUS
<1>1. /\ terminal.kind = None /\ outcome.kind = None
      /\ error.link_required = FALSE /\ pc = "begin"
  BY DEF Init, NoTerminal, NoOutcome, NoError
<1>2. None \notin {"service", "link_required"}
  BY NoneIsNoKind DEF OutcomeKinds
<1> QED
  BY <1>1, <1>2 DEF LinkHeld, Ended

\* Every step keeps what is recorded of a miss that of the only answer.
LEMMA LinkHeldNext ==
  Typed /\ Counted /\ RefusalHeld /\ LinkHeld /\ [Next]_vars => LinkHeld'
<1> SUFFICES ASSUME Typed, Counted, RefusalHeld, LinkHeld, [Next]_vars
             PROVE  LinkHeld'
  OBVIOUS
<1>0. /\ Len(answers) \in Nat /\ attempt \in Nat
      /\ pc # "done" => outcome.kind \notin Refusals \cup {"cancelled"}
      /\ terminal \in TerminalType
  BY KindsApart DEF Typed, TypeOK, RefusalHeld
<1>m. method' = method
  BY DEF Next, Progress, RejectOversize, FailToOpen, Open, Transmit,
     ReceiveHeaders, HeadersRetry, HeadersAuth, HeadersFailure, HeadersClassify,
     HeadersSuccess, ReadError, ReadResult, TransportError, Backoff, Close,
     Raise, Cancel, vars
<1>1r. method = "recover" => ~MayRetry
  BY <1>0 DEF MayRetry, MaxAttempts
(* A step that leaves no service refusal on record. *)
<1>n. ASSUME terminal'.kind # "service", pc' # "backoff" \/ method # "recover",
             error'.link_required => method = "recover",
             outcome'.kind \notin {"link_required", "service"}
      PROVE  LinkHeld'
  BY <1>n, <1>m DEF LinkHeld
(* A step of another method that raises nothing. *)
<1>o. ASSUME method # "recover", error'.link_required => error.link_required,
             outcome'.kind \notin {"link_required", "service"}
      PROVE  LinkHeld'
  BY <1>o, <1>m DEF LinkHeld
(* Nothing is recorded before the headers of the only answer. *)
<1>a. ASSUME pc \in {"begin", "send", "headers", "backoff"},
             UNCHANGED << terminal, error >>, pc' # "backoff" \/ method # "recover",
             outcome'.kind \notin {"link_required", "service"}
      PROVE  LinkHeld'
  <2>1. CASE method = "recover"
    BY <2>1, <1>a, <1>n DEF LinkHeld
  <2>2. CASE method # "recover"
    BY <2>2, <1>a, <1>o
  <2> QED
    BY <2>1, <2>2
<1>q. pc # "done" => outcome.kind \notin {"link_required", "service"}
  BY <1>0 DEF Refusals
<1>1. CASE RejectOversize
  BY <1>1, <1>a DEF RejectOversize, NoOutcome
<1>2. CASE FailToOpen
  <2>1. terminal'.kind = "transport"
    BY <1>2, <1>0 DEF FailToOpen, TerminalType
  <2> QED
    BY <1>2, <2>1, <1>n, <1>q DEF FailToOpen, LinkHeld
<1>3. CASE Open
  BY <1>3, <1>a, <1>q DEF Open
<1>4. CASE Transmit
  BY <1>4, <1>a, <1>q DEF Transmit
<1>5. CASE ReceiveHeaders
  <2> PICK r \in Replies : \/ HeadersRetry(r) \/ HeadersAuth(r)
                           \/ HeadersFailure(r) \/ HeadersClassify(r)
                           \/ HeadersSuccess(r)
    BY <1>5 DEF ReceiveHeaders
  <2>1. CASE HeadersRetry(r)
    <3>1. method # "recover"
      BY <2>1 DEF HeadersRetry, RetryStatus, RetryableStatuses
    <3> QED
      BY <2>1, <3>1, <1>a, <1>q DEF HeadersRetry
  <2>2. CASE HeadersAuth(r)
    <3>1. terminal'.kind = "auth" /\ error' = error /\ pc' = "close"
          /\ outcome' = outcome /\ pc = "headers"
      BY <2>2 DEF HeadersAuth
    <3> QED
      BY <3>1, <1>n, <1>q DEF LinkHeld
  <2>3. CASE HeadersFailure(r)
    <3>1. method # "recover"
      BY <2>3 DEF HeadersFailure, Classifies, ClassifyMiss
    <3>2. error' = error /\ outcome' = outcome /\ pc = "headers"
      BY <2>3 DEF HeadersFailure
    <3> QED
      BY <3>1, <3>2, <1>o, <1>q
  <2>4. CASE HeadersClassify(r)
    <3>1. /\ pc = "headers" /\ pc' = "read" /\ reply' = r /\ ~IsSuccess(r.status)
          /\ outcome' = outcome
          /\ error' = [error EXCEPT !.retry_after = ParseRetryAfter(r.retry_after)]
      BY <2>4 DEF HeadersClassify, ServiceFailure, ErrorAtHeaders
    <3>2. error'.link_required = error.link_required
      BY <3>1 DEF Typed, TypeOK, ErrorType
    <3>3. ~IsSuccess(reply.status)'
      BY <3>1 DEF IsSuccess
    <3>4. outcome'.kind \notin {"link_required", "service"}
      BY <3>1, <1>q
    <3> QED
      BY <3>1, <3>2, <3>3, <3>4, <1>m DEF LinkHeld, Ended
  <2>5. CASE HeadersSuccess(r)
    <3>1. /\ pc = "headers" /\ pc' = "read" /\ terminal' = terminal
          /\ error' = error /\ outcome' = outcome
      BY <2>5 DEF HeadersSuccess
    <3> QED
      BY <3>1, <1>a, <1>q
  <2> QED
    BY <2>1, <2>2, <2>3, <2>4, <2>5
<1>6. CASE ReadError
  <2>1. /\ pc = "read" /\ ~IsSuccess(reply.status) /\ reply \in Replies
        /\ error' = Classified(reply) /\ pc' = "close"
        /\ answers' = Append(answers, Answer(reply, FALSE))
        /\ terminal' = terminal /\ outcome' = outcome
    BY <1>6 DEF ReadError, Typed
  <2>2. /\ Len(answers') = Len(answers) + 1
        /\ answers'[Len(answers) + 1] = Answer(reply, FALSE)
    BY <2>1, Recorded DEF Typed, TypeOK
  <2>3. LastAnswer' = Answer(reply, FALSE)
    BY <2>2 DEF LastAnswer
  <2>4. LastAnswer'.cut = FALSE /\ LastAnswer'.reply = reply
    BY <2>3 DEF Answer
  <2>5. reply.status = terminal.status
    <3>1. Evidence(Answer(reply, FALSE))
      BY <2>1 DEF RefusalHeld
    <3> QED
      BY <3>1 DEF Evidence, Answer
  <2>6. error'.link_required <=>
          /\ method = "recover" /\ reply.status = 404
          /\ reply.form = "object" /\ reply.code = LinkRequiredCode
    BY <2>1 DEF Classified, ClassifyMiss
  <2>7. CASE method = "recover"
    <3>1. error'.link_required <=> LinkMiss(LastAnswer)'
      BY <2>4, <2>6, <2>7 DEF LinkMiss
    <3>2. Explained'
      BY <2>1, <2>4, <2>5, <3>1 DEF Explained
    <3>3. outcome'.kind \notin {"link_required", "service"}
      BY <2>1, <1>q
    <3> QED
      BY <2>1, <2>7, <3>2, <3>3, <1>m DEF LinkHeld, Ended
  <2>8. CASE method # "recover"
    BY <2>1, <2>6, <2>8, <1>o, <1>q
  <2> QED
    BY <2>7, <2>8
<1>7. CASE ReadResult
  <2>1. /\ pc = "read" /\ IsSuccess(reply.status) /\ pc' = "close"
        /\ error' = error /\ terminal' = terminal /\ outcome' = outcome
    BY <1>7 DEF ReadResult
  <2>2. CASE method = "recover"
    BY <2>1, <2>2, <1>n, <1>q DEF LinkHeld
  <2>3. CASE method # "recover"
    BY <2>1, <2>3, <1>o, <1>q
  <2> QED
    BY <2>2, <2>3
<1>8. CASE TransportError
  <2>1. pc # "done" /\ error' = error /\ outcome' = outcome
    BY <1>8 DEF TransportError
  <2>2. CASE method = "recover"
    <3>1. pc' = "close" /\ terminal' = [terminal EXCEPT !.kind = "transport"]
      BY <1>8, <2>2, <1>1r DEF TransportError
    <3>2. terminal'.kind = "transport"
      BY <3>1, <1>0 DEF TerminalType
    <3> QED
      BY <2>1, <2>2, <3>1, <3>2, <1>n, <1>q
  <2>3. CASE method # "recover"
    BY <2>1, <2>3, <1>o, <1>q
  <2> QED
    BY <2>2, <2>3
<1>9. CASE Backoff
  BY <1>9, <1>a, <1>q DEF Backoff
<1>10. CASE Close
  <2>1. /\ pc = "close" /\ pc' = "raise" /\ outcome' = outcome /\ error' = error
        /\ answers' = answers /\ (terminal' = terminal \/ terminal'.kind = "transport")
    BY <1>10, <1>0 DEF Close, TerminalType
  <2>2. CASE terminal'.kind = "transport"
    BY <2>1, <2>2, <1>n, <1>q DEF LinkHeld
  <2>3. CASE terminal' = terminal
    <3>1. Explained' = Explained
      BY <2>1, <2>3 DEF Explained, LinkMiss, LastAnswer
    <3> QED
      BY <2>1, <2>3, <3>1, <1>m, <1>q DEF LinkHeld, Ended
  <2> QED
    BY <2>1, <2>2, <2>3
<1>11. CASE Raise
  <2>1. /\ pc = "raise" /\ pc' = "done" /\ outcome' = RaisedOrReturned
        /\ UNCHANGED << terminal, error, answers, response_body, protocol_message >>
    BY <1>11 DEF Raise
  <2>2. Explained' = Explained
    BY <2>1 DEF Explained, LinkMiss, LastAnswer
  <2>3. RaisedOrReturned' = RaisedOrReturned
    BY <2>1, <1>m DEF RaisedOrReturned, ServiceError, PrivacyOperationError,
       ClassifyPrivacyError, HasResult, Acceptable
  <2>4. RaisedOrReturned.kind \in {"link_required", "service"} =>
          terminal.kind = "service"
    BY DEF RaisedOrReturned, NoOutcome
  <2>5. outcome.kind # "cancelled"
    BY <2>1, <1>0
  <2> QED
    BY <2>1, <2>2, <2>3, <2>4, <2>5, <1>m DEF LinkHeld, Ended
<1>12. CASE Cancel
  <2>1. outcome'.kind = "cancelled" /\ pc' = "done" /\ error' = error
    BY <1>12 DEF Cancel, NoOutcome
  <2> QED
    BY <2>1, <1>m DEF LinkHeld
<1>13. CASE UNCHANGED vars
  <2>1. Explained' = Explained
    BY <1>13 DEF vars, Explained, LinkMiss, LastAnswer
  <2>2. RaisedOrReturned' = RaisedOrReturned
    BY <1>13 DEF vars, RaisedOrReturned, ServiceError, PrivacyOperationError,
       ClassifyPrivacyError, HasResult, Acceptable
  <2> QED
    BY <1>13, <2>1, <2>2 DEF vars, LinkHeld, IsSuccess
<1> QED
  BY <1>1, <1>2, <1>3, <1>4, <1>5, <1>6, <1>7, <1>8, <1>9, <1>10, <1>11,
     <1>12, <1>13 DEF Next, Progress

\* What is recorded of a miss is that of the only answer throughout.
LEMMA AlwaysLinkHeld == Spec => []LinkHeld
BY LinkHeldInit, LinkHeldNext, AlwaysTyped, AlwaysCounted, AlwaysRefusalHeld,
   PTL DEF Spec

(***************************************************************************)
(* An existing-only identify reports a missing link exactly when its only  *)
(* answer was a complete 404 that says so, whatever else may fail.         *)
(***************************************************************************)
THEOREM MissesAreExact == Spec => []LinkRequiredExact
<1>1. RefusalHeld /\ LinkHeld => LinkRequiredExact
  <2> SUFFICES ASSUME RefusalHeld, LinkHeld,
                      outcome.kind \in {"link_required", "service"}
               PROVE  LinkRequiredExact
    BY DEF LinkRequiredExact
  <2>1. terminal.kind = "service" /\ outcome.kind = ServiceError.kind
    BY DEF LinkHeld, RaisedOrReturned
  <2>2. pc = "done" /\ outcome.kind # "cancelled"
    BY KindsApart DEF RefusalHeld, Refusals
  <2>3. outcome.kind = "link_required" <=>
          error.link_required /\ terminal.status = 404
    BY <2>1 DEF ServiceError, PrivacyOperationError, NoOutcome
  <2>4. method = "recover" => Explained
    BY <2>1, <2>2 DEF LinkHeld, Ended
  <2>5. error.link_required => method = "recover"
    BY DEF LinkHeld
  <2> QED
    BY <2>3, <2>4, <2>5 DEF LinkRequiredExact, Explained, LinkMiss
<1> QED
  BY <1>1, AlwaysRefusalHeld, AlwaysLinkHeld, PTL

-----------------------------------------------------------------------------
(***************************************************************************)
(* Codes.  When the loop has ended with a service refusal that was read to *)
(* its end, the code on record is the one the refusal carried.             *)
(***************************************************************************)
Readable(a) ==
  /\ ~a.cut
  /\ a.reply.status \notin 200..299
  /\ a.reply.form = "object"
  /\ a.reply.code \in PrivacyOperationErrorCode

CodeHeld ==
  /\ pc = "begin" => terminal.kind # "service"
  /\ /\ pc \in Ended /\ terminal.kind = "service" /\ outcome.kind # "cancelled"
     /\ ClassifyPrivacyError(method)
     /\ Readable(LastAnswer)
     => error.code = LastAnswer.reply.code
  /\ outcome.kind = "privacy_operation" => terminal.kind = "service"

\* Initially no code is held.
LEMMA CodeHeldInit == Init => CodeHeld
<1> SUFFICES ASSUME Init PROVE CodeHeld
  OBVIOUS
<1>1. terminal.kind = None /\ outcome.kind = None /\ pc = "begin"
  BY DEF Init, NoTerminal, NoOutcome
<1>2. None \notin {"service", "privacy_operation"}
  BY NoneIsNoKind DEF OutcomeKinds
<1> QED
  BY <1>1, <1>2 DEF CodeHeld, Ended

\* Every step keeps the code that of the refusal the loop ended with.
LEMMA CodeHeldNext ==
  Typed /\ RefusalHeld /\ CodeHeld /\ [Next]_vars => CodeHeld'
<1> SUFFICES ASSUME Typed, RefusalHeld, CodeHeld, [Next]_vars PROVE CodeHeld'
  OBVIOUS
<1>0. /\ Len(answers) \in Nat /\ terminal \in TerminalType
      /\ pc # "done" => outcome.kind \notin Refusals \cup {"cancelled"}
  BY KindsApart DEF Typed, TypeOK, RefusalHeld
<1>q. pc # "done" => outcome.kind # "privacy_operation" /\ outcome.kind # "cancelled"
  BY <1>0 DEF Refusals
(* The loop goes on, or ends without a service refusal. *)
<1>a. ASSUME pc' # "begin", outcome'.kind # "privacy_operation",
             pc' \notin Ended \/ terminal'.kind # "service"
      PROVE  CodeHeld'
  BY <1>a DEF CodeHeld
(* After the loop nothing is read any more. *)
<1>b. ASSUME pc \in Ended, pc' \in Ended, outcome.kind # "cancelled",
             UNCHANGED << method, terminal, error, answers >>,
             outcome'.kind = "privacy_operation" => terminal.kind = "service"
      PROVE  CodeHeld'
  <2>1. /\ Readable(LastAnswer)' = Readable(LastAnswer)
        /\ LastAnswer' = LastAnswer
        /\ ClassifyPrivacyError(method)' = ClassifyPrivacyError(method)
    BY <1>b DEF Readable, LastAnswer, ClassifyPrivacyError
  <2> QED
    BY <1>b, <2>1 DEF CodeHeld, Ended
<1>1. CASE RejectOversize
  <2>1. /\ pc = "begin" /\ pc' = "done" /\ terminal' = terminal
        /\ outcome'.kind = "protocol"
    BY <1>1 DEF RejectOversize, NoOutcome
  <2> QED
    BY <2>1, <1>a DEF CodeHeld
<1>2. CASE FailToOpen
  <2>1. terminal'.kind = "transport" /\ pc' = "raise" /\ outcome' = outcome /\ pc = "begin"
    BY <1>2, <1>0 DEF FailToOpen, TerminalType
  <2> QED
    BY <2>1, <1>a, <1>q
<1>3. CASE Open
  BY <1>3, <1>a, <1>q DEF Open, Ended
<1>4. CASE Transmit
  BY <1>4, <1>a, <1>q DEF Transmit, Ended
<1>5. CASE ReceiveHeaders
  <2> PICK r \in Replies : \/ HeadersRetry(r) \/ HeadersAuth(r)
                           \/ HeadersFailure(r) \/ HeadersClassify(r)
                           \/ HeadersSuccess(r)
    BY <1>5 DEF ReceiveHeaders
  <2>1. CASE HeadersRetry(r)
    BY <2>1, <1>a, <1>q DEF HeadersRetry, Ended
  <2>2. CASE HeadersAuth(r)
    <3>1. terminal'.kind = "auth" /\ pc = "headers" /\ pc' = "close" /\ outcome' = outcome
      BY <2>2 DEF HeadersAuth
    <3> QED
      BY <3>1, <1>a, <1>q
  <2>3. CASE HeadersFailure(r)
    <3>1. /\ ~ClassifyPrivacyError(method) /\ method' = method
          /\ pc = "headers" /\ pc' = "close" /\ outcome' = outcome
      BY <2>3 DEF HeadersFailure, Classifies
    <3>2. ~ClassifyPrivacyError(method)'
      BY <3>1 DEF ClassifyPrivacyError
    <3> QED
      BY <3>1, <3>2, <1>q DEF CodeHeld
  <2>4. CASE HeadersClassify(r)
    BY <2>4, <1>a, <1>q DEF HeadersClassify, Ended
  <2>5. CASE HeadersSuccess(r)
    BY <2>5, <1>a, <1>q DEF HeadersSuccess, Ended
  <2> QED
    BY <2>1, <2>2, <2>3, <2>4, <2>5
<1>6. CASE ReadError
  <2>1. /\ pc = "read" /\ pc' = "close" /\ reply \in Replies
        /\ error' = Classified(reply) /\ outcome' = outcome /\ method' = method
        /\ answers' = Append(answers, Answer(reply, FALSE))
    BY <1>6 DEF ReadError, Typed
  <2>2. /\ Len(answers') = Len(answers) + 1
        /\ answers'[Len(answers) + 1] = Answer(reply, FALSE)
    BY <2>1, Recorded DEF Typed, TypeOK
  <2>3. LastAnswer' = Answer(reply, FALSE)
    BY <2>2 DEF LastAnswer
  <2>4. LastAnswer'.reply = reply
    BY <2>3 DEF Answer
  <2>5. ASSUME ClassifyPrivacyError(method)', Readable(LastAnswer)'
        PROVE  error'.code = LastAnswer'.reply.code
    <3>1. reply.form = "object" /\ reply.code \in PrivacyOperationErrorCode
      BY <2>4, <2>5 DEF Readable
    <3>2. ClassifyPrivacyError(method)
      BY <2>1, <2>5 DEF ClassifyPrivacyError
    <3> QED
      BY <2>1, <2>4, <3>1, <3>2 DEF Classified, ClassifiedCode
  <2>6. pc' # "begin" /\ outcome'.kind # "privacy_operation"
    BY <2>1, <1>q
  <2> QED
    BY <2>5, <2>6 DEF CodeHeld
<1>7. CASE ReadResult
  <2>1. /\ pc = "read" /\ pc' = "close" /\ outcome' = outcome
        /\ IsSuccess(reply.status)
        /\ answers' = Append(answers, Answer(reply, FALSE)) /\ reply \in Replies
    BY <1>7 DEF ReadResult, Typed
  <2>2. /\ Len(answers') = Len(answers) + 1
        /\ answers'[Len(answers) + 1] = Answer(reply, FALSE)
    BY <2>1, Recorded DEF Typed, TypeOK
  <2>3. LastAnswer' = Answer(reply, FALSE)
    BY <2>2 DEF LastAnswer
  <2>4. LastAnswer'.reply = reply
    BY <2>3 DEF Answer
  <2>5. ~Readable(LastAnswer)'
    BY <2>1, <2>4, SuccessStatus, RepliesAssumption DEF Readable
  <2>6. pc' # "begin" /\ outcome'.kind # "privacy_operation"
    BY <2>1, <1>q
  <2> QED
    BY <2>5, <2>6 DEF CodeHeld
<1>8. CASE TransportError
  <2>1. /\ pc # "done" /\ outcome' = outcome /\ pc' \in {"backoff", "close"}
        /\ pc' = "close" => terminal' = [terminal EXCEPT !.kind = "transport"]
    BY <1>8 DEF TransportError
  <2>2. pc' = "close" => terminal'.kind = "transport"
    BY <2>1, <1>0 DEF TerminalType
  <2> QED
    BY <2>1, <2>2, <1>a, <1>q DEF Ended
<1>9. CASE Backoff
  BY <1>9, <1>a, <1>q DEF Backoff, Ended
<1>10. CASE Close
  <2>1. /\ pc = "close" /\ pc' = "raise" /\ outcome' = outcome
        /\ UNCHANGED << method, error, answers >>
        /\ terminal' = terminal \/ terminal'.kind = "transport"
    BY <1>10, <1>0 DEF Close, TerminalType
  <2>2. CASE terminal'.kind = "transport"
    BY <2>1, <2>2, <1>a, <1>q
  <2>3. CASE terminal' = terminal
    BY <2>1, <2>3, <1>b, <1>q DEF Ended
  <2> QED
    BY <2>1, <2>2, <2>3
<1>11. CASE Raise
  <2>1. /\ pc = "raise" /\ pc' = "done" /\ outcome' = RaisedOrReturned
        /\ UNCHANGED << method, terminal, error, answers >>
    BY <1>11 DEF Raise
  <2>2. RaisedOrReturned.kind = "privacy_operation" => terminal.kind = "service"
    BY DEF RaisedOrReturned, NoOutcome
  <2> QED
    BY <2>1, <2>2, <1>b, <1>q DEF Ended
<1>12. CASE Cancel
  <2>1. outcome'.kind = "cancelled" /\ pc' = "done"
    BY <1>12 DEF Cancel, NoOutcome
  <2> QED
    BY <2>1 DEF CodeHeld
<1>13. CASE UNCHANGED vars
  BY <1>13 DEF vars, CodeHeld, Readable, LastAnswer, ClassifyPrivacyError
<1> QED
  BY <1>1, <1>2, <1>3, <1>4, <1>5, <1>6, <1>7, <1>8, <1>9, <1>10, <1>11,
     <1>12, <1>13 DEF Next, Progress

\* The code on record is that of the refusal throughout.
LEMMA AlwaysCodeHeld == Spec => []CodeHeld
BY CodeHeldInit, CodeHeldNext, AlwaysTyped, AlwaysRefusalHeld, PTL DEF Spec

(***************************************************************************)
(* Pack's readable wish for a retry always reaches the host as one, for    *)
(* every status it may come with and after any earlier attempts.           *)
(***************************************************************************)
THEOREM RetriesAreKept == Spec => []KeptIfAsked
<1>1. Typed /\ RefusalHeld /\ CodeHeld => KeptIfAsked
  <2> SUFFICES ASSUME Typed, RefusalHeld, CodeHeld, AsksForRetry(LastAnswer),
                      outcome.disposition \in {"discard_event", "start_new_read"}
               PROVE  FALSE
    BY DEF KeptIfAsked
  <2>1. outcome.disposition # None
    BY NoneIsNoValue DEF PrivacyErrorDisposition
  <2>2. /\ outcome.kind = "privacy_operation"
        /\ ClassifyPrivacyError(method)
        /\ Len(answers) > 0
        /\ outcome.disposition = Disposition(terminal.status, error.code)
    BY <2>1 DEF RefusalHeld, PrivacyOperationError, Shown, Typed, TypeOK
  <2>3. pc = "done" /\ outcome.kind # "cancelled" /\ terminal.kind = "service"
    BY <2>2, KindsApart DEF RefusalHeld, CodeHeld, Refusals
  <2>4. LastAnswer.reply.code \in RetryCodes
    BY DEF AsksForRetry
  <2>5. Readable(LastAnswer)
    BY DEF AsksForRetry, Readable, PrivacyOperationErrorCode
  <2>6. error.code = LastAnswer.reply.code
    BY <2>2, <2>3, <2>5 DEF CodeHeld, Ended
  <2>7. outcome.disposition = "retry_same_event"
    BY <2>2, <2>4, <2>6, NoneIsNoValue
       DEF Disposition, CodeDisposition, PrivacyOperationErrorCode
  <2> QED
    BY <2>7
<1> QED
  BY <1>1, AlwaysTyped, AlwaysRefusalHeld, AlwaysCodeHeld, PTL

-----------------------------------------------------------------------------
(***************************************************************************)
(* The call implements the safety part of CallContract, step by step.      *)
(***************************************************************************)
Awaiting == {"headers", "read"}

\* An accepted answer leaves no question open.
LEMMA AcceptedIsSettled ==
  ASSUME NEW a, Accepted(a)
  PROVE  ~Ambiguous(a)
BY DEF Accepted, Ambiguous

\* The answer whose status the call recorded is a refusal.
LEMMA EvidenceIsRefusal ==
  ASSUME NEW a, Evidence(a)
  PROVE  Refused(a)
<1>1. a.reply \in Reply /\ a.reply # None /\ ~IsSuccess(a.reply.status)
  BY RepliesAssumption DEF Evidence
<1> QED
  BY <1>1, SuccessStatus DEF Refused

\* A call without an outcome has no verdict.
LEMMA NoVerdictYet == outcome = NoOutcome => Verdict = "open"
<1>1. None \notin {"result", "discard_event", "start_new_read"}
  BY NoneIsNoKind, NoneIsNoValue DEF OutcomeKinds, PrivacyErrorDisposition
<1> QED
  BY <1>1 DEF NoOutcome, Verdict

\* Initial states of the call are initial states of the contract.
LEMMA ContractInit == Typed /\ Init => Promise!Init
<1> SUFFICES ASSUME Typed, Init PROVE Promise!Init
  OBVIOUS
<1>1. MaxAttempts(method) \in 1..3
  BY MaxAttemptsType DEF Init
<1>2. (pc \in Awaiting) = FALSE
  BY DEF Init, Awaiting
<1>3. answers = << >> /\ Len(answers) = 0
  BY DEF Init
<1>4. (\E i \in 1..Len(answers) : Refused(answers[i])) = FALSE
  BY <1>3
<1>5. Verdict = "open"
  BY NoVerdictYet DEF Init
<1> QED
  BY <1>1, <1>2, <1>3, <1>4, <1>5 DEF Promise!Init, Init, Awaiting

(* A step the contract does not see. *)
LEMMA ContractStutter ==
  ASSUME UNCHANGED << method, sent, answers, outcome >>,
         pc' \in Awaiting <=> pc \in Awaiting
  PROVE  UNCHANGED Promise!contract
<1>1. MaxAttempts(method)' = MaxAttempts(method)
  BY DEF MaxAttempts
<1>2. (pc \in Awaiting)' = (pc \in Awaiting)
  OBVIOUS
<1>3. (answers = << >> \/ Ambiguous(LastAnswer))' = (answers = << >> \/ Ambiguous(LastAnswer))
  BY DEF Ambiguous, LastAnswer
<1>4. (\E i \in 1..Len(answers) : Refused(answers[i]))'
        = (\E i \in 1..Len(answers) : Refused(answers[i]))
  BY DEF Refused
<1>5. (answers # << >> /\ Accepted(LastAnswer))' = (answers # << >> /\ Accepted(LastAnswer))
  BY DEF Accepted, LastAnswer
<1>6. Verdict' = Verdict
  BY DEF Verdict
<1> QED
  BY <1>1, <1>2, <1>3, <1>4, <1>5, <1>6 DEF Promise!contract, Awaiting

(* A step that ends an exchange. *)
LEMMA ContractReceive ==
  ASSUME Typed, NEW r \in Replies \cup {None}, NEW cut \in BOOLEAN,
         answers' = Append(answers, Answer(r, cut)),
         UNCHANGED << method, sent, outcome >>,
         pc \in Awaiting, pc' \notin Awaiting
  PROVE  Promise!Receive
<1>0. Len(answers) \in Nat
  BY DEF Typed, TypeOK
<1>1. MaxAttempts(method)' = MaxAttempts(method)
  BY DEF MaxAttempts
<1>2. (pc \in Awaiting) /\ (pc \in Awaiting)' = FALSE
  OBVIOUS
<1>3. (answers # << >> /\ Accepted(LastAnswer))'
        => ~(answers = << >> \/ Ambiguous(LastAnswer))'
  BY AcceptedIsSettled DEF Accepted, Ambiguous, LastAnswer
<1>4. (\E i \in 1..Len(answers) : Refused(answers[i]))'
        \in {(\E i \in 1..Len(answers) : Refused(answers[i])), TRUE}
  <2>1. ASSUME NEW i \in 1..Len(answers), Refused(answers[i])
        PROVE  (\E j \in 1..Len(answers) : Refused(answers[j]))'
    <3>1. Len(answers') = Len(answers) + 1 /\ answers'[i] = answers[i]
      BY <2>1, Recorded DEF Typed, TypeOK
    <3>2. i \in 1..Len(answers')
      BY <3>1, <1>0
    <3> QED
      BY <2>1, <3>1, <3>2 DEF Refused
  <2> QED
    BY <2>1
<1>5. Verdict' = Verdict
  BY DEF Verdict
<1>6. (answers = << >> \/ Ambiguous(LastAnswer))' \in BOOLEAN
      /\ (answers # << >> /\ Accepted(LastAnswer))' \in BOOLEAN
  OBVIOUS
<1> QED
  BY <1>1, <1>2, <1>3, <1>4, <1>5, <1>6 DEF Promise!Receive, Awaiting

(* A step that ends the call. *)
LEMMA ContractConclude ==
  ASSUME UNCHANGED << method, sent, answers >>, pc' = "done",
         Verdict = "open", Verdict' \in {"done", "drop", "keep"},
         Verdict' = "done" =>
           pc \notin Awaiting /\ answers # << >> /\ Accepted(LastAnswer),
         Verdict' = "drop" =>
           pc \notin Awaiting /\ \E i \in 1..Len(answers) : Refused(answers[i])
  PROVE  Promise!Next
<1>1. MaxAttempts(method)' = MaxAttempts(method)
  BY DEF MaxAttempts
<1>2. (pc \in Awaiting)' = FALSE
  BY DEF Awaiting
<1>3. (answers = << >> \/ Ambiguous(LastAnswer))' = (answers = << >> \/ Ambiguous(LastAnswer))
  BY DEF Ambiguous, LastAnswer
<1>4. (\E i \in 1..Len(answers) : Refused(answers[i]))'
        = (\E i \in 1..Len(answers) : Refused(answers[i]))
  BY DEF Refused
<1>5. (answers # << >> /\ Accepted(LastAnswer))' = (answers # << >> /\ Accepted(LastAnswer))
  BY DEF Accepted, LastAnswer
<1>6. Promise!Conclude(Verdict')
  BY <1>1, <1>2, <1>3, <1>4, <1>5 DEF Promise!Conclude, Awaiting
<1> QED
  BY <1>6 DEF Promise!Next

\* Every step of the call is a step of the contract or a stutter.
LEMMA ContractNext ==
  /\ Typed /\ Counted /\ Asked /\ ResultHeld /\ RefusalHeld
  /\ ResultHeld' /\ RefusalHeld' /\ Typed'
  /\ [Next]_vars
  => [Promise!Next]_(Promise!contract)
<1> SUFFICES ASSUME Typed, Counted, Asked, ResultHeld, RefusalHeld,
                    ResultHeld', RefusalHeld', Typed', [Next]_vars
             PROVE  Promise!Next \/ UNCHANGED Promise!contract
  OBVIOUS
<1>0. pc # "done" => Verdict = "open"
  BY NoVerdictYet DEF RefusalHeld
<1>1. CASE RejectOversize
  <2>1. outcome'.kind = "protocol" /\ outcome'.disposition = None
    BY <1>1 DEF RejectOversize, NoOutcome
  <2>2. Verdict' = "keep"
    BY <2>1, NoneIsNoKind, NoneIsNoValue
       DEF Verdict, OutcomeKinds, PrivacyErrorDisposition
  <2> QED
    BY <1>0, <1>1, <2>2, ContractConclude DEF RejectOversize
<1>2. CASE FailToOpen
  BY <1>2, ContractStutter DEF FailToOpen, Awaiting
<1>3. CASE Open
  BY <1>3, ContractStutter DEF Open, Awaiting
<1>4. CASE Transmit
  <2>1. MaxAttempts(method)' = MaxAttempts(method)
    BY <1>4 DEF Transmit, MaxAttempts
  <2>2. sent < MaxAttempts(method)
    BY <1>4 DEF Transmit, Counted
  <2>3. (answers = << >> \/ Ambiguous(LastAnswer)) = TRUE
    <3>1. Len(answers) \in Nat /\ (Len(answers) = 0 => answers = << >>)
      BY EmptySeq DEF Typed, TypeOK
    <3>2. Len(answers) # 0 => Ambiguous(LastAnswer)
      BY <1>4, <3>1 DEF Transmit, Asked, Looping, LastAnswer
    <3> QED
      BY <3>1, <3>2
  <2>4. (pc \in Awaiting) = FALSE /\ (pc \in Awaiting)' = TRUE
    BY <1>4 DEF Transmit, Awaiting
  <2>5. (answers = << >> \/ Ambiguous(LastAnswer))' = (answers = << >> \/ Ambiguous(LastAnswer))
    BY <1>4 DEF Transmit, Ambiguous, LastAnswer
  <2>6. (\E i \in 1..Len(answers) : Refused(answers[i]))'
          = (\E i \in 1..Len(answers) : Refused(answers[i]))
    BY <1>4 DEF Transmit, Refused
  <2>7. (answers # << >> /\ Accepted(LastAnswer))' = (answers # << >> /\ Accepted(LastAnswer))
    BY <1>4 DEF Transmit, Accepted, LastAnswer
  <2>8. Verdict = "open" /\ Verdict' = Verdict
    BY <1>0, <1>4 DEF Transmit, Verdict
  <2>9. Promise!Transmit
    BY <1>4, <2>1, <2>2, <2>3, <2>4, <2>5, <2>6, <2>7, <2>8
       DEF Promise!Transmit, Transmit, Awaiting
  <2> QED
    BY <2>9 DEF Promise!Next
<1>5. CASE ReceiveHeaders
  <2> PICK r \in Replies : \/ HeadersRetry(r) \/ HeadersAuth(r)
                           \/ HeadersFailure(r) \/ HeadersClassify(r)
                           \/ HeadersSuccess(r)
    BY <1>5 DEF ReceiveHeaders
  <2>1. CASE HeadersRetry(r)
    BY <2>1, ContractReceive DEF HeadersRetry, Awaiting, Promise!Next
  <2>2. CASE HeadersAuth(r)
    BY <2>2, ContractReceive DEF HeadersAuth, Awaiting, Promise!Next
  <2>3. CASE HeadersFailure(r)
    BY <2>3, ContractReceive DEF HeadersFailure, Awaiting, Promise!Next
  <2>4. CASE HeadersClassify(r)
    BY <2>4, ContractStutter DEF HeadersClassify, Awaiting
  <2>5. CASE HeadersSuccess(r)
    BY <2>5, ContractStutter DEF HeadersSuccess, Awaiting
  <2> QED
    BY <2>1, <2>2, <2>3, <2>4, <2>5
<1>6. CASE ReadError
  BY <1>6, ContractReceive DEF ReadError, Awaiting, Promise!Next, Typed
<1>7. CASE ReadResult
  BY <1>7, ContractReceive DEF ReadResult, Awaiting, Promise!Next, Typed
<1>8. CASE TransportError
  <2>1. /\ answers' = Append(answers, Answer(reply, TRUE))
        /\ reply \in Replies \cup {None}
        /\ UNCHANGED << method, sent, outcome >>
        /\ pc \in Awaiting /\ pc' \notin Awaiting
    BY <1>8 DEF TransportError, Awaiting, Typed, TypeOK
  <2> QED
    BY <2>1, ContractReceive DEF Promise!Next
<1>9. CASE Backoff
  BY <1>9, ContractStutter DEF Backoff, Awaiting
<1>10. CASE Close
  BY <1>10, ContractStutter DEF Close, Awaiting
<1>11. CASE Raise
  <2>1. /\ UNCHANGED << method, sent, answers >> /\ pc' = "done"
        /\ pc = "raise" /\ pc \notin Awaiting
        /\ outcome' = RaisedOrReturned
    BY <1>11 DEF Raise, Awaiting
  <2>2. outcome'.kind # None
    <3>1. RaisedOrReturned.kind \in OutcomeKinds
      BY DEF RaisedOrReturned, ServiceError, PrivacyOperationError, NoOutcome,
         OutcomeKinds
    <3> QED
      BY <2>1, <3>1, NoneIsNoKind
  <2>3. ASSUME outcome'.kind = "result"
        PROVE  answers # << >> /\ Accepted(LastAnswer)
    <3>1. /\ response_body' # None /\ LastAnswer' = Answer(response_body', FALSE)
          /\ IsSuccess(response_body'.status) /\ HasResult' /\ Len(answers') > 0
      BY <2>3 DEF ResultHeld, HasResult, IsSuccess
    <3>2. /\ response_body # None /\ LastAnswer = Answer(response_body, FALSE)
          /\ IsSuccess(response_body.status) /\ Acceptable(response_body)
          /\ Len(answers) > 0
      BY <3>1, <1>11 DEF Raise, HasResult, Acceptable, LastAnswer, IsSuccess
    <3>3. response_body.status \in 200..299
      <4>1. response_body \in Reply
        BY <3>2 DEF Typed, TypeOK
      <4> QED
        BY <3>2, <4>1, SuccessStatus
    <3>4. Accepted(LastAnswer)
      BY <3>2, <3>3 DEF Accepted, Answer, Acceptable
    <3>5. answers # << >>
      BY <3>2
    <3> QED
      BY <3>4, <3>5
  <2>4. ASSUME outcome'.disposition \in {"discard_event", "start_new_read"}
        PROVE  \E i \in 1..Len(answers) : Refused(answers[i])
    <3>1. outcome'.disposition # None
      BY <2>4, NoneIsNoValue DEF PrivacyErrorDisposition
    <3>2. Shown'
      BY <3>1 DEF RefusalHeld
    <3>3. Shown
      BY <3>2, <1>11 DEF Raise, Shown, Evidence, Classifies, ClassifyPrivacyError,
         ClassifyMiss
    <3>4. PICK i \in 1..Len(answers) : Evidence(answers[i])
      BY <3>3 DEF Shown
    <3>5. Refused(answers[i])
      BY <3>4, EvidenceIsRefusal
    <3> QED
      BY <3>5
  <2>5. /\ Verdict' \in {"done", "drop", "keep"}
        /\ Verdict' = "done" => outcome'.kind = "result"
        /\ Verdict' = "drop" => outcome'.disposition \in {"discard_event", "start_new_read"}
    BY <2>2 DEF Verdict
  <2> QED
    BY <1>0, <2>1, <2>3, <2>4, <2>5, ContractConclude
<1>12. CASE Cancel
  <2>1. /\ UNCHANGED << method, sent, answers >> /\ pc # "done" /\ pc' = "done"
        /\ outcome'.kind = "cancelled" /\ outcome'.disposition = None
    BY <1>12 DEF Cancel, NoOutcome
  <2>2. Verdict' = "keep"
    BY <2>1, NoneIsNoKind, NoneIsNoValue
       DEF Verdict, OutcomeKinds, PrivacyErrorDisposition
  <2> QED
    BY <1>0, <2>1, <2>2, ContractConclude
<1>13. CASE UNCHANGED vars
  BY <1>13, ContractStutter DEF vars
<1> QED
  BY <1>1, <1>2, <1>3, <1>4, <1>5, <1>6, <1>7, <1>8, <1>9, <1>10, <1>11,
     <1>12, <1>13 DEF Next, Progress

(***************************************************************************)
(* Every execution of a call is an execution of its contract: bounded      *)
(* transmissions, retries only while the question is open, and a verdict   *)
(* "done" or "drop" only on an answer that justifies it.                   *)
(***************************************************************************)
THEOREM CallImplementsContract == Spec => Promise!Safe
BY ContractInit, ContractNext, TypedInit, AlwaysTyped, AlwaysCounted, AlwaysAsked,
   AlwaysResultHeld, AlwaysRefusalHeld, PTL DEF Spec, Promise!Safe

-----------------------------------------------------------------------------
(***************************************************************************)
(* The call as a durable queue knows it.  To relate the two, the call must *)
(* account for what is on record when it ends: every refusal it recorded   *)
(* and did not end with was cut while its body was read, and is in the     *)
(* history.                                                                *)
(***************************************************************************)
Ledger ==
  /\ \A i \in 1..Len(answers) : answers[i].reply = None => answers[i].cut
  /\ pc \in {"backoff", "close", "raise"} => Len(answers) = sent
  /\ pc = "backoff" =>
       Len(answers) > 0 /\ (LastAnswer.cut \/ LastAnswer.reply.status \in {502, 503, 504})
  /\ pc \in {"close", "raise"} /\ terminal.kind # "transport" =>
       Len(answers) > 0 /\ ~LastAnswer.cut

\* Initially the history is empty.
LEMMA LedgerInit == Init => Ledger
BY DEF Init, Ledger

\* Every step keeps the history in line with the requests sent.
LEMMA LedgerNext == Typed /\ Counted /\ Ledger /\ [Next]_vars => Ledger'
<1> SUFFICES ASSUME Typed, Counted, Ledger, [Next]_vars PROVE Ledger'
  OBVIOUS
<1>0. Len(answers) \in Nat /\ sent \in Nat /\ None \notin Replies
  BY RepliesAssumption DEF Typed, TypeOK
<1>a. ASSUME NEW r \in Replies \cup {None}, NEW cut \in BOOLEAN,
             answers' = Append(answers, Answer(r, cut)), r = None => cut
      PROVE  /\ Len(answers') = Len(answers) + 1
             /\ LastAnswer'.reply = r /\ LastAnswer'.cut = cut
             /\ \A i \in 1..Len(answers') : answers'[i].reply = None => answers'[i].cut
  <2>1. /\ Len(answers') = Len(answers) + 1
        /\ \A i \in 1..Len(answers) : answers'[i] = answers[i]
        /\ answers'[Len(answers) + 1] = Answer(r, cut)
    BY <1>a, Recorded DEF Typed, TypeOK
  <2>2. LastAnswer'.reply = r /\ LastAnswer'.cut = cut
    BY <2>1 DEF LastAnswer, Answer
  <2>3. ASSUME NEW i \in 1..Len(answers'), answers'[i].reply = None PROVE answers'[i].cut
    <3>1. CASE i = Len(answers')
      BY <1>a, <2>2, <2>3, <3>1 DEF LastAnswer
    <3>2. CASE i \in 1..Len(answers)
      BY <2>1, <2>3, <3>2 DEF Ledger
    <3> QED
      BY <1>0, <2>1, <3>1, <3>2
  <2> QED
    BY <2>1, <2>2, <2>3
<1>b. ASSUME NEW r \in Replies \cup {None}, NEW cut \in BOOLEAN,
             answers' = Append(answers, Answer(r, cut)), r = None => cut,
             sent' = Len(answers) + 1, pc' \in {"backoff", "close"},
             pc' = "backoff" => cut \/ r.status \in {502, 503, 504},
             pc' = "close" => ~cut \/ terminal'.kind = "transport"
      PROVE  Ledger'
  <2>1. /\ Len(answers') = Len(answers) + 1
        /\ LastAnswer'.reply = r /\ LastAnswer'.cut = cut
        /\ \A i \in 1..Len(answers') : answers'[i].reply = None => answers'[i].cut
    BY <1>a, <1>b
  <2> QED
    BY <1>0, <1>b, <2>1 DEF Ledger
<1>1. ASSUME UNCHANGED << answers, sent >>, pc' \notin {"backoff", "close", "raise"}
      PROVE  Ledger'
  BY <1>1 DEF Ledger
<1>2. CASE RejectOversize \/ Open \/ Backoff \/ Cancel
  BY <1>1, <1>2 DEF RejectOversize, Open, Backoff, Cancel
<1>3. CASE FailToOpen
  BY <1>3 DEF FailToOpen, Typed, TypeOK, TerminalType, Counted, Ledger
<1>4. CASE Transmit
  BY <1>4 DEF Transmit, Ledger
<1>5. CASE ReceiveHeaders
  <2> PICK r \in Replies : \/ HeadersRetry(r) \/ HeadersAuth(r)
                           \/ HeadersFailure(r) \/ HeadersClassify(r)
                           \/ HeadersSuccess(r)
    BY <1>5 DEF ReceiveHeaders
  <2>1. CASE HeadersRetry(r)
    BY <1>0, <1>b, <2>1 DEF HeadersRetry, Counted, RetryStatus, RetryableStatuses
  <2>2. CASE HeadersAuth(r) \/ HeadersFailure(r)
    BY <1>0, <1>b, <2>2 DEF HeadersAuth, HeadersFailure, Counted
  <2>3. CASE HeadersClassify(r) \/ HeadersSuccess(r)
    BY <1>1, <2>3 DEF HeadersClassify, HeadersSuccess
  <2> QED
    BY <2>1, <2>2, <2>3
<1>6. CASE ReadError \/ ReadResult
  BY <1>0, <1>b, <1>6 DEF ReadError, ReadResult, Counted, Typed
<1>7. CASE TransportError
  <2>1. /\ pc' = "backoff" \/ (pc' = "close" /\ terminal'.kind = "transport")
        /\ reply \in Replies \cup {None} /\ answers' = Append(answers, Answer(reply, TRUE))
        /\ sent = Len(answers) + 1 /\ sent' = sent
    BY <1>7 DEF TransportError, Counted, Typed, TypeOK, TerminalType
  <2> QED
    BY <1>0, <1>b, <2>1
<1>8. CASE Close
  <2>1. terminal' = terminal \/ terminal'.kind = "transport"
    BY <1>8 DEF Close, Typed, TypeOK, TerminalType
  <2> QED
    BY <1>8, <2>1 DEF Close, Ledger, LastAnswer
<1>9. CASE Raise
  BY <1>1, <1>9 DEF Raise
<1>10. CASE UNCHANGED vars
  BY <1>10 DEF vars, Ledger, LastAnswer
<1> QED
  BY <1>2, <1>3, <1>4, <1>5, <1>6, <1>7, <1>8, <1>9, <1>10 DEF Next, Progress

KeptOnRecord ==
  \E i \in 1..Len(answers) :
    /\ answers[i].cut
    /\ answers[i].reply # None
    /\ answers[i].reply.status = terminal.status

RefusedLast ==
  /\ ~IsSuccess(LastAnswer.reply.status)
  /\ terminal.status = LastAnswer.reply.status
  /\ error.code = ClassifiedCode(LastAnswer.reply)

OnRecord ==
  /\ pc \in Looping \cup {"begin"} => terminal.kind \in {None, "service"}
  /\ pc = "begin" => terminal.kind = None /\ Len(answers) = 0
  /\ terminal.kind = None => \A i \in 1..Len(answers) : ~Kept(answers[i])
  /\ terminal.kind = "service" => terminal.status \notin {401, 403}
  /\ terminal.kind = "service" /\ pc \in Looping =>
       KeptOnRecord \/ (pc = "read" /\ ~IsSuccess(reply.status))
  /\ pc \in {"close", "raise"} /\ terminal.kind = None => IsSuccess(LastAnswer.reply.status)
  /\ pc \in {"close", "raise"} /\ terminal.kind = "service" =>
       RefusedLast \/ (IsSuccess(LastAnswer.reply.status) /\ KeptOnRecord)

\* Initially nothing is on record.
LEMMA OnRecordInit == Init => OnRecord
BY NoneIsNoKind DEF Init, NoTerminal, OnRecord, Looping, OutcomeKinds

\* Every step of a queued operation keeps its refusals on record.
LEMMA OnRecordNext ==
  /\ Typed /\ RefusalHeld /\ OnRecord /\ ClassifyPrivacyError(method)
  /\ [Next]_vars
  => OnRecord'
<1> SUFFICES ASSUME Typed, RefusalHeld, OnRecord, ClassifyPrivacyError(method), [Next]_vars
             PROVE  OnRecord'
  OBVIOUS
<1>0. /\ Len(answers) \in Nat /\ None \notin Replies
      /\ None \notin {"auth", "service", "transport"}
      /\ "service" \notin {"auth", "transport"}
  BY RepliesAssumption, NoneIsNoKind DEF Typed, TypeOK, OutcomeKinds
<1>a. ASSUME NEW r \in Replies \cup {None}, NEW cut \in BOOLEAN,
             answers' = Append(answers, Answer(r, cut))
      PROVE  /\ Len(answers') = Len(answers) + 1
             /\ LastAnswer'.reply = r /\ LastAnswer'.cut = cut
             /\ \A i \in 1..Len(answers) : answers'[i] = answers[i]
  <2>1. /\ Len(answers') = Len(answers) + 1
        /\ \A i \in 1..Len(answers) : answers'[i] = answers[i]
        /\ answers'[Len(answers) + 1] = Answer(r, cut)
    BY <1>a, Recorded DEF Typed, TypeOK
  <2> QED
    BY <2>1 DEF LastAnswer, Answer
(* A refusal cut earlier stays in the history. *)
<1>b. ASSUME NEW r \in Replies \cup {None}, NEW cut \in BOOLEAN,
             answers' = Append(answers, Answer(r, cut)), terminal'.status = terminal.status,
             KeptOnRecord
      PROVE  KeptOnRecord'
  <2>1. PICK i \in 1..Len(answers) : /\ answers[i].cut /\ answers[i].reply # None
                                     /\ answers[i].reply.status = terminal.status
    BY <1>b DEF KeptOnRecord
  <2>2. i \in 1..Len(answers') /\ answers'[i] = answers[i]
    BY <1>0, <1>a, <1>b
  <2> QED
    BY <1>b, <2>1, <2>2 DEF KeptOnRecord
(* An exchange that keeps nothing. *)
<1>c. ASSUME NEW r \in Replies \cup {None}, NEW cut \in BOOLEAN,
             answers' = Append(answers, Answer(r, cut)),
             terminal.kind = None, ~Kept(Answer(r, cut))
      PROVE  \A i \in 1..Len(answers') : ~Kept(answers'[i])
  <2> TAKE i \in 1..Len(answers')
  <2>1. CASE i \in 1..Len(answers)
    BY <1>a, <1>c, <2>1 DEF OnRecord
  <2>2. CASE i = Len(answers) + 1
    BY <1>c, <2>2, Recorded DEF Typed, TypeOK
  <2> QED
    BY <1>0, <1>a, <1>c, <2>1, <2>2
<1>1. ASSUME UNCHANGED << answers, terminal, error >>,
             pc' \in Looping => pc \in Looping \cup {"begin"},
             pc' \in Looping => pc # "read" /\ pc' # "read",
             pc' # "begin",
             pc' \in {"close", "raise"} => pc \in {"close", "raise"}
      PROVE  OnRecord'
  BY <1>0, <1>1 DEF OnRecord, Looping, KeptOnRecord, RefusedLast, LastAnswer
<1>2. CASE RejectOversize \/ Open \/ Transmit \/ Backoff \/ Raise \/ Cancel
  BY <1>1, <1>2 DEF RejectOversize, Open, Transmit, Backoff, Raise, Cancel, Looping
<1>3. CASE FailToOpen \/ Close
  <2>1. CASE terminal' = terminal /\ Close
    BY <1>1, <2>1 DEF Close, Looping
  <2>2. CASE terminal'.kind = "transport" /\ pc' = "raise"
    BY <1>0, <2>2 DEF OnRecord, Looping
  <2> QED
    BY <1>3, <2>1, <2>2 DEF FailToOpen, Close, Typed, TypeOK, TerminalType
<1>4. CASE ReceiveHeaders
  <2> PICK r \in Replies : \/ HeadersRetry(r) \/ HeadersAuth(r)
                           \/ HeadersFailure(r) \/ HeadersClassify(r)
                           \/ HeadersSuccess(r)
    BY <1>4 DEF ReceiveHeaders
  <2>1. CASE HeadersRetry(r)
    <3>1. ~Kept(Answer(r, FALSE))
      BY DEF Kept, Answer
    <3>2. /\ answers' = Append(answers, Answer(r, FALSE)) /\ terminal' = terminal
          /\ pc = "headers" /\ pc' = "backoff"
      BY <2>1 DEF HeadersRetry
    <3>3. terminal.kind = None => \A i \in 1..Len(answers') : ~Kept(answers'[i])
      BY <1>c, <3>1, <3>2
    <3>4. terminal.kind = "service" => KeptOnRecord'
      BY <1>b, <3>2 DEF OnRecord, Looping
    <3> QED
      BY <3>2, <3>3, <3>4 DEF OnRecord, Looping
  <2>2. CASE HeadersAuth(r)
    BY <1>0, <2>2 DEF HeadersAuth, OnRecord, Looping
  <2>3. CASE HeadersFailure(r)
    BY <2>3 DEF HeadersFailure, Classifies
  <2>4. CASE HeadersClassify(r)
    BY <1>0, <2>4 DEF HeadersClassify, ServiceFailure, OnRecord, Looping
  <2>5. CASE HeadersSuccess(r)
    BY <1>0, <2>5 DEF HeadersSuccess, OnRecord, Looping, KeptOnRecord
  <2> QED
    BY <2>1, <2>2, <2>3, <2>4, <2>5
<1>5. CASE ReadError
  <2>1. /\ reply \in Replies /\ answers' = Append(answers, Answer(reply, FALSE))
        /\ ~IsSuccess(reply.status) /\ error' = Classified(reply)
        /\ terminal' = terminal /\ pc' = "close" /\ pc = "read"
    BY <1>5 DEF ReadError, Typed
  <2>2. terminal.kind = "service" /\ terminal.status = reply.status
    BY <2>1 DEF RefusalHeld, Evidence, Answer
  <2>3. error'.code = ClassifiedCode(reply)
    BY <2>1 DEF Classified
  <2>4. LastAnswer'.reply = reply
    BY <1>a, <2>1
  <2>5. RefusedLast'
    BY <2>1, <2>2, <2>3, <2>4 DEF RefusedLast, IsSuccess, ClassifiedCode
  <2> QED
    BY <1>0, <2>1, <2>2, <2>5 DEF OnRecord, Looping
<1>6. CASE ReadResult
  <2>1. /\ reply \in Replies /\ answers' = Append(answers, Answer(reply, FALSE))
        /\ IsSuccess(reply.status) /\ pc = "read"
        /\ terminal' = terminal /\ pc' = "close"
    BY <1>6 DEF ReadResult, Typed
  <2>2. terminal.kind = None => \A i \in 1..Len(answers') : ~Kept(answers'[i])
    <3>1. ~Kept(Answer(reply, FALSE))
      BY DEF Kept, Answer
    <3> QED
      BY <1>c, <2>1, <3>1
  <2>3. terminal.kind = "service" => KeptOnRecord'
    BY <1>b, <2>1 DEF OnRecord, Looping
  <2>4. IsSuccess(LastAnswer'.reply.status)
    BY <1>a, <2>1
  <2> QED
    BY <1>0, <2>1, <2>2, <2>3, <2>4 DEF OnRecord, Looping, IsSuccess
<1>7. CASE TransportError
  <2>1. /\ reply \in Replies \cup {None} /\ answers' = Append(answers, Answer(reply, TRUE))
        /\ pc \in {"headers", "read"}
    BY <1>7 DEF TransportError, Typed, TypeOK
  <2>2. CASE MayRetry
    <3>1. terminal' = terminal /\ pc' = "backoff"
      BY <1>7, <2>2 DEF TransportError
    <3>2. CASE terminal.kind = None
      <4>1. reply = None \/ IsSuccess(reply.status)
        BY <1>0, <2>1, <3>2 DEF RefusalHeld
      <4>2. ~Kept(Answer(reply, TRUE))
        BY <4>1 DEF Kept, Answer, FinalRefusal
      <4>3. \A i \in 1..Len(answers') : ~Kept(answers'[i])
        BY <1>c, <2>1, <3>2, <4>2
      <4> QED
        BY <1>0, <3>1, <3>2, <4>3 DEF OnRecord, Looping
    <3>3. CASE terminal.kind = "service"
      <4>1. KeptOnRecord'
        <5>1. CASE KeptOnRecord
          BY <1>b, <2>1, <3>1, <5>1
        <5>2. CASE pc = "read" /\ ~IsSuccess(reply.status)
          <6>1. reply \in Replies /\ reply.status = terminal.status
            BY <5>2 DEF RefusalHeld, Evidence, Answer
          <6>2. /\ Len(answers') = Len(answers) + 1
                /\ answers'[Len(answers) + 1] = Answer(reply, TRUE)
            BY <2>1, Recorded DEF Typed, TypeOK
          <6> QED
            BY <1>0, <3>1, <6>1, <6>2 DEF KeptOnRecord, Answer
        <5> QED
          BY <2>1, <3>3, <5>1, <5>2 DEF OnRecord, Looping
      <4> QED
        BY <1>0, <3>1, <3>3, <4>1 DEF OnRecord, Looping
    <3> QED
      BY <2>1, <3>2, <3>3 DEF OnRecord, Looping
  <2>3. CASE ~MayRetry
    <3>1. terminal'.kind = "transport" /\ pc' = "close"
      BY <1>7, <2>3 DEF TransportError, Typed, TypeOK, TerminalType
    <3> QED
      BY <1>0, <3>1 DEF OnRecord, Looping
  <2> QED
    BY <2>2, <2>3
<1>8. CASE UNCHANGED vars
  BY <1>8 DEF vars, OnRecord, Looping, KeptOnRecord, RefusedLast, LastAnswer
<1> QED
  BY <1>2, <1>3, <1>4, <1>5, <1>6, <1>7, <1>8 DEF Next, Progress

-----------------------------------------------------------------------------
(***************************************************************************)
(* The steps of the queue's call, from what a step of this one does to     *)
(* Call, Late and Status.                                                  *)
(***************************************************************************)
\* The queue's one call is Call.
LEMMA CallBecomes ==
  ASSUME NEW c, Call' = c
  PROVE  [e \in {"event"} |-> Call]' = [[e \in {"event"} |-> Call] EXCEPT !["event"] = c]
OBVIOUS

\* The queue's one status is Status.
LEMMA StatusBecomes ==
  ASSUME NEW s, Status' = s
  PROVE  [e \in {"event"} |-> Status]' = [[e \in {"event"} |-> Status] EXCEPT !["event"] = s]
OBVIOUS

\* What the queue does not see.
LEMMA AsStutter ==
  ASSUME UNCHANGED << Call, Late, Status >>
  PROVE  UNCHANGED Queue!queueVars
BY DEF Queue!queueVars

\* A transmission.
LEMMA AsTransmit ==
  ASSUME Call # None, Call.pc = "send",
         Call' = [Call EXCEPT !.pc = "await", !.reply = None],
         UNCHANGED << Late, Status >>
  PROVE  CallStep
<1>1. Queue!Transmit("event")
  BY DEF Queue!Transmit
<1> QED
  BY <1>1 DEF CallStep

\* An end of the call that leaves the event queued.
LEMMA AsAbandon ==
  ASSUME Call # None, Call.pc \in {"send", "await"}, Call' = None, Status' = "open",
         Late' = IF Call.pc = "await" /\ Call.reply = None
                 THEN Late \cup {[event |-> "event", bytes |-> "bytes"]} ELSE Late,
         Call.bytes = "bytes"
  PROVE  CallStep
<1>1. "event" \in Queue!Unseen <=> Call.pc = "await" /\ Call.reply = None
  BY DEF Queue!Unseen
<1>2. Queue!Conclude("event", "retry_same_event")
  BY DEF Queue!Conclude
<1>3. Queue!Abandon("event")
  BY <1>1, <1>2 DEF Queue!Abandon
<1> QED
  BY <1>3 DEF CallStep

\* A final answer.
LEMMA AsAnswer ==
  ASSUME Call # None, Call.pc = "await", Call.reply = None,
         NEW r \in QueueReplies, r \notin Queue!Transient,
         Call' = [Call EXCEPT !.reply = r],
         UNCHANGED << Late, Status >>
  PROVE  CallStep
<1>1. "event" \in Queue!Unseen
  BY DEF Queue!Unseen
<1>2. Queue!Answer("event", r)
  BY <1>1 DEF Queue!Answer
<1> QED
  BY <1>2 DEF CallStep

\* An answer that says nothing final.
LEMMA AsAnswerLater ==
  ASSUME Call # None, Call.pc = "await", Call.reply = None, Call.bytes = "bytes",
         NEW r \in Queue!Transient,
         Call' = [Call EXCEPT !.reply = r],
         Late' = Late \cup {[event |-> "event", bytes |-> "bytes"]},
         UNCHANGED Status
  PROVE  CallStep
<1>1. "event" \in Queue!Unseen
  BY DEF Queue!Unseen
<1>2. Queue!AnswerLater("event")
  BY <1>1 DEF Queue!AnswerLater
<1> QED
  BY <1>2 DEF CallStep

\* A transport error after which the call goes on.
LEMMA AsCutRetry ==
  ASSUME Call # None, Call.pc = "await", Call.bytes = "bytes",
         Call.attempt + 1 < MaxAttempts(QueuedMethod),
         NEW body_cut \in {FALSE} \cup (IF Call.reply = None THEN {} ELSE {TRUE}),
         Call' = [Call EXCEPT !.attempt = Call.attempt + 1, !.pc = "send",
                              !.terminal_status = Queue!StatusKept(Call, body_cut)],
         Late' = IF Call.reply = None
                 THEN Late \cup {[event |-> "event", bytes |-> "bytes"]} ELSE Late,
         UNCHANGED Status
  PROVE  CallStep
<1>1. Queue!MayRetry(Call)
  BY DEF Queue!MayRetry
<1>2. Call' = [Queue!NextAttempt(Call) EXCEPT
                 !.terminal_status = Queue!StatusKept(Call, body_cut)]
  BY DEF Queue!NextAttempt
<1>3. [e \in {"event"} |-> Call]["event"] = Call
  OBVIOUS
<1>4. Queue!Cut("event")
  BY <1>1, <1>2, <1>3 DEF Queue!Cut
<1> QED
  BY <1>4 DEF CallStep

\* A response after which the call goes on.
LEMMA AsReceiveRetry ==
  ASSUME Call # None, Call.pc = "await", Call.reply # None, Call.reply.status = 503,
         Call.attempt + 1 < MaxAttempts(QueuedMethod),
         Call' = [Call EXCEPT !.attempt = Call.attempt + 1, !.pc = "send"],
         UNCHANGED << Late, Status >>
  PROVE  CallStep
<1>1. Queue!MayRetry(Call)
  BY DEF Queue!MayRetry
<1>2. Call' = Queue!NextAttempt(Call)
  BY DEF Queue!NextAttempt
<1>3. [e \in {"event"} |-> Call]["event"] = Call
  OBVIOUS
<1>4. Queue!Receive("event")
  BY <1>1, <1>2, <1>3 DEF Queue!Receive
<1> QED
  BY <1>4 DEF CallStep

\* A result.
LEMMA AsResult ==
  ASSUME Call # None, Call.pc = "await", Call.reply # None, Call.reply.status = 200,
         Call.terminal_status = None,
         Call' = [Call EXCEPT !.pc = "result"],
         UNCHANGED << Late, Status >>
  PROVE  CallStep
<1>1. [e \in {"event"} |-> Call]["event"] = Call
  OBVIOUS
<1>2. ~(Call.reply.status = 503)
  OBVIOUS
<1>3. [e \in {"event"} |-> Call]'
        = [[e \in {"event"} |-> Call] EXCEPT !["event"] = [Call EXCEPT !.pc = "result"]]
  BY CallBecomes
<1>4. Queue!Receive("event")
  BY <1>1, <1>2, <1>3 DEF Queue!Receive
<1> QED
  BY <1>4 DEF CallStep

\* A refusal for good, or a success an earlier refusal takes back.
LEMMA AsDrop ==
  ASSUME Call # None, Call.pc = "await", Call.reply # None, Call' = None,
         \/ /\ Call.reply.status = 200 /\ Call.terminal_status # None
            /\ Queue!Disposition(Call.terminal_status, None) # "retry_same_event"
         \/ /\ Call.reply.status = 409
            /\ Queue!Disposition(409, Call.reply.code) # "retry_same_event",
         Status' = "dropped", UNCHANGED Late
  PROVE  CallStep
<1>1. [e \in {"event"} |-> Call]["event"] = Call
  OBVIOUS
<1>d. ASSUME NEW d, d # "retry_same_event" PROVE Queue!Conclude("event", d)
  <2>1. [e \in {"event"} |-> Call]' = [[e \in {"event"} |-> Call] EXCEPT !["event"] = None]
    BY CallBecomes
  <2>2. [e \in {"event"} |-> Status]'
          = [[e \in {"event"} |-> Status] EXCEPT !["event"] = "dropped"]
    BY StatusBecomes
  <2> QED
    BY <1>d, <2>1, <2>2 DEF Queue!Conclude
<1>2. CASE Call.reply.status = 200
  <2>0. Queue!Disposition(Call.terminal_status, None) # "retry_same_event"
    BY <1>2
  <2>1. Queue!Conclude("event", Queue!Disposition(Call.terminal_status, None))
    BY <1>d, <2>0
  <2>2. Call.terminal_status # None /\ Call.reply.status # 503
    BY <1>2
  <2>3. Queue!Receive("event")
    BY <1>1, <1>2, <2>1, <2>2 DEF Queue!Receive
  <2> QED
    BY <2>3 DEF CallStep
<1>3. CASE Call.reply.status = 409
  <2>0. Queue!Disposition(Call.reply.status, Call.reply.code) # "retry_same_event"
    BY <1>3
  <2>1. Queue!Conclude("event", Queue!Disposition(Call.reply.status, Call.reply.code))
    BY <1>d, <2>0
  <2>2. Call.reply.status # 200 /\ Call.reply.status # 503
    BY <1>3
  <2>3. Queue!Receive("event")
    BY <1>1, <2>1, <2>2 DEF Queue!Receive
  <2> QED
    BY <2>3 DEF CallStep
<1> QED
  BY <1>2, <1>3

-----------------------------------------------------------------------------
(***************************************************************************)
(* What the queue sees of the call, and how a step changes it.             *)
(***************************************************************************)
\* What the queue makes of a response.
LEMMA AbstractType ==
  ASSUME NEW r \in Replies
  PROVE  /\ Abstract(r) \in QueueReplies /\ Abstract(r) # None
         /\ IsSuccess(r.status) => Abstract(r) = QueueReply(200, None)
         /\ FinalRefusal(r) => Abstract(r) = QueueReply(409, ClassifiedCode(r))
         /\ ~IsSuccess(r.status) /\ Undecided(r) => Abstract(r) = QueueReply(503, None)
         /\ Inconclusive(r) <=> Abstract(r) \in Queue!Transient
<1>1. ClassifiedCode(r) \in PrivacyOperationErrorCode \cup {None}
  BY DEF ClassifiedCode
<1>2. /\ IsSuccess(r.status) => Abstract(r) = QueueReply(200, None)
      /\ FinalRefusal(r) => Abstract(r) = QueueReply(409, ClassifiedCode(r))
      /\ ~IsSuccess(r.status) /\ Undecided(r) => Abstract(r) = QueueReply(503, None)
      /\ IsSuccess(r.status) \/ FinalRefusal(r) \/ (~IsSuccess(r.status) /\ Undecided(r))
  BY DEF Abstract, FinalRefusal
<1>3. Abstract(r) \in QueueReplies
  BY <1>1, <1>2 DEF QueueReplies
<1>4. Queue!Transient = { QueueReply(503, None),
                          QueueReply(409, "privacy_operation_in_progress") }
  BY DEF Queue!Transient, Queue!Busy, Queue!Unavailable, Queue!Reply, QueueReply
<1> QED
  BY <1>2, <1>3, <1>4, NoneIsNoCall DEF Inconclusive

QueuedInv ==
  /\ Typed /\ Counted /\ ResultHeld /\ RefusalHeld /\ Ledger /\ OnRecord
  /\ method = QueuedMethod

\* The last answer is one of the replies, or none.
LEMMA LastTyped ==
  ASSUME Typed, Len(answers) > 0
  PROVE  LastAnswer.reply \in Replies \cup {None} /\ LastAnswer.cut \in BOOLEAN
<1>1. Len(answers) \in 1..Len(answers) /\ answers \in Seq(AnswerType)
  BY DEF Typed, TypeOK
<1>2. LastAnswer \in AnswerType
  BY <1>1 DEF LastAnswer
<1> QED
  BY <1>2 DEF AnswerType

\* A sequence of answers is empty when it has no length.
LEMMA NoAnswers == Typed => (answers # << >> <=> Len(answers) > 0) /\ Len(answers) \in Nat
BY EmptySeq DEF Typed, TypeOK

\* The fields of a call that is not over.
LEMMA CallFields ==
  ASSUME Typed, ~Over
  PROVE  /\ Call # None /\ Call.bytes = "bytes" /\ Call.pc = CallPc
         /\ Call.attempt = CallAttempt /\ Call.reply = CallReply
         /\ Call.terminal_status = KeptStatus
         /\ Call = [ bytes |-> "bytes", attempt |-> CallAttempt, pc |-> CallPc,
                     reply |-> CallReply, terminal_status |-> KeptStatus ]
<1>1. Call = [ bytes |-> "bytes", attempt |-> CallAttempt, pc |-> CallPc,
               reply |-> CallReply, terminal_status |-> KeptStatus ]
  BY DEF Call
<1>2. CallPc \in {"send", "await", "result"} /\ CallAttempt \in Nat /\ KeptStatus \in {None, 409}
  BY DEF CallPc, CallAttempt, KeptStatus, Typed, TypeOK
<1>3. CallReply \in QueueReplies \cup {None}
  <2>1. CASE pc = "headers"
    BY <2>1 DEF CallReply
  <2>2. CASE pc = "read"
    BY <2>2, AbstractType DEF CallReply, Typed
  <2>3. CASE pc \notin {"headers", "read"}
    BY <2>3, AbstractType, LastTyped, NoAnswers DEF CallReply
  <2> QED
    BY <2>1, <2>2, <2>3
<1>4. Call \in [ bytes : {"bytes"}, attempt : Nat, pc : {"send", "await", "result"},
                 reply : QueueReplies \cup {None}, terminal_status : {None, 409} ]
  BY <1>1, <1>2, <1>3
<1> QED
  BY <1>1, <1>4, NoneIsNoCall

\* A call that still loops is not over, and its event is open.
LEMMA StillOpen ==
  ASSUME Typed, RefusalHeld, OnRecord, pc # "done"
  PROVE  /\ Status = "open" /\ outcome = NoOutcome
         /\ pc \in Looping \cup {"begin"} => ~Over
         /\ Over <=> terminal.kind = "transport"
<1>1. outcome = NoOutcome
  BY DEF RefusalHeld
<1>2. Status = "open"
  BY <1>1, NoneIsNoValue DEF Status, NoOutcome, PrivacyErrorDisposition
<1>3. None # "transport"
  BY NoneIsNoKind DEF OutcomeKinds
<1> QED
  BY <1>1, <1>2, <1>3 DEF Over, OnRecord

\* What an answer more changes for the queue.
LEMMA AnotherAnswer ==
  ASSUME Typed, NEW r \in Replies \cup {None}, NEW cut \in BOOLEAN,
         answers' = Append(answers, Answer(r, cut))
  PROVE  /\ Len(answers') = Len(answers) + 1 /\ answers' # << >>
         /\ LastAnswer'.reply = r /\ LastAnswer'.cut = cut
         /\ KeptStatus' = IF Kept(Answer(r, cut)) THEN 409 ELSE KeptStatus
         /\ AnsweredLate' <=> AnsweredLate \/ r = None \/ Inconclusive(r)
<1>0. Len(answers) \in Nat
  BY DEF Typed, TypeOK
<1>1. /\ answers' \in Seq(AnswerType)
      /\ Len(answers') = Len(answers) + 1
      /\ \A i \in 1..Len(answers) : answers'[i] = answers[i]
      /\ answers'[Len(answers) + 1] = Answer(r, cut)
  BY Recorded DEF Typed, TypeOK
<1>2. LastAnswer'.reply = r /\ LastAnswer'.cut = cut /\ answers' # << >>
  BY <1>0, <1>1, EmptySeq DEF LastAnswer, Answer
<1>3. 1..Len(answers') = 1..Len(answers) \cup {Len(answers) + 1}
  BY <1>0, <1>1
<1>4. (\E i \in 1..Len(answers') : Kept(answers'[i]))
        <=> (\E i \in 1..Len(answers) : Kept(answers[i])) \/ Kept(Answer(r, cut))
  BY <1>1, <1>3
<1>5. KeptStatus' = IF Kept(Answer(r, cut)) THEN 409 ELSE KeptStatus
  <2>1. KeptStatus' = IF \E i \in 1..Len(answers') : Kept(answers'[i]) THEN 409 ELSE None
    BY DEF KeptStatus, Kept, FinalRefusal, Undecided, IsSuccess, TransientStatus
  <2> QED
    BY <1>4, <2>1 DEF KeptStatus
<1>6. AnsweredLate' <=> AnsweredLate \/ r = None \/ Inconclusive(r)
  <2>1. AnsweredLate' <=> \E i \in 1..Len(answers') :
                            answers'[i].reply = None \/ Inconclusive(answers'[i].reply)
    BY DEF AnsweredLate, Inconclusive, Abstract
  <2>2. answers'[Len(answers) + 1].reply = r
    BY <1>1 DEF Answer
  <2> QED
    BY <1>1, <1>3, <2>1, <2>2 DEF AnsweredLate
<1> QED
  BY <1>1, <1>2, <1>5, <1>6

-----------------------------------------------------------------------------
(***************************************************************************)
(* One lemma per action of the call.                                       *)
(***************************************************************************)
\* An answer the call has not been given before.
LEMMA AnswerSeen ==
  ASSUME Typed, ~Over, pc = "headers", NEW r \in Replies,
         Call' = [Call EXCEPT !.reply = Abstract(r)],
         MayArriveLate' <=> MayArriveLate \/ Inconclusive(r),
         UNCHANGED Status
  PROVE  CallStep
<1>1. /\ Call # None /\ Call.pc = "await" /\ Call.reply = None /\ Call.bytes = "bytes"
  BY CallFields DEF CallPc, CallReply, AfterCut
<1>2. CASE Inconclusive(r)
  <2>1. Late' = Late \cup {[event |-> "event", bytes |-> "bytes"]}
    BY <1>2 DEF Late
  <2>2. Abstract(r) \in Queue!Transient
    BY <1>2, AbstractType
  <2> QED
    BY <1>1, <2>1, <2>2, AsAnswerLater
<1>3. CASE ~Inconclusive(r)
  <2>1. Late' = Late
    BY <1>3 DEF Late
  <2>2. Abstract(r) \in QueueReplies /\ Abstract(r) \notin Queue!Transient
    BY <1>3, AbstractType
  <2> QED
    BY <1>1, <2>1, <2>2, AsAnswer
<1> QED
  BY <1>2, <1>3

\* A call that ends before its first request leaves its event queued.
LEMMA EndsUnsent ==
  ASSUME QueuedInv, RejectOversize \/ FailToOpen
  PROVE  CallStep
<1>0. Typed /\ RefusalHeld /\ OnRecord /\ Counted /\ pc = "begin" /\ pc # "done"
  BY DEF QueuedInv, RejectOversize, FailToOpen
<1>1. ~Over /\ Status = "open" /\ outcome = NoOutcome
  BY <1>0, StillOpen
<1>2. Call # None /\ Call.pc = "send" /\ Call.bytes = "bytes"
  BY <1>0, <1>1, CallFields DEF CallPc
<1>3. Over'
  BY NoneIsNoKind, <1>0
     DEF RejectOversize, FailToOpen, Over, NoOutcome, Typed, TypeOK, TerminalType
<1>4. Call' = None
  BY <1>3 DEF Call
<1>5. outcome'.disposition = None
  BY <1>1 DEF RejectOversize, FailToOpen, NoOutcome
<1>6. Status' = "open"
  BY <1>5, NoneIsNoValue DEF Status, PrivacyErrorDisposition
<1>7. Late' = Late
  <2>1. AnsweredLate' = AnsweredLate
    BY DEF RejectOversize, FailToOpen, AnsweredLate, Inconclusive, Abstract
  <2>2. MayArriveLate' <=> MayArriveLate
    BY <1>0, <2>1 DEF MayArriveLate, RejectOversize, FailToOpen, Counted, Inconclusive, Abstract
  <2> QED
    BY <2>2 DEF Late
<1> QED
  BY <1>2, <1>4, <1>6, <1>7, AsAbandon

\* A step that changes neither answers nor record.
LEMMA SameCall ==
  ASSUME Typed, UNCHANGED << answers, terminal, outcome, reply >>,
         pc' # "done", pc # "done", CallPc' = CallPc, CallReply' = CallReply,
         CallAttempt' = CallAttempt
  PROVE  UNCHANGED << Call, Late, Status >>
<1>1. Over' = Over
  BY DEF Over
<1>2. KeptStatus' = KeptStatus
  BY DEF KeptStatus, Kept, FinalRefusal, Undecided, IsSuccess, TransientStatus
<1>3. Call' = Call
  BY <1>1, <1>2 DEF Call
<1>4. AnsweredLate' = AnsweredLate
  BY DEF AnsweredLate, Inconclusive, Abstract
<1>5. Late' = Late
  BY <1>4 DEF Late, MayArriveLate, Inconclusive, Abstract
<1>6. Status' = Status
  BY DEF Status
<1> QED
  BY <1>3, <1>5, <1>6

\* Opening the client is invisible.
LEMMA QueuedOpen ==
  ASSUME QueuedInv, Open
  PROVE  UNCHANGED << Call, Late, Status >>
<1>1. CallPc' = CallPc /\ CallAttempt' = CallAttempt
  BY DEF Open, CallPc, CallAttempt, AfterCut, LastAnswer
<1>2. CallReply' = CallReply
  BY DEF Open, CallReply, LastAnswer, Abstract
<1> QED
  BY <1>1, <1>2, SameCall DEF QueuedInv, Open

\* A transmission is a transmission.
LEMMA QueuedTransmit ==
  ASSUME QueuedInv, Transmit
  PROVE  CallStep
<1>0. Typed /\ RefusalHeld /\ OnRecord /\ pc = "send" /\ pc # "done" /\ pc' = "headers"
  BY DEF QueuedInv, Transmit
<1>1. ~Over /\ Status = "open" /\ outcome = NoOutcome
  BY <1>0, StillOpen DEF Looping
<1>2. /\ Call # None /\ Call.pc = "send"
      /\ Call = [ bytes |-> "bytes", attempt |-> CallAttempt, pc |-> CallPc,
                  reply |-> CallReply, terminal_status |-> KeptStatus ]
  BY <1>0, <1>1, CallFields DEF CallPc
<1>3. ~Over'
  BY <1>0, <1>1 DEF Transmit, Over
<1>4. KeptStatus' = KeptStatus /\ CallAttempt' = CallAttempt
      /\ CallPc' = "await" /\ CallReply' = None
  BY <1>0 DEF Transmit, KeptStatus, Kept, FinalRefusal, Undecided, IsSuccess, TransientStatus,
              CallAttempt, AfterCut, CallPc, CallReply
<1>5. Call' = [Call EXCEPT !.pc = "await", !.reply = None]
  <2>1. Call' = [ bytes |-> "bytes", attempt |-> CallAttempt, pc |-> "await",
                  reply |-> None, terminal_status |-> KeptStatus ]
    BY <1>3, <1>4 DEF Call
  <2> DEFINE d == [Call EXCEPT !.pc = "await"]
  <2>2. d = [ bytes |-> "bytes", attempt |-> CallAttempt, pc |-> "await",
              reply |-> CallReply, terminal_status |-> KeptStatus ]
    BY <1>2
  <2>3. [Call EXCEPT !.pc = "await", !.reply = None] = [d EXCEPT !.reply = None]
    OBVIOUS
  <2> HIDE DEF d
  <2> QED
    BY <2>1, <2>2, <2>3
<1>6. Late' = Late
  <2>1. AnsweredLate' = AnsweredLate
    BY DEF Transmit, AnsweredLate, Inconclusive, Abstract
  <2> QED
    BY <1>0, <2>1 DEF Transmit, Late, MayArriveLate, Inconclusive, Abstract
<1>7. Status' = Status
  BY DEF Transmit, Status
<1> QED
  BY <1>2, <1>5, <1>6, <1>7, AsTransmit

\* The headers of a response are its answer.
LEMMA QueuedHeaders ==
  ASSUME QueuedInv, ReceiveHeaders
  PROVE  CallStep
<1>0. Typed /\ RefusalHeld /\ OnRecord /\ Counted /\ pc = "headers" /\ pc # "done"
      /\ reply = None
  BY DEF QueuedInv, ReceiveHeaders, HeadersRetry, HeadersAuth, HeadersFailure,
         HeadersClassify, HeadersSuccess, RefusalHeld
<1>1. ~Over /\ Status = "open" /\ outcome = NoOutcome
  BY <1>0, StillOpen DEF Looping
<1>2. Call = [ bytes |-> "bytes", attempt |-> CallAttempt, pc |-> CallPc,
               reply |-> CallReply, terminal_status |-> KeptStatus ]
      /\ CallPc = "await" /\ CallAttempt = attempt
  BY <1>0, <1>1, CallFields DEF CallPc, AfterCut, CallAttempt
<1>3. MayArriveLate <=> AnsweredLate
  BY <1>0 DEF MayArriveLate
<1> PICK r \in Replies : \/ HeadersRetry(r) \/ HeadersAuth(r)
                         \/ HeadersFailure(r) \/ HeadersClassify(r)
                         \/ HeadersSuccess(r)
  BY DEF ReceiveHeaders
<1>4. Status' = Status
  BY DEF HeadersRetry, HeadersAuth, HeadersFailure, HeadersClassify, HeadersSuccess, Status
<1>5. ASSUME ~Over', CallPc' = "await", CallReply' = Abstract(r), KeptStatus' = KeptStatus,
             CallAttempt' = CallAttempt, MayArriveLate' <=> AnsweredLate \/ Inconclusive(r)
      PROVE  CallStep
  <2>1. Call' = [Call EXCEPT !.reply = Abstract(r)]
    <3>1. Call' = [ bytes |-> "bytes", attempt |-> CallAttempt, pc |-> "await",
                    reply |-> Abstract(r), terminal_status |-> KeptStatus ]
      BY <1>5 DEF Call
    <3> QED
      BY <1>2, <3>1
  <2>2. MayArriveLate' <=> MayArriveLate \/ Inconclusive(r)
    BY <1>3, <1>5
  <2> QED
    BY <1>0, <1>1, <1>4, <2>1, <2>2, AnswerSeen
<1>6. r # None
  BY RepliesAssumption
<1>7. ASSUME answers' = Append(answers, Answer(r, FALSE))
      PROVE  /\ KeptStatus' = KeptStatus /\ answers' # << >>
             /\ LastAnswer'.reply = r /\ LastAnswer'.cut = FALSE
             /\ AnsweredLate' <=> AnsweredLate \/ Inconclusive(r)
  <2>1. ~Kept(Answer(r, FALSE))
    BY DEF Kept, Answer
  <2> QED
    BY <1>0, <1>6, <1>7, <2>1, AnotherAnswer
<1>8. ASSUME UNCHANGED answers
      PROVE  KeptStatus' = KeptStatus /\ AnsweredLate' = AnsweredLate
  BY <1>8 DEF KeptStatus, Kept, FinalRefusal, Undecided, IsSuccess, TransientStatus,
              AnsweredLate, Inconclusive, Abstract
<1>9. CASE HeadersRetry(r) \/ HeadersAuth(r)
  <2>1. /\ answers' = Append(answers, Answer(r, FALSE)) /\ pc' \in {"backoff", "close"}
        /\ reply' = None /\ attempt' = attempt /\ outcome' = outcome
        /\ terminal'.kind # "transport"
    <3>1. CASE HeadersRetry(r)
      BY <1>0, <1>1, <3>1 DEF HeadersRetry, Over
    <3>2. CASE HeadersAuth(r)
      BY <1>0, <3>2 DEF HeadersAuth
    <3> QED
      BY <1>9, <3>1, <3>2
  <2>2. ~Over'
    BY <2>1 DEF Over
  <2>3. CallReply' = Abstract(LastAnswer'.reply)
    BY <1>6, <1>7, <2>1 DEF CallReply, Abstract
  <2>4. CallPc' = "await" /\ CallAttempt' = CallAttempt
    BY <1>2, <1>7, <2>1 DEF CallPc, CallAttempt, AfterCut
  <2>5. MayArriveLate' <=> AnsweredLate'
    BY <2>1 DEF MayArriveLate
  <2> QED
    BY <1>5, <1>7, <2>1, <2>2, <2>3, <2>4, <2>5
<1>10. CASE HeadersFailure(r)
  BY <1>10, QueuedAssumption DEF HeadersFailure, Classifies, QueuedInv
<1>11. CASE HeadersClassify(r) \/ HeadersSuccess(r)
  <2>1. /\ answers' = answers /\ pc' = "read"
        /\ reply' = r /\ attempt' = attempt /\ outcome' = outcome
        /\ terminal'.kind # "transport"
    BY <1>0, <1>1, <1>11 DEF HeadersClassify, HeadersSuccess, Over
  <2>2. ~Over'
    BY <2>1 DEF Over
  <2>3. CallReply' = Abstract(r)
    BY <2>1 DEF CallReply, Abstract
  <2>4. CallPc' = "await" /\ CallAttempt' = CallAttempt
    BY <1>2, <2>1 DEF CallPc, CallAttempt, AfterCut
  <2>5. MayArriveLate' <=> AnsweredLate' \/ Inconclusive(r)
    BY <1>6, <2>1 DEF MayArriveLate, Inconclusive, Abstract
  <2> QED
    BY <1>5, <1>8, <2>1, <2>2, <2>3, <2>4, <2>5
<1> QED
  BY <1>9, <1>10, <1>11

\* A body read to its end is not news: its headers were the answer.
LEMMA QueuedRead ==
  ASSUME QueuedInv, ReadError \/ ReadResult
  PROVE  UNCHANGED << Call, Late, Status >>
<1>0. /\ Typed /\ RefusalHeld /\ OnRecord /\ pc = "read" /\ pc # "done"
      /\ reply \in Replies /\ reply # None
      /\ answers' = Append(answers, Answer(reply, FALSE))
      /\ pc' = "close" /\ reply' = None
      /\ UNCHANGED << terminal, outcome, attempt >>
  BY RepliesAssumption DEF QueuedInv, ReadError, ReadResult, Typed
<1>1. ~Over /\ Status = "open"
  BY <1>0, StillOpen DEF Looping
<1>2. ~Over'
  BY <1>0, <1>1 DEF Over
<1>3. ~Kept(Answer(reply, FALSE))
  BY DEF Kept, Answer
<1>4. /\ KeptStatus' = KeptStatus /\ answers' # << >> /\ LastAnswer'.reply = reply
      /\ AnsweredLate' <=> AnsweredLate \/ Inconclusive(reply)
  BY <1>0, <1>3, AnotherAnswer
<1>5. CallPc' = CallPc /\ CallAttempt' = CallAttempt
  BY <1>0 DEF CallPc, CallAttempt, AfterCut
<1>6. CallReply' = CallReply
  <2>1. CallReply = Abstract(reply)
    BY <1>0 DEF CallReply
  <2>2. CallReply' = Abstract(LastAnswer'.reply)
    BY <1>0, <1>4 DEF CallReply, Abstract
  <2> QED
    BY <1>4, <2>1, <2>2
<1>7. Call' = Call
  BY <1>1, <1>2, <1>4, <1>5, <1>6 DEF Call
<1>8. Late' = Late
  BY <1>0, <1>4 DEF Late, MayArriveLate
<1>9. Status' = Status
  BY <1>0 DEF Status
<1> QED
  BY <1>7, <1>8, <1>9

\* A transport error cuts the exchange.
LEMMA QueuedCut ==
  ASSUME QueuedInv, TransportError
  PROVE  CallStep
<1>0. /\ Typed /\ RefusalHeld /\ OnRecord /\ Counted /\ pc \in {"headers", "read"}
      /\ pc # "done" /\ reply \in Replies \cup {None} /\ None \notin Replies
      /\ answers' = Append(answers, Answer(reply, TRUE)) /\ method = QueuedMethod
      /\ pc = "read" <=> reply # None
      /\ reply' = None /\ outcome' = outcome /\ attempt' = attempt
  BY RepliesAssumption DEF QueuedInv, TransportError, Typed, TypeOK, RefusalHeld
<1>a. pc' \in {"backoff", "close"}
  BY DEF TransportError
<1>1. ~Over /\ Status = "open"
  BY <1>0, StillOpen DEF Looping
<1>2. /\ CallPc = "await" /\ CallAttempt = attempt
      /\ CallReply = IF reply = None THEN None ELSE Abstract(reply)
  BY <1>0 DEF CallPc, CallAttempt, AfterCut, CallReply
<1>3. /\ Call # None /\ Call.pc = "await" /\ Call.bytes = "bytes" /\ Call.attempt = attempt
      /\ Call.reply = CallReply /\ Call.terminal_status = KeptStatus
      /\ Call = [ bytes |-> "bytes", attempt |-> CallAttempt, pc |-> CallPc,
                  reply |-> CallReply, terminal_status |-> KeptStatus ]
  BY <1>0, <1>1, <1>2, CallFields
<1>4. reply # None => Abstract(reply) # None
  BY <1>0, AbstractType
<1>5. /\ KeptStatus' = IF Kept(Answer(reply, TRUE)) THEN 409 ELSE KeptStatus
      /\ answers' # << >> /\ LastAnswer'.reply = reply /\ LastAnswer'.cut = TRUE
      /\ AnsweredLate' <=> AnsweredLate \/ reply = None \/ Inconclusive(reply)
  BY <1>0, AnotherAnswer
<1>6. Late' = IF Call.reply = None
              THEN Late \cup {[event |-> "event", bytes |-> "bytes"]} ELSE Late
  <2>1. MayArriveLate' <=> AnsweredLate'
    BY <1>0, <1>a DEF MayArriveLate
  <2>2. MayArriveLate <=> AnsweredLate \/ (reply # None /\ Inconclusive(reply))
    BY <1>0 DEF MayArriveLate
  <2> QED
    BY <1>2, <1>3, <1>4, <1>5, <2>1, <2>2 DEF Late
<1>7. Status' = Status
  BY <1>0 DEF Status
<1>8. CASE MayRetry
  <2>1. pc' = "backoff" /\ terminal' = terminal
    BY <1>8 DEF TransportError
  <2>2. ~Over'
    BY <1>0, <1>1, <2>1 DEF Over
  <2>3. CallPc' = "send" /\ CallAttempt' = attempt + 1
    BY <1>0, <1>5, <2>1 DEF CallPc, CallAttempt, AfterCut
  <2>4. CallReply' = CallReply
    BY <1>0, <1>2, <1>5, <2>1 DEF CallReply, Abstract
  <2> DEFINE body_cut == reply # None
  <2>5. KeptStatus' = Queue!StatusKept(Call, body_cut)
    <3>1. CASE reply = None
      <4>1. ~Kept(Answer(reply, TRUE))
        BY <3>1 DEF Kept, Answer
      <4> QED
        BY <1>3, <1>5, <3>1, <4>1 DEF Queue!StatusKept
    <3>2. CASE reply # None
      <4>1. Kept(Answer(reply, TRUE)) <=> FinalRefusal(reply)
        BY <3>2 DEF Kept, Answer
      <4>2. FinalRefusal(reply) <=> Abstract(reply).status = 409
        <5>1. FinalRefusal(reply) => Abstract(reply) = QueueReply(409, ClassifiedCode(reply))
          BY <1>0, <3>2, AbstractType
        <5>2. ~FinalRefusal(reply) =>
                Abstract(reply) \in {QueueReply(200, None), QueueReply(503, None)}
          BY <1>0, <3>2, AbstractType DEF FinalRefusal
        <5> QED
          BY <5>1, <5>2 DEF QueueReply
      <4>3. Call.reply = Abstract(reply)
        BY <1>2, <1>3, <3>2
      <4>4. Call.reply.status = 409 <=> FinalRefusal(reply)
        BY <4>2, <4>3
      <4>5. Queue!StatusKept(Call, body_cut)
              = IF Call.reply.status = 409 THEN 409 ELSE Call.terminal_status
        BY <3>2 DEF Queue!StatusKept
      <4>6. KeptStatus' = IF FinalRefusal(reply) THEN 409 ELSE KeptStatus
        BY <1>5, <4>1
      <4>7. Call.terminal_status = KeptStatus
        BY <1>3
      <4> HIDE DEF body_cut
      <4> QED
        BY <4>4, <4>5, <4>6, <4>7
    <3> QED
      BY <3>1, <3>2
  <2>6. body_cut \in {FALSE} \cup (IF Call.reply = None THEN {} ELSE {TRUE})
    BY <1>2, <1>3, <1>4
  <2>7. Call.attempt + 1 < MaxAttempts(QueuedMethod)
    BY <1>0, <1>3, <1>8 DEF MayRetry
  <2>8. Call' = [Call EXCEPT !.attempt = Call.attempt + 1, !.pc = "send",
                             !.terminal_status = Queue!StatusKept(Call, body_cut)]
    <3> HIDE DEF body_cut
    <3> DEFINE s == Queue!StatusKept(Call, body_cut)
    <3>1. Call' = [ bytes |-> "bytes", attempt |-> attempt + 1, pc |-> "send",
                    reply |-> CallReply, terminal_status |-> s ]
      BY <2>2, <2>3, <2>4, <2>5 DEF Call
    <3> HIDE DEF s
    <3> DEFINE d == [Call EXCEPT !.attempt = Call.attempt + 1]
               f == [d EXCEPT !.pc = "send"]
    <3>2. d = [ bytes |-> "bytes", attempt |-> attempt + 1, pc |-> "await",
                reply |-> CallReply, terminal_status |-> KeptStatus ]
      BY <1>2, <1>3
    <3>3. [Call EXCEPT !.attempt = Call.attempt + 1, !.pc = "send", !.terminal_status = s]
            = [f EXCEPT !.terminal_status = s]
      OBVIOUS
    <3> HIDE DEF d
    <3>4. f = [ bytes |-> "bytes", attempt |-> attempt + 1, pc |-> "send",
                reply |-> CallReply, terminal_status |-> KeptStatus ]
      BY <3>2
    <3> HIDE DEF f
    <3>5. Call' = [Call EXCEPT !.attempt = Call.attempt + 1, !.pc = "send",
                               !.terminal_status = s]
      BY <3>1, <3>3, <3>4
    <3> QED
      BY <3>5 DEF s
  <2> HIDE DEF body_cut
  <2> QED
    BY <1>3, <1>6, <1>7, <2>6, <2>7, <2>8, AsCutRetry
<1>9. CASE ~MayRetry
  <2>1. terminal'.kind = "transport"
    BY <1>0, <1>9 DEF TransportError, Typed, TypeOK, TerminalType
  <2>2. Call' = None
    BY <2>1 DEF Call, Over
  <2> QED
    BY <1>1, <1>3, <1>6, <1>7, <2>2, AsAbandon
<1> QED
  BY <1>8, <1>9

\* A wait is over: after a cut nothing new, after a response its reception.
LEMMA QueuedBackoff ==
  ASSUME QueuedInv, Backoff
  PROVE  CallStep \/ UNCHANGED << Call, Late, Status >>
<1>0. /\ Typed /\ RefusalHeld /\ OnRecord /\ Counted /\ Ledger /\ pc = "backoff"
      /\ pc # "done" /\ pc' = "send" /\ attempt' = attempt + 1 /\ reply = None
      /\ UNCHANGED << answers, terminal, outcome, reply, sent >> /\ method = QueuedMethod
  BY DEF QueuedInv, Backoff, RefusalHeld
<1>1. ~Over
  BY <1>0, StillOpen DEF Looping
<1>2. /\ Len(answers) > 0 /\ answers # << >>
      /\ LastAnswer.reply \in Replies \cup {None} /\ LastAnswer.cut \in BOOLEAN
      /\ LastAnswer.cut \/ LastAnswer.reply.status \in {502, 503, 504}
  BY <1>0, LastTyped, NoAnswers DEF Ledger
<1>3. LastAnswer' = LastAnswer
  BY <1>0 DEF LastAnswer
<1>4. CallReply' = CallReply
  BY <1>0, <1>3 DEF CallReply, Abstract
<1>5. CASE LastAnswer.cut
  <2>1. CallPc' = CallPc /\ CallAttempt' = CallAttempt
    BY <1>0, <1>5 DEF CallPc, CallAttempt, AfterCut
  <2> QED
    BY <1>0, <1>4, <2>1, SameCall
<1>6. CASE ~LastAnswer.cut
  <2>1. CallPc = "await" /\ CallAttempt = attempt
    BY <1>0, <1>6 DEF CallPc, CallAttempt, AfterCut
  <2>2. /\ Call # None /\ Call.pc = "await" /\ Call.attempt = attempt /\ Call.reply = CallReply
        /\ Call = [ bytes |-> "bytes", attempt |-> CallAttempt, pc |-> CallPc,
                    reply |-> CallReply, terminal_status |-> KeptStatus ]
    BY <1>0, <1>1, <2>1, CallFields
  <2>3. LastAnswer.reply \in Replies
    <3>1. LastAnswer.reply # None
      BY <1>0, <1>2, <1>6 DEF Ledger, LastAnswer
    <3> QED
      BY <1>2, <3>1
  <2>4. LastAnswer.reply.status \in {502, 503, 504}
    BY <1>2, <1>6
  <2>5. ~IsSuccess(LastAnswer.reply.status) /\ Undecided(LastAnswer.reply)
    BY <2>4 DEF IsSuccess, Undecided, TransientStatus
  <2>6. Abstract(LastAnswer.reply) = QueueReply(503, None)
    BY <2>3, <2>5, AbstractType
  <2>7. CallReply = QueueReply(503, None) /\ CallReply # None
    <3>1. CallReply = Abstract(LastAnswer.reply)
      BY <1>0, <1>2, <2>3, RepliesAssumption DEF CallReply
    <3> QED
      BY <2>3, <2>6, <3>1, AbstractType
  <2>8. Call.reply # None /\ Call.reply.status = 503
    BY <2>2, <2>7 DEF QueueReply
  <2>9. Call.attempt + 1 < MaxAttempts(QueuedMethod)
    BY <1>0, <2>2 DEF Counted
  <2>10. Call' = [Call EXCEPT !.attempt = Call.attempt + 1, !.pc = "send"]
    <3>1. ~Over' /\ KeptStatus' = KeptStatus
      BY <1>0, <1>1 DEF Over, KeptStatus, Kept, FinalRefusal, Undecided, IsSuccess, TransientStatus
    <3>2. CallPc' = "send" /\ CallAttempt' = attempt + 1
      BY <1>0 DEF CallPc, CallAttempt, AfterCut
    <3>3. Call' = [ bytes |-> "bytes", attempt |-> attempt + 1, pc |-> "send",
                    reply |-> CallReply, terminal_status |-> KeptStatus ]
      BY <1>4, <3>1, <3>2 DEF Call
    <3> DEFINE d == [Call EXCEPT !.attempt = Call.attempt + 1]
    <3>4. d = [ bytes |-> "bytes", attempt |-> attempt + 1, pc |-> "await",
                reply |-> CallReply, terminal_status |-> KeptStatus ]
      BY <2>1, <2>2
    <3>5. [Call EXCEPT !.attempt = Call.attempt + 1, !.pc = "send"] = [d EXCEPT !.pc = "send"]
      OBVIOUS
    <3> HIDE DEF d
    <3> QED
      BY <3>3, <3>4, <3>5
  <2>11. Late' = Late /\ Status' = Status
    <3>1. AnsweredLate' = AnsweredLate
      BY <1>0 DEF AnsweredLate, Inconclusive, Abstract
    <3> QED
      BY <1>0, <3>1 DEF Late, MayArriveLate, Status
  <2> QED
    BY <2>2, <2>8, <2>9, <2>10, <2>11, AsReceiveRetry
<1> QED
  BY <1>2, <1>5, <1>6

\* The answer a call ends on, unless its transport failed.
LEMMA LastIsSeen ==
  ASSUME QueuedInv, pc \in {"close", "raise"}, ~Over
  PROVE  /\ Call # None /\ Call.pc = "await" /\ Call.bytes = "bytes"
         /\ LastAnswer.reply \in Replies /\ Call.reply = Abstract(LastAnswer.reply)
         /\ Call.reply # None /\ Call.terminal_status = KeptStatus
         /\ Call.attempt = CallAttempt
         /\ Call = [ bytes |-> "bytes", attempt |-> CallAttempt, pc |-> "await",
                     reply |-> CallReply, terminal_status |-> KeptStatus ]
<1>0. Typed /\ Ledger /\ OnRecord /\ RefusalHeld
  BY DEF QueuedInv
<1>1. terminal.kind # "transport"
  BY DEF Over
<1>2. Len(answers) > 0 /\ ~LastAnswer.cut /\ answers # << >>
  BY <1>0, <1>1, NoAnswers DEF Ledger
<1>3. LastAnswer.reply \in Replies
  <2>1. LastAnswer.reply # None
    BY <1>0, <1>2 DEF Ledger, LastAnswer, Typed, TypeOK
  <2> QED
    BY <1>0, <1>2, <2>1, LastTyped
<1>4. CallPc = "await"
  BY DEF CallPc, AfterCut
<1>5. CallReply = Abstract(LastAnswer.reply)
  BY <1>2, <1>3, RepliesAssumption DEF CallReply
<1> QED
  BY <1>0, <1>3, <1>4, <1>5, CallFields, AbstractType

\* What may arrive late does not depend on how a call ends.
LEMMA LateAtTheEnd ==
  ASSUME QueuedInv, UNCHANGED << answers, sent, reply >>, pc # "done", pc' # "done"
  PROVE  Late' = Late
<1>1. AnsweredLate' = AnsweredLate
  BY DEF AnsweredLate, Inconclusive, Abstract
<1> QED
  BY <1>1 DEF Late, MayArriveLate, Inconclusive, Abstract

\* Closing the client is invisible, unless it fails.
LEMMA QueuedClose ==
  ASSUME QueuedInv, Close
  PROVE  CallStep \/ UNCHANGED << Call, Late, Status >>
<1>0. /\ Typed /\ RefusalHeld /\ OnRecord /\ pc = "close" /\ pc' = "raise"
      /\ UNCHANGED << answers, reply, outcome, attempt, sent >>
  BY DEF QueuedInv, Close
<1>1. Status = "open" /\ Status' = Status
  BY <1>0, StillOpen DEF Status
<1>2. Late' = Late
  BY <1>0, LateAtTheEnd
<1>3. CASE terminal' = terminal
  <2>1. CallPc' = CallPc /\ CallAttempt' = CallAttempt
    BY <1>0 DEF CallPc, CallAttempt, AfterCut
  <2>2. CallReply' = CallReply
    BY <1>0 DEF CallReply, LastAnswer, Abstract
  <2> QED
    BY <1>0, <1>3, <2>1, <2>2, SameCall
<1>4. CASE terminal'.kind = "transport"
  <2>1. Call' = None
    BY <1>4 DEF Call, Over
  <2>2. CASE Over
    BY <1>1, <1>2, <2>1, <2>2 DEF Call
  <2>3. CASE ~Over
    BY <1>0, <1>1, <1>2, <2>1, <2>3, LastIsSeen, AsAbandon
  <2> QED
    BY <2>2, <2>3
<1> QED
  BY <1>0, <1>3, <1>4 DEF Close, Typed, TypeOK, TerminalType

\* The queue and the client agree on dispositions.
LEMMA SameDisposition ==
  ASSUME NEW status, NEW code
  PROVE  Queue!Disposition(status, code) = Disposition(status, code)
BY DEF Disposition, CodeDisposition, DefaultDisposition, TransientStatus, RetryCodes,
       NewReadCodes, Queue!Disposition, Queue!CodeDisposition, Queue!DefaultDisposition,
       Queue!TransientStatus, Queue!RetryCodes, Queue!NewReadCodes

\* A call whose host has its outcome may leave the late requests it had.
LEMMA LateWhenDone ==
  ASSUME QueuedInv, UNCHANGED << answers, sent, reply >>, Len(answers) = sent,
         pc # "done", pc' = "done"
  PROVE  Late' = Late
<1>1. AnsweredLate' = AnsweredLate
  BY DEF AnsweredLate, Inconclusive, Abstract
<1>2. sent \in Nat
  BY DEF QueuedInv, Typed, TypeOK
<1> QED
  BY <1>1, <1>2 DEF Late, MayArriveLate, Inconclusive, Abstract

\* The host cancels a call: its event stays queued.
LEMMA QueuedCancel ==
  ASSUME QueuedInv, Cancel
  PROVE  CallStep \/ UNCHANGED << Call, Late, Status >>
<1>0. /\ Typed /\ RefusalHeld /\ OnRecord /\ Counted /\ Ledger
      /\ pc \in {"headers", "read", "backoff", "close"} /\ pc # "done" /\ pc' = "done"
      /\ UNCHANGED << answers, reply, sent, terminal >>
      /\ outcome' = [NoOutcome EXCEPT !.kind = "cancelled"]
  BY DEF QueuedInv, Cancel
<1>1. Status = "open"
  BY <1>0, StillOpen
<1>2. Status' = "open"
  BY <1>0, NoneIsNoValue DEF Status, NoOutcome, PrivacyErrorDisposition
<1>3. Call' = None
  BY <1>0 DEF Call, Over, NoOutcome
<1>4. AnsweredLate' = AnsweredLate
  BY <1>0 DEF AnsweredLate, Inconclusive, Abstract
<1>5. CASE pc = "headers"
  <2>1. ~Over
    BY <1>0, <1>5, StillOpen DEF Looping
  <2>2. Call # None /\ Call.pc = "await" /\ Call.reply = None /\ Call.bytes = "bytes"
    BY <1>0, <1>5, <2>1, CallFields DEF CallPc, CallReply, AfterCut
  <2>3. reply = None /\ Len(answers) < sent
    BY <1>0, <1>5 DEF RefusalHeld, Counted, Typed, TypeOK
  <2>4. Late' = Late \cup {[event |-> "event", bytes |-> "bytes"]}
    <3>1. MayArriveLate'
      BY <1>0, <2>3 DEF MayArriveLate
    <3> QED
      BY <3>1 DEF Late
  <2> QED
    BY <1>2, <1>3, <2>2, <2>4, AsAbandon
<1>6. CASE pc = "read"
  <2>1. ~Over /\ reply \in Replies /\ reply # None
    BY <1>0, <1>6, StillOpen, RepliesAssumption DEF Looping, Typed
  <2>2. Call # None /\ Call.pc = "await" /\ Call.reply = Abstract(reply) /\ Call.bytes = "bytes"
    BY <1>0, <1>6, <2>1, CallFields DEF CallPc, CallReply, AfterCut
  <2>3. Call.reply # None
    BY <2>1, <2>2, AbstractType
  <2>4. Late' = Late
    BY <1>0, <1>4, <2>1 DEF Late, MayArriveLate, Inconclusive, Abstract
  <2> QED
    BY <1>2, <1>3, <2>2, <2>3, <2>4, AsAbandon
<1>7. CASE pc = "backoff"
  <2>1. ~Over /\ Len(answers) > 0 /\ answers # << >>
    BY <1>0, <1>7, StillOpen, NoAnswers DEF Looping, Ledger
  <2>2. Call # None /\ Call.bytes = "bytes" /\ Call.reply = CallReply /\ Call.pc = CallPc
    BY <1>0, <2>1, CallFields
  <2>3. Late' = Late
    BY <1>0, <1>7, LateWhenDone DEF Ledger
  <2>4. CASE LastAnswer.cut
    <3>1. Call.pc = "send"
      BY <1>7, <2>2, <2>4 DEF CallPc, AfterCut
    <3> QED
      BY <1>2, <1>3, <2>2, <2>3, <3>1, AsAbandon
  <2>5. CASE ~LastAnswer.cut
    <3>1. Call.pc = "await"
      BY <1>7, <2>2, <2>5 DEF CallPc, AfterCut
    <3>2. LastAnswer.reply \in Replies
      <4>1. LastAnswer.reply # None
        BY <1>0, <2>1, <2>5 DEF Ledger, LastAnswer, Typed, TypeOK
      <4> QED
        BY <1>0, <2>1, <4>1, LastTyped
    <3>3. CallReply = Abstract(LastAnswer.reply)
      BY <1>7, <2>1, <3>2, RepliesAssumption DEF CallReply
    <3>4. Call.reply # None
      BY <2>2, <3>2, <3>3, AbstractType
    <3> QED
      BY <1>2, <1>3, <2>2, <2>3, <3>1, <3>4, AsAbandon
  <2> QED
    BY <2>4, <2>5
<1>8. CASE pc = "close"
  <2>1. Late' = Late
    BY <1>0, <1>8, LateWhenDone DEF Ledger
  <2>2. CASE Over
    BY <1>1, <1>2, <1>3, <2>1, <2>2 DEF Call
  <2>3. CASE ~Over
    BY <1>2, <1>3, <1>8, <2>1, <2>3, LastIsSeen, AsAbandon
  <2> QED
    BY <2>2, <2>3
<1> QED
  BY <1>0, <1>5, <1>6, <1>7, <1>8

\* What the client raises or returns is the queue's verdict.
LEMMA QueuedRaise ==
  ASSUME QueuedInv, \A r \in Replies : Consistent(r), Raise
  PROVE  CallStep \/ UNCHANGED << Call, Late, Status >>
<1>0. /\ Typed /\ RefusalHeld /\ OnRecord /\ Ledger /\ ResultHeld
      /\ pc = "raise" /\ pc # "done" /\ pc' = "done"
      /\ UNCHANGED << answers, reply, sent, terminal, attempt >>
      /\ outcome' = RaisedOrReturned
      /\ ClassifyPrivacyError(method)
  BY QueuedAssumption DEF QueuedInv, Raise
<1>1. Status = "open"
  BY <1>0, StillOpen
<1>2. Late' = Late
  BY <1>0, LateWhenDone DEF Ledger
<1>3. ASSUME outcome'.kind # "result",
             outcome'.disposition \notin {"discard_event", "start_new_read"}
      PROVE  CallStep \/ UNCHANGED << Call, Late, Status >>
  <2>1. Call' = None /\ Status' = "open"
    BY <1>0, <1>3 DEF Call, Over, Status
  <2>2. CASE Over
    BY <1>1, <1>2, <2>1, <2>2 DEF Call
  <2>3. CASE ~Over
    BY <1>0, <1>2, <2>1, <2>3, LastIsSeen, AsAbandon
  <2> QED
    BY <2>2, <2>3
<1>4. NoOutcome.disposition = None /\ None \notin {"discard_event", "start_new_read"}
  BY NoneIsNoValue DEF NoOutcome, PrivacyErrorDisposition
<1>5. /\ terminal.kind \in {"auth", "service", "transport", None}
      /\ None \notin {"auth", "service", "transport"}
  BY <1>0, NoneIsNoKind DEF Typed, TypeOK, TerminalType, OutcomeKinds
<1>6. CASE terminal.kind \in {"auth", "transport"}
  <2>1. outcome'.kind # "result" /\ outcome'.disposition = None
    BY <1>0, <1>4, <1>6 DEF RaisedOrReturned, NoOutcome
  <2> QED
    BY <1>3, <1>4, <2>1
<1>7. CASE terminal.kind = "service"
  <2> DEFINE d == Disposition(terminal.status, error.code)
  <2>1. outcome'.kind = "privacy_operation" /\ outcome'.disposition = d
    BY <1>0, <1>7 DEF RaisedOrReturned, ServiceError, PrivacyOperationError
  <2>2. CASE d \notin {"discard_event", "start_new_read"}
    BY <1>3, <2>1, <2>2
  <2>3. CASE d \in {"discard_event", "start_new_read"}
    <3>1. ~Over
      BY <1>0, <1>5, <1>7 DEF Over
    <3>2. /\ Call # None /\ Call.pc = "await" /\ LastAnswer.reply \in Replies
          /\ Call.reply = Abstract(LastAnswer.reply) /\ Call.reply # None
          /\ Call.terminal_status = KeptStatus
      BY <1>0, <3>1, LastIsSeen
    <3>3. Call' = None /\ Status' = "dropped"
      BY <1>0, <2>1, <2>3 DEF Call, Over, Status
    <3>4. d # "retry_same_event"
      BY <2>3
    <3>5. CASE RefusedLast
      <4> DEFINE r == LastAnswer.reply
      <4>1. ~IsSuccess(r.status) /\ terminal.status = r.status /\ error.code = ClassifiedCode(r)
        BY <3>5 DEF RefusedLast
      <4>2. FinalRefusal(r)
        <5>1. r.status \notin {401, 403}
          BY <1>0, <1>7, <4>1 DEF OnRecord
        <5>2. ASSUME TransientStatus(r.status) PROVE FALSE
          <6>1. ClassifiedCode(r) \in RetryCodes \cup {None}
            BY <3>2, <5>2 DEF Consistent
          <6>2. d = "retry_same_event"
            BY <4>1, <5>2, <6>1, NoneIsNoValue
               DEF Disposition, CodeDisposition, DefaultDisposition, PrivacyOperationErrorCode
          <6> QED
            BY <3>4, <6>2
        <5> QED
          BY <4>1, <5>1, <5>2 DEF FinalRefusal, Undecided
      <4>3. Call.reply = QueueReply(409, ClassifiedCode(r))
        BY <3>2, <4>2, AbstractType
      <4>4. Call.reply.status = 409 /\ Call.reply.code = ClassifiedCode(r)
        BY <4>3 DEF QueueReply
      <4>5. Disposition(409, ClassifiedCode(r)) = d
        <5>1. ~TransientStatus(r.status) /\ ~TransientStatus(409)
          BY <4>2 DEF FinalRefusal, Undecided, TransientStatus
        <5> QED
          BY <4>1, <5>1 DEF Disposition, DefaultDisposition
      <4>6. Queue!Disposition(409, Call.reply.code) # "retry_same_event"
        BY <3>4, <4>4, <4>5, SameDisposition
      <4> QED
        BY <1>2, <3>2, <3>3, <4>4, <4>6, AsDrop
    <3>6. CASE IsSuccess(LastAnswer.reply.status) /\ KeptOnRecord
      <4>1. error.code = None
        BY <1>0, <3>6 DEF RefusalHeld, CodeShown, Evidence
      <4>2. ~TransientStatus(terminal.status)
        BY <3>4, <4>1 DEF Disposition, DefaultDisposition
      <4>3. PICK i \in 1..Len(answers) :
              answers[i].cut /\ answers[i].reply # None /\ answers[i].reply.status = terminal.status
        BY <3>6 DEF KeptOnRecord
      <4>4. ~IsSuccess(terminal.status)
        <5>1. Shown
          BY <1>0, <1>7, NoneIsNoReply DEF RefusalHeld, Evidence, Answer
        <5> QED
          BY <5>1 DEF Shown, Evidence
      <4>5. Kept(answers[i])
        BY <1>0, <1>7, <4>2, <4>3, <4>4 DEF Kept, FinalRefusal, Undecided, OnRecord
      <4>6. Call.terminal_status = 409
        BY <3>2, <4>5 DEF KeptStatus
      <4>7. Call.reply.status = 200
        BY <3>2, <3>6, AbstractType DEF QueueReply
      <4>8. Queue!Disposition(409, None) # "retry_same_event"
        BY SameDisposition DEF Disposition, DefaultDisposition, TransientStatus
      <4>9. Queue!Disposition(Call.terminal_status, None) # "retry_same_event"
        BY <4>6, <4>8
      <4>10. 409 # None
        BY NoneIsNoValue
      <4> QED
        BY <1>2, <3>2, <3>3, <4>6, <4>7, <4>9, <4>10, AsDrop
    <3> QED
      BY <1>0, <1>7, <3>5, <3>6 DEF OnRecord
  <2> QED
    BY <2>2, <2>3
<1>8. CASE terminal.kind = None
  <2>1. outcome' = [NoOutcome EXCEPT !.kind = IF HasResult THEN "result" ELSE "protocol"]
    BY <1>0, <1>5, <1>8 DEF RaisedOrReturned
  <2>2. CASE ~HasResult
    <3>1. outcome'.kind = "protocol" /\ outcome'.disposition = None
      BY <2>1, <2>2 DEF NoOutcome
    <3> QED
      BY <1>3, <1>4, <3>1
  <2>3. CASE HasResult
    <3>1. outcome'.kind = "result" /\ outcome'.disposition = None
      BY <2>1, <2>3 DEF NoOutcome
    <3>2. ~Over /\ ~Over' /\ Status' = "open"
      BY <1>0, <1>4, <1>5, <1>8, <3>1 DEF Over, Status
    <3>3. /\ Call # None /\ Call.pc = "await" /\ LastAnswer.reply \in Replies
          /\ Call.reply = Abstract(LastAnswer.reply) /\ Call.reply # None
          /\ Call.terminal_status = KeptStatus
          /\ Call = [ bytes |-> "bytes", attempt |-> CallAttempt, pc |-> "await",
                      reply |-> CallReply, terminal_status |-> KeptStatus ]
      BY <1>0, <3>2, LastIsSeen
    <3>4. Call.reply.status = 200
      <4>1. IsSuccess(LastAnswer.reply.status)
        BY <1>0, <1>8 DEF OnRecord
      <4> QED
        BY <3>3, <4>1, AbstractType DEF QueueReply
    <3>5. Call.terminal_status = None
      BY <1>0, <1>8, <3>3 DEF OnRecord, KeptStatus
    <3>6. Call' = [Call EXCEPT !.pc = "result"]
      <4>1. KeptStatus' = KeptStatus
        BY <1>0 DEF KeptStatus, Kept, FinalRefusal, Undecided, IsSuccess, TransientStatus
      <4>2. CallPc' = "result" /\ CallAttempt' = CallAttempt
        BY <1>0 DEF CallPc, CallAttempt, AfterCut
      <4>3. CallReply' = CallReply
        BY <1>0 DEF CallReply, LastAnswer, Abstract
      <4>4. Call' = [ bytes |-> "bytes", attempt |-> CallAttempt, pc |-> "result",
                      reply |-> CallReply, terminal_status |-> KeptStatus ]
        BY <3>2, <4>1, <4>2, <4>3 DEF Call
      <4> QED
        BY <3>3, <4>4
    <3>7. Status' = Status
      BY <1>1, <3>2
    <3> QED
      BY <1>2, <3>3, <3>4, <3>5, <3>6, <3>7, AsResult
  <2> QED
    BY <2>2, <2>3
<1> QED
  BY <1>5, <1>6, <1>7, <1>8

\* The call of a queued operation begins as the queue's.
LEMMA QueuedCallInit ==
  ASSUME Typed, Init
  PROVE  Late = {} /\ Status = "open" /\ Call = Queue!NewCall("bytes")
<1>0. /\ pc = "begin" /\ Len(answers) = 0 /\ answers = << >> /\ reply = None
      /\ attempt = 0 /\ terminal.kind = None /\ outcome.disposition = None
  BY DEF Init, NoTerminal, NoOutcome
<1>1. ~Over
  BY <1>0, NoneIsNoKind DEF Over, OutcomeKinds
<1>2. CallPc = "send" /\ CallAttempt = 0 /\ CallReply = None /\ KeptStatus = None
  BY <1>0 DEF CallPc, CallAttempt, AfterCut, CallReply, KeptStatus
<1>3. Call = Queue!NewCall("bytes")
  BY <1>1, <1>2 DEF Call, Queue!NewCall
<1>4. Late = {}
  BY <1>0 DEF Late, MayArriveLate, AnsweredLate
<1>5. Status = "open"
  BY <1>0, NoneIsNoValue DEF Status, PrivacyErrorDisposition
<1> QED
  BY <1>3, <1>4, <1>5

\* Every step of the call is a step of the queue's call, or invisible.
LEMMA QueuedCallNext ==
  ASSUME QueuedInv, \A r \in Replies : Consistent(r), [Next]_vars
  PROVE  CallStep \/ UNCHANGED Queue!queueVars
<1>1. ASSUME UNCHANGED vars PROVE UNCHANGED << Call, Late, Status >>
  <2>1. CallPc' = CallPc /\ CallAttempt' = CallAttempt /\ CallReply' = CallReply
    BY <1>1 DEF vars, CallPc, CallAttempt, AfterCut, CallReply, LastAnswer, Abstract
  <2>2. KeptStatus' = KeptStatus /\ AnsweredLate' = AnsweredLate
    BY <1>1 DEF vars, KeptStatus, Kept, FinalRefusal, Undecided, IsSuccess, TransientStatus,
                AnsweredLate, Inconclusive, Abstract
  <2> QED
    BY <1>1, <2>1, <2>2 DEF vars, Call, Over, Late, MayArriveLate, Inconclusive, Abstract, Status
<1>2. CallStep \/ UNCHANGED << Call, Late, Status >>
  BY <1>1, EndsUnsent, QueuedOpen, QueuedTransmit, QueuedHeaders, QueuedRead, QueuedCut,
     QueuedBackoff, QueuedClose, QueuedRaise, QueuedCancel DEF Next, Progress
<1> QED
  BY <1>2, AsStutter

(***************************************************************************)
(* Whatever a call of a queued operation goes through - statement by       *)
(* statement, for every number of attempts and whatever the answers, as    *)
(* long as a transient status comes with no final code - a durable queue   *)
(* sees it begin as DurableQueue's NewCall and take its steps alone: what  *)
(* the queue models assume of the client is what the client does.          *)
(***************************************************************************)
THEOREM CallIsTheQueues ==
  ASSUME \A r \in Replies : Consistent(r)
  PROVE  QueuedSpec => ImplementsQueuedCall
<1>1. QueuedInit => QueuedInv
  BY TypedInit, CountedInit, ResultHeldInit, RefusalHeldInit, LedgerInit, OnRecordInit
     DEF QueuedInit, QueuedInv
<1>2. QueuedInv /\ [Next]_vars => QueuedInv'
  <2> SUFFICES ASSUME QueuedInv, [Next]_vars PROVE QueuedInv'
    OBVIOUS
  <2>1. method' = method
    BY DEF Next, Progress, RejectOversize, FailToOpen, Open, Transmit, ReceiveHeaders,
           HeadersRetry, HeadersAuth, HeadersFailure, HeadersClassify, HeadersSuccess,
           ReadError, ReadResult, TransportError, Backoff, Close, Raise, Cancel, vars
  <2>2. ClassifyPrivacyError(method)
    BY QueuedAssumption DEF QueuedInv
  <2> QED
    BY <2>1, <2>2, TypedNext, CountedNext, ResultHeldNext, RefusalHeldNext, LedgerNext,
       OnRecordNext DEF QueuedInv
<1>3. QueuedInit => Late = {} /\ Status = "open" /\ Call = Queue!NewCall("bytes")
  BY TypedInit, QueuedCallInit DEF QueuedInit
<1>4. QueuedInv /\ [Next]_vars => [CallStep]_(Queue!queueVars)
  BY QueuedCallNext
<1> QED
  BY <1>1, <1>2, <1>3, <1>4, PTL DEF QueuedSpec, ImplementsQueuedCall
=============================================================================
