------------------------ MODULE CommentDeliveryProofs -----------------------
(***************************************************************************)
(* What CommentDelivery promises for any events, attempts, crashes and     *)
(* epochs, of a host that marks before it shows and of one that marks      *)
(* after.                                                                  *)
(***************************************************************************)
EXTENDS CommentDelivery, DurableQueueProofs

USE CommentAssumption

(***************************************************************************)
(* The first inductive invariant: deciding.  Pack will not decide for an   *)
(* event again if it has, or if the account has moved past its epoch.      *)
(***************************************************************************)
Final(e) == decisions[e] # None \/ queue[e].facts # epoch

\* An event's facts are of an epoch the account has reached.
Captured(e) ==
  queue[e] # None => queue[e].client_event_id = e /\ queue[e].facts <= epoch

\* A decision under an event's id is for the event's one payload.
Decided(e) ==
  decisions[e] # None => queue[e] # None /\ decisions[e].bytes = queue[e]

Counted(e) == decided[e] = IF decisions[e] = None THEN 0 ELSE 1

\* An answer is the decision, or a refusal that is no conflict.
Truthful(e, reply) ==
  /\ reply.status = 200 =>
       /\ decisions[e] # None
       /\ reply.result.decision_id = e
       /\ reply.result.legs = decisions[e].legs
  /\ Refused(reply) => Final(e)
  /\ reply.code # "privacy_event_conflict"

Answered(e) ==
  call[e] # None /\ call[e].reply # None => Truthful(e, call[e].reply)

Ended(e) ==
  /\ status[e] = "settled" => decisions[e] # None
  /\ status[e] = "dropped" => Final(e)

PerEvent(e) == Captured(e) /\ Decided(e) /\ Counted(e) /\ Answered(e) /\ Ended(e)

Inv ==
  /\ TypeOK
  /\ QueueSound
  /\ \A e \in Events : PerEvent(e)

(***************************************************************************)
(* The second: showing.  What is marked was shown, or will be once more at *)
(* most; only a crash between showing and marking is worth a repetition.   *)
(***************************************************************************)
Shows(e) == call[e] # None /\ call[e].pc = "present"
Done(e) == status[e] = "settled" \/ (call[e] # None /\ call[e].pc = "delete")

Allowance == IF MarkFirst THEN 0 ELSE crashes

MarkedInTime(e) ==
  /\ todo[e] # {} => Shows(e)
  /\ MarkFirst /\ Shows(e) => e \in marks
  /\ ~MarkFirst /\ Done(e) => e \in marks

Complete(e) ==
  ~MarkFirst =>
    /\ Shows(e) => /\ decisions[e] # None
                   /\ \A leg \in decisions[e].legs : leg \in todo[e] \/ shown[e][leg] > 0
    /\ e \in marks => /\ decisions[e] # None
                      /\ \A leg \in decisions[e].legs : shown[e][leg] > 0

Sparing(e) ==
  \A leg \in Legs :
    /\ shown[e][leg] <= 1 + Allowance
    /\ leg \in todo[e] \/ (e \notin marks /\ ~Shows(e)) => shown[e][leg] <= Allowance

ShowInv == \A e \in Events : MarkedInTime(e) /\ Complete(e) /\ Sparing(e)

-----------------------------------------------------------------------------
\* An answer that says nothing final is no success, refusal or conflict.
LEMMA TransientIsNotFinal ==
  ASSUME NEW reply \in Transient
  PROVE  /\ reply.status # 200 /\ ~Refused(reply)
         /\ reply.code # "privacy_event_conflict"
BY NoneIsNoValue
   DEF Transient, Busy, Unavailable, Reply, Refused, Disposition, CodeDisposition,
       RetryCodes, NewReadCodes, DefaultDisposition, TransientStatus,
       PrivacyOperationErrorCode

\* An event's bytes and a decision are something.
LEMMA Values ==
  /\ \A b \in Bytes : b # None /\ b.client_event_id \in UUIDs /\ b.facts \in Epochs
  /\ \A d \in Decisions : d # None /\ d.bytes \in Bytes /\ d.legs \in SUBSET Legs
  /\ \A i \in Epochs : i \in Nat
BY NoneIsNoEvent, NoneIsNoDecision DEF Bytes, Decisions, Epochs

\* Restoring an event from its bytes gives the bytes back.
LEMMA Restored ==
  ASSUME NEW b \in Bytes
  PROVE  FromRequestBytes(b) = b
BY DEF FromRequestBytes, CommentEvent, Bytes

\* The initial states satisfy the first invariant.
LEMMA InvInit == Init => Inv
<1> SUFFICES ASSUME Init PROVE Inv
  OBVIOUS
<1>1. QueueTypeOK(Bytes, Answers) /\ QueueSound
  BY InitSound DEF Init
<1>2. TypeOK
  <2>1. epoch \in Epochs /\ marks \subseteq UUIDs
    BY DEF Init, Epochs
  <2>2. decisions \in [UUIDs -> Decisions \cup {None}] /\ decided \in [Events -> Nat]
    BY DEF Init
  <2>3. todo \in [Events -> SUBSET Legs] /\ shown \in [Events -> [Legs -> Nat]]
    BY DEF Init
  <2> QED
    BY <1>1, <2>1, <2>2, <2>3 DEF TypeOK
<1>3. ASSUME NEW e \in Events PROVE PerEvent(e)
  <2>1. queue[e] = None /\ call[e] = None /\ status[e] = "open"
    BY DEF Init, InitQueue
  <2>2. decisions[e] = None /\ decided[e] = 0
    BY DEF Init
  <2> QED
    BY <2>1, <2>2 DEF PerEvent, Captured, Decided, Counted, Answered, Ended
<1> QED
  BY <1>1, <1>2, <1>3 DEF Inv

(***************************************************************************)
(* Pack's side only grows: the epoch advances, and a decision is only added*)
(* for an event that was not final.                                        *)
(***************************************************************************)
Forward ==
  /\ epoch <= epoch'
  /\ \A f \in Events : decisions'[f] # decisions[f] => ~Final(f)

LEMMA StaysFinal ==
  ASSUME Inv, Forward, epoch' \in Nat,
         NEW e \in Events, queue[e] # None, queue'[e] = queue[e]
  PROVE  /\ Final(e) => Final(e)' /\ decisions'[e] = decisions[e]
         /\ Captured(e)'
         /\ decisions[e] # None => decisions'[e] = decisions[e]
<1>1. /\ queue[e].client_event_id = e /\ queue[e].facts <= epoch
      /\ queue[e].facts \in Nat /\ epoch \in Nat
  BY Values DEF Inv, PerEvent, Captured, TypeOK, QueueTypeOK
<1>2. Final(e) => decisions'[e] = decisions[e]
  BY DEF Forward
<1>3. decisions[e] # None => decisions'[e] = decisions[e]
  BY <1>2 DEF Final
<1>4. queue[e].facts # epoch => queue'[e].facts # epoch'
  BY <1>1 DEF Forward
<1>5. Captured(e)'
  <2>1. queue[e].facts <= epoch'
    BY <1>1 DEF Forward
  <2> QED
    BY <1>1, <2>1 DEF Captured
<1>6. Final(e) => Final(e)'
  <2>1. CASE decisions[e] # None
    <3>1. decisions'[e] # None
      BY <1>3, <2>1
    <3> QED
      BY <3>1 DEF Final
  <2>2. CASE queue[e].facts # epoch
    BY <1>4, <2>2 DEF Final
  <2> QED
    BY <2>1, <2>2 DEF Final
<1>7. Final(e) => Final(e)' /\ decisions'[e] = decisions[e]
  BY <1>2, <1>6, Zenon
<1> QED
  BY <1>3, <1>5, <1>7, Zenon

\* A step that brings a call nothing new keeps the invariant.
LEMMA NothingNewKeeps ==
  ASSUME Inv, NothingNew, QueueTypeOK(Bytes, Answers)', QueueSound',
         UNCHANGED << packVars, hostVars >>
  PROVE  Inv'
<1>1. UNCHANGED << queue, epoch, decisions, decided, marks, todo, shown >>
  BY DEF NothingNew, packVars, hostVars
<1>2. TypeOK'
  BY <1>1 DEF Inv, TypeOK
<1>3. ASSUME NEW e \in Events PROVE PerEvent(e)'
  <2>1. PerEvent(e)
    BY DEF Inv
  <2>2. Captured(e)' /\ Decided(e)' /\ Counted(e)'
    BY <1>1, <2>1 DEF PerEvent, Captured, Decided, Counted
  <2>3. Answered(e)'
    <3> SUFFICES ASSUME call'[e] # None, call'[e].reply # None
                 PROVE  Truthful(e, call[e].reply)'
      BY DEF Answered
    <3>1. call[e] # None /\ call'[e].reply = call[e].reply
      BY DEF NothingNew
    <3>2. Truthful(e, call[e].reply)
      BY <2>1, <3>1 DEF PerEvent, Answered
    <3> QED
      BY <1>1, <3>1, <3>2 DEF Truthful, Final
  <2>4. Ended(e)'
    <3>1. CASE status'[e] = status[e]
      BY <1>1, <2>1, <3>1 DEF PerEvent, Ended, Final
    <3>2. CASE status'[e] # status[e]
      <4>1. /\ status'[e] = "dropped" /\ call[e] # None /\ call[e].reply # None
            /\ Refused(call[e].reply)
        BY <3>2 DEF NothingNew
      <4>2. Final(e)
        BY <2>1, <4>1 DEF PerEvent, Answered, Truthful
      <4> QED
        BY <1>1, <4>1, <4>2 DEF Ended, Final
    <3> QED
      BY <3>1, <3>2
  <2> QED
    BY <2>2, <2>3, <2>4 DEF PerEvent
<1> QED
  BY <1>2, <1>3 DEF Inv

(***************************************************************************)
(* Pack moves on while the queue stays as it is; a call gets no answer but *)
(* a true one, and only a decided event is settled.                        *)
(***************************************************************************)
LEMMA ForwardKeeps ==
  ASSUME Inv, Forward, TypeOK', QueueSound', UNCHANGED queue,
         \A f \in Events : Counted(f)' /\ Decided(f)',
         \A f \in Events : status'[f] # status[f] =>
           status'[f] = "settled" /\ decisions[f] # None /\ queue[f] # None,
         \A f \in Events : call'[f] # None =>
           /\ call[f] # None
           /\ call'[f].reply # None =>
                call'[f].reply = call[f].reply \/ Truthful(f, call[f].reply)'
  PROVE  Inv'
<1>0. epoch' \in Nat
  BY DEF TypeOK, Epochs
<1>1. ASSUME NEW e \in Events PROVE PerEvent(e)'
  <2>1. PerEvent(e)
    BY DEF Inv
  <2>2. Captured(e)'
    <3>1. CASE queue[e] = None
      BY <3>1 DEF Captured
    <3>2. CASE queue[e] # None
      BY <1>0, <3>2, StaysFinal
    <3> QED
      BY <3>1, <3>2
  <2>3. Answered(e)'
    <3> SUFFICES ASSUME call'[e] # None, call'[e].reply # None
                 PROVE  Truthful(e, call[e].reply)'
      BY DEF Answered
    <3>1. call[e] # None /\ queue[e] # None
      BY DEF Inv, QueueSound, CallSound
    <3>2. /\ Final(e) => Final(e)' /\ decisions'[e] = decisions[e]
          /\ decisions[e] # None => decisions'[e] = decisions[e]
      BY <1>0, <3>1, StaysFinal
    <3>3. CASE call'[e].reply = call[e].reply
      <4> DEFINE reply == call[e].reply
      <4>1. Truthful(e, reply)
        BY <2>1, <3>1, <3>3 DEF PerEvent, Answered
      <4>2. /\ reply.status = 200 => /\ decisions[e] # None
                                     /\ reply.result.decision_id = e
                                     /\ reply.result.legs = decisions[e].legs
            /\ Refused(reply) => Final(e)
            /\ reply.code # "privacy_event_conflict"
        BY <4>1 DEF Truthful
      <4>3. /\ reply.status = 200 => /\ decisions'[e] # None
                                     /\ reply.result.decision_id = e
                                     /\ reply.result.legs = decisions'[e].legs
            /\ Refused(reply) => Final(e)'
        BY <3>2, <4>2
      <4> QED
        BY <3>3, <4>2, <4>3 DEF Truthful
    <3> QED
      BY <3>1, <3>3
  <2>4. Ended(e)'
    <3>1. status[e] # "open" \/ status'[e] # status[e] => queue[e] # None
      BY DEF Inv, QueueSound
    <3>2. queue[e] # None => /\ Final(e) => Final(e)'
                             /\ decisions[e] # None => decisions'[e] = decisions[e]
      BY <1>0, StaysFinal
    <3> QED
      BY <2>1, <3>1, <3>2 DEF PerEvent, Ended
  <2> QED
    BY <2>2, <2>3, <2>4 DEF PerEvent
<1> QED
  BY <1>1 DEF Inv

\* A step of the host or of the account's epoch that brings no answer.
LEMMA QuietKeeps ==
  ASSUME Inv, TypeOK', QueueSound', UNCHANGED << queue, decisions, decided >>,
         epoch <= epoch',
         \A f \in Events : status'[f] # status[f] =>
           status'[f] = "settled" /\ decisions[f] # None /\ queue[f] # None,
         \A f \in Events : call'[f] # None =>
           /\ call[f] # None
           /\ call'[f].reply = call[f].reply \/ call'[f].reply \in Transient
  PROVE  Inv'
<1>1. Forward
  BY DEF Forward
<1>2. \A f \in Events : Counted(f)' /\ Decided(f)'
  BY DEF Inv, PerEvent, Counted, Decided
<1>3. \A f \in Events : call'[f] # None =>
        /\ call[f] # None
        /\ call'[f].reply # None =>
             call'[f].reply = call[f].reply \/ Truthful(f, call[f].reply)'
  BY TransientIsNotFinal DEF Truthful
<1> QED
  BY <1>1, <1>2, <1>3, ForwardKeeps

(***************************************************************************)
(* Pack handles a request of a queued event: it answers truly, or decides  *)
(* for an event that was not final.                                        *)
(***************************************************************************)
LEMMA HandleEffect ==
  ASSUME Inv, NEW e \in Events, queue[e] # None, NEW answer \in Answers,
         Handle(e, queue[e], answer)
  PROVE  \/ UNCHANGED packVars /\ Truthful(e, answer)
         \/ /\ decisions[e] = None /\ ~Final(e) /\ decided[e] = 0
            /\ decided' = [decided EXCEPT ![e] = 1] /\ epoch' = epoch
            /\ \E d \in Decisions :
                 /\ decisions' = [decisions EXCEPT ![e] = d]
                 /\ d.bytes = queue[e]
                 /\ answer.result.decision_id = e
                 /\ answer.result.legs = d.legs
            /\ answer.code # "privacy_event_conflict"
<1> DEFINE b == queue[e]
<1>1. b.client_event_id = e /\ Decided(e) /\ Counted(e) /\ b \in Bytes
  BY DEF Inv, PerEvent, Captured, TypeOK, QueueTypeOK
<1>2. None # "privacy_event_conflict"
  BY NoneIsNoValue DEF PrivacyOperationErrorCode
<1>3. CASE Replay(b, answer)
  <2>1. UNCHANGED packVars /\ decisions[e] # None
    BY <1>1, <1>3 DEF Replay
  <2>2. /\ answer.code = None /\ answer.result.decision_id = e
        /\ answer.result.legs = decisions[e].legs
    BY <1>1, <1>3 DEF Replay, Reply, CommentResult
  <2> QED
    BY <1>2, <2>1, <2>2 DEF Truthful, Final
<1>4. CASE Conflict(b, answer)
  BY <1>1, <1>4 DEF Conflict, Decided
<1>5. CASE RefuseStale(b, answer)
  <2>1. UNCHANGED packVars /\ b.facts # epoch
    BY <1>5 DEF RefuseStale
  <2>2. answer.status = 409 /\ answer.code = "stale_privacy_generation"
    BY <1>5 DEF RefuseStale, Reply
  <2> QED
    BY <2>1, <2>2 DEF Truthful, Final
<1>6. CASE Decide(e, b, answer)
  <2>1. /\ decisions[e] = None /\ b.facts = epoch /\ epoch' = epoch
        /\ decided' = [decided EXCEPT ![e] = decided[e] + 1]
    BY <1>1, <1>6 DEF Decide
  <2>2. decided[e] = 0 /\ decided' = [decided EXCEPT ![e] = 1]
    BY <1>1, <2>1 DEF Counted
  <2>3. PICK legs \in SUBSET Legs :
          /\ decisions' = [decisions EXCEPT ![e] = [bytes |-> b, legs |-> legs]]
          /\ answer = Reply(200, None, CommentResult(e, legs, FALSE))
    BY <1>1, <1>6 DEF Decide
  <2> DEFINE d == [bytes |-> b, legs |-> legs]
  <2>4. d \in Decisions /\ d.bytes = b /\ d.legs = legs
    BY <1>1 DEF Decisions
  <2>5. /\ answer.code = None /\ answer.result.decision_id = e
        /\ answer.result.legs = legs
    BY <2>3 DEF Reply, CommentResult
  <2>6. ~Final(e)
    BY <2>1 DEF Final
  <2>7. decisions' = [decisions EXCEPT ![e] = d]
    BY <2>3
  <2> HIDE DEF d
  <2> QED
    BY <1>2, <2>1, <2>2, <2>4, <2>5, <2>6, <2>7
<1> QED
  BY <1>3, <1>4, <1>5, <1>6 DEF Handle

\* Pack decides for a queued event, or answers it from what it knows.
LEMMA PackKeeps ==
  ASSUME Inv, NEW e \in Events, queue[e] # None, NEW answer \in Answers,
         Handle(e, queue[e], answer),
         UNCHANGED << hostVars, queue, status >>,
         QueueTypeOK(Bytes, Answers)', QueueSound',
         \A f \in Events : call'[f] # None =>
           /\ call[f] # None
           /\ call'[f].reply = call[f].reply \/ (f = e /\ call'[f].reply = answer)
  PROVE  /\ Inv'
         /\ \A f \in Events : decisions[f] # None => decisions'[f] = decisions[f]
<1>0. UNCHANGED << marks, todo, shown, queue, status >> /\ epoch \in Nat
  BY Values DEF hostVars, Inv, TypeOK
<1>1. ASSUME Truthful(e, answer)'
      PROVE  \A f \in Events : call'[f] # None =>
               /\ call[f] # None
               /\ call'[f].reply # None =>
                    call'[f].reply = call[f].reply \/ Truthful(f, call[f].reply)'
  <2> SUFFICES ASSUME NEW f \in Events, call'[f] # None
               PROVE  call'[f].reply = call[f].reply \/ Truthful(f, call[f].reply)'
    OBVIOUS
  <2>1. CASE f = e /\ call'[f].reply = answer
    BY <1>1, <2>1 DEF Truthful
  <2> QED
    BY <2>1
<1>2. CASE UNCHANGED packVars /\ Truthful(e, answer)
  <2>1. UNCHANGED << epoch, decisions, decided >>
    BY <1>2 DEF packVars
  <2>2. Forward
    BY <1>0, <2>1 DEF Forward
  <2>3. TypeOK'
    BY <1>0, <2>1 DEF Inv, TypeOK
  <2>4. \A f \in Events : Counted(f)' /\ Decided(f)'
    BY <1>0, <2>1 DEF Inv, PerEvent, Counted, Decided
  <2>5. Truthful(e, answer)'
    BY <1>0, <1>2, <2>1 DEF Truthful, Final
  <2> QED
    BY <1>0, <1>1, <2>1, <2>2, <2>3, <2>4, <2>5, ForwardKeeps
<1>3. CASE /\ decisions[e] = None /\ ~Final(e) /\ decided[e] = 0
           /\ decided' = [decided EXCEPT ![e] = 1] /\ epoch' = epoch
           /\ \E d \in Decisions :
                /\ decisions' = [decisions EXCEPT ![e] = d]
                /\ d.bytes = queue[e]
                /\ answer.result.decision_id = e
                /\ answer.result.legs = d.legs
           /\ answer.code # "privacy_event_conflict"
  <2>1. PICK d \in Decisions : /\ decisions' = [decisions EXCEPT ![e] = d]
                               /\ d.bytes = queue[e]
                               /\ answer.result.decision_id = e
                               /\ answer.result.legs = d.legs
    BY <1>3
  <2>2. d # None
    BY Values
  <2>3. \A f \in Events : /\ decisions'[f] = IF f = e THEN d ELSE decisions[f]
                          /\ decided'[f] = IF f = e THEN 1 ELSE decided[f]
    BY <1>3, <2>1 DEF Inv, TypeOK
  <2>4. Forward
    BY <1>0, <1>3, <2>3 DEF Forward
  <2>5. TypeOK'
    <3>1. decisions' \in [UUIDs -> Decisions \cup {None}] /\ decided' \in [Events -> Nat]
      BY <1>3, <2>1 DEF Inv, TypeOK
    <3> QED
      BY <1>0, <1>3, <3>1 DEF Inv, TypeOK
  <2>6. \A f \in Events : Counted(f)' /\ Decided(f)'
    BY <1>0, <2>1, <2>2, <2>3 DEF Inv, PerEvent, Counted, Decided
  <2>7. Truthful(e, answer)'
    <3>1. decisions'[e] = d /\ Final(e)'
      BY <2>2, <2>3 DEF Final
    <3> QED
      BY <1>3, <2>1, <2>2, <3>1 DEF Truthful
  <2>8. \A f \in Events : decisions[f] # None => decisions'[f] = decisions[f]
    BY <1>3, <2>3
  <2> QED
    BY <1>0, <1>1, <2>4, <2>5, <2>6, <2>7, <2>8, ForwardKeeps
<1> QED
  BY <1>2, <1>3, HandleEffect

-----------------------------------------------------------------------------
\* A new event's facts are of an epoch there has been.
LEMMA CreateKeeps ==
  ASSUME Inv, NEW e \in Events, Create(e)
  PROVE  Inv'
<1>0. QueueTypeOK(Bytes, Answers) /\ QueueSound /\ PerEvent(e) /\ epoch \in 0..EpochLimit
  BY DEF Inv, TypeOK, Epochs
<1>1. PICK known \in 0..epoch : Alone(Enqueue(e, CommentEvent(e, known)))
  BY DEF Create
<1> DEFINE b == CommentEvent(e, known)
<1>2. /\ Enqueue(e, b)
      /\ UNCHANGED << epoch, decisions, decided, marks, todo, shown >>
  BY <1>1 DEF Alone, packVars, hostVars
<1>3. b \in Bytes /\ b.client_event_id = e /\ b.facts <= epoch
  BY <1>0 DEF CommentEvent, Bytes, Epochs
<1> HIDE DEF b
<1>4. /\ QueueTypeOK(Bytes, Answers)' /\ QueueSound'
      /\ queue[e] = None /\ queue' = [queue EXCEPT ![e] = b]
      /\ UNCHANGED << late, status, call, crashes >>
  BY <1>0, <1>2, <1>3, EnqueueKeeps, NoneIsNoEvent
<1>5. \A f \in Events : queue'[f] = IF f = e THEN b ELSE queue[f]
  BY <1>0, <1>4 DEF QueueTypeOK
<1>6. PerEvent(e)'
  <2>1. call[e] = None /\ status[e] = "open" /\ decisions[e] = None
    BY <1>0, <1>4 DEF QueueSound, CallSound, PerEvent, Decided
  <2>2. Captured(e)'
    BY <1>2, <1>3, <1>5 DEF Captured
  <2> QED
    BY <1>0, <1>2, <1>4, <2>1, <2>2 DEF PerEvent, Decided, Counted, Answered, Ended
<1>7. ASSUME NEW f \in Events, f # e PROVE PerEvent(f)'
  <2>1. PerEvent(f) /\ queue'[f] = queue[f]
    BY <1>5, <1>7 DEF Inv
  <2> QED
    BY <1>2, <1>4, <2>1
       DEF PerEvent, Captured, Decided, Counted, Answered, Truthful, Final, Ended
<1>8. TypeOK'
  BY <1>2, <1>4 DEF Inv, TypeOK
<1> QED
  BY <1>4, <1>6, <1>7, <1>8 DEF Inv

\* Going on with a decision the host has adds nothing to it.
LEMMA ProceedDecided ==
  ASSUME Inv, NEW e \in Events, NEW from \in {"result", "present"},
         NEW to \in {"present", "delete"}, Proceed(e, from, to),
         UNCHANGED packVars, marks' \subseteq UUIDs,
         todo' \in [Events -> SUBSET Legs], shown' \in [Events -> [Legs -> Nat]]
  PROVE  Inv'
<1>1. QueueTypeOK(Bytes, Answers) /\ QueueSound
  BY DEF Inv, TypeOK
<1>2. /\ QueueTypeOK(Bytes, Answers)' /\ QueueSound'
      /\ UNCHANGED << queue, status, late, crashes >>
      /\ \A f \in Events : call'[f] # None =>
           call[f] # None /\ call'[f].reply = call[f].reply
  BY <1>1, ProceedKeeps
<1>3. UNCHANGED << epoch, decisions, decided >>
  BY DEF packVars
<1>4. TypeOK' /\ epoch <= epoch'
  BY <1>2, <1>3, Values DEF Inv, TypeOK
<1> QED
  BY <1>2, <1>3, <1>4, QuietKeeps

\* A decision the host goes on with is the one of its call's event.
LEMMA ResultIsDecision ==
  ASSUME Inv, NEW e \in Events, call[e] # None,
         call[e].pc \in {"result", "present", "delete"}
  PROVE  /\ decisions[e] # None
         /\ call[e].reply.result.decision_id = e
         /\ call[e].reply.result.legs = decisions[e].legs
BY DEF Inv, QueueSound, CallSound, Successful, PerEvent, Answered, Truthful

\* The host's steps.
LEMMA HostKeeps ==
  ASSUME Inv, NEW e \in Events, HostStep(e)
  PROVE  Inv'
<1> USE DEF Alone
<1>0. /\ QueueTypeOK(Bytes, Answers) /\ QueueSound /\ TypeOK /\ e \in UUIDs
      /\ epoch \in Nat
  BY Values DEF Inv, TypeOK
<1>1. CASE Redeliver(e)
  <2>1. queue[e] \in Bytes
    BY <1>0, <1>1 DEF Redeliver, Deliver, QueueTypeOK
  <2>2. Deliver(e, queue[e]) /\ UNCHANGED << packVars, hostVars >>
    BY <1>1, <2>1, Restored DEF Redeliver
  <2> QED
    BY <1>0, <2>2, DeliverKeeps, NothingNewKeeps
<1>2. CASE SkipPresented(e)
  <2>1. /\ Proceed(e, "result", "delete") /\ UNCHANGED packVars
        /\ UNCHANGED << marks, todo, shown >>
    BY <1>2 DEF SkipPresented, hostVars
  <2> QED
    BY <1>0, <2>1, ProceedDecided DEF TypeOK
<1>3. CASE StartShowing(e)
  <2>1. /\ call[e] # None /\ call[e].pc = "result" /\ Proceed(e, "result", "present")
        /\ UNCHANGED packVars /\ UNCHANGED shown
        /\ todo' = [todo EXCEPT ![e] = call[e].reply.result.legs]
        /\ marks' = marks \/ marks' = marks \cup {call[e].reply.result.decision_id}
    BY <1>3 DEF StartShowing, Mark
  <2>2. /\ decisions[e] # None /\ call[e].reply.result.decision_id = e
        /\ call[e].reply.result.legs = decisions[e].legs
    BY <2>1, ResultIsDecision
  <2>3. decisions[e].legs \in SUBSET Legs
    BY <1>0, <2>2, Values DEF TypeOK
  <2>4. todo' \in [Events -> SUBSET Legs] /\ marks' \subseteq UUIDs
        /\ shown' \in [Events -> [Legs -> Nat]]
    BY <1>0, <2>1, <2>2, <2>3 DEF TypeOK
  <2> QED
    BY <2>1, <2>4, ProceedDecided
<1>4. CASE \E leg \in Legs : Show(e, leg)
  <2>1. PICK leg \in Legs : Show(e, leg)
    BY <1>4
  <2>2. /\ UNCHANGED << epoch, decisions, decided, marks, late, queue, status, call, crashes >>
        /\ todo' = [todo EXCEPT ![e] = todo[e] \ {leg}]
        /\ shown' = [shown EXCEPT ![e][leg] = shown[e][leg] + 1]
    BY <2>1 DEF Show, packVars, queueVars
  <2>3. todo' \in [Events -> SUBSET Legs] /\ shown' \in [Events -> [Legs -> Nat]]
    BY <1>0, <2>2 DEF TypeOK
  <2>4. QueueTypeOK(Bytes, Answers)' /\ QueueSound'
    BY <1>0, <2>2 DEF QueueTypeOK, QueueSound, CallSound
  <2>5. TypeOK' /\ epoch <= epoch'
    BY <1>0, <2>2, <2>3, <2>4 DEF TypeOK
  <2> QED
    BY <2>2, <2>4, <2>5, QuietKeeps
<1>5. CASE EndShowing(e)
  <2>1. /\ Proceed(e, "present", "delete") /\ UNCHANGED packVars
        /\ UNCHANGED << todo, shown >>
        /\ marks' = marks \/ marks' = marks \cup {call[e].reply.result.decision_id}
    BY <1>5 DEF EndShowing, Mark
  <2>2. call[e].reply.result.decision_id = e
    BY <2>1, ResultIsDecision DEF Proceed
  <2>3. marks' \subseteq UUIDs
    BY <1>0, <2>1, <2>2 DEF TypeOK
  <2> QED
    BY <1>0, <2>1, <2>3, ProceedDecided DEF TypeOK
<1>6. CASE Alone(Delete(e))
  <2>1. /\ QueueTypeOK(Bytes, Answers)' /\ QueueSound'
        /\ call[e] # None /\ call[e].pc = "delete" /\ queue[e] # None
        /\ call' = [call EXCEPT ![e] = None]
        /\ status' = [status EXCEPT ![e] = "settled"]
        /\ UNCHANGED << late, queue, crashes >>
    BY <1>0, <1>6, DeleteKeeps
  <2>2. UNCHANGED << epoch, decisions, decided, marks, todo, shown >>
    BY <1>6 DEF packVars, hostVars
  <2>3. \A f \in Events : /\ call'[f] = IF f = e THEN None ELSE call[f]
                          /\ status'[f] = IF f = e THEN "settled" ELSE status[f]
    BY <1>0, <2>1 DEF QueueTypeOK
  <2>4. decisions[e] # None
    BY <2>1, ResultIsDecision
  <2>5. TypeOK' /\ epoch <= epoch'
    BY <1>0, <2>1, <2>2 DEF TypeOK
  <2> QED
    BY <2>1, <2>2, <2>3, <2>4, <2>5, QuietKeeps
<1> QED
  BY <1>1, <1>2, <1>3, <1>4, <1>5, <1>6 DEF HostStep

\* The network's steps.
LEMMA NetworkKeeps ==
  ASSUME Inv, NEW e \in Events, NetworkStep(e)
  PROVE  Inv'
<1>1. QueueTypeOK(Bytes, Answers) /\ QueueSound
  BY DEF Inv, TypeOK
<1>2. QueueTypeOK(Bytes, Answers)' /\ QueueSound' /\ NothingNew
  BY <1>1, TransmitKeeps, ReceiveKeeps, CutKeeps, AbandonKeeps DEF NetworkStep, Alone
<1>3. UNCHANGED << packVars, hostVars >>
  BY DEF NetworkStep, Alone
<1> QED
  BY <1>2, <1>3, NothingNewKeeps

\* Pack's steps: no decision is ever changed.
LEMMA PackStepKeeps ==
  ASSUME Inv, PackStep
  PROVE  /\ Inv'
         /\ \A f \in Events : decisions[f] # None => decisions'[f] = decisions[f]
<1>1. QueueTypeOK(Bytes, Answers) /\ QueueSound /\ TypeOK /\ epoch \in Nat
  BY Values DEF Inv, TypeOK
<1> DEFINE Goal == /\ Inv'
                   /\ \A f \in Events : decisions[f] # None => decisions'[f] = decisions[f]
<1>2. ASSUME NEW e \in Events, Serve(e) PROVE Goal
  <2>1. PICK answer \in Answers : Answer(e, answer) /\ Handle(e, call[e].bytes, answer)
    BY <1>2 DEF Serve
  <2>2. /\ QueueTypeOK(Bytes, Answers)' /\ QueueSound'
        /\ call[e] # None /\ call[e].bytes = queue[e] /\ queue[e] # None
        /\ UNCHANGED << queue, status, crashes, late >>
        /\ \A f \in Events : call'[f] # None =>
             /\ call[f] # None /\ call'[f].pc = call[f].pc
             /\ call'[f].reply = IF f = e THEN answer ELSE call[f].reply
    BY <1>1, <2>1, AnswerKeeps
  <2>3. Handle(e, queue[e], answer) /\ UNCHANGED << hostVars, queue, status >>
    BY <1>2, <2>1, <2>2 DEF Serve
  <2> QED
    BY <2>2, <2>3, PackKeeps
<1>3. ASSUME NEW e \in Events, Alone(AnswerLater(e)) PROVE Goal
  <2>1. /\ QueueTypeOK(Bytes, Answers)' /\ QueueSound'
        /\ UNCHANGED << queue, status, crashes >>
        /\ \A f \in Events : call'[f] # None =>
             /\ call[f] # None /\ call'[f].pc = call[f].pc
             /\ call'[f].reply = call[f].reply \/ call'[f].reply \in Transient
    BY <1>1, <1>3, AnswerLaterKeeps DEF Alone
  <2>2. UNCHANGED << epoch, decisions, decided, marks, todo, shown >>
    BY <1>3 DEF Alone, packVars, hostVars
  <2>3. TypeOK' /\ epoch <= epoch'
    BY <1>1, <2>1, <2>2 DEF TypeOK
  <2> QED
    BY <2>1, <2>2, <2>3, QuietKeeps
<1>4. ASSUME NEW copy \in late, ServeLate(copy) PROVE Goal
  <2> DEFINE e == copy.event
  <2>1. e \in Events /\ copy.bytes = queue[e] /\ copy.bytes \in Bytes
    BY <1>1 DEF QueueTypeOK, QueueSound
  <2>2. queue[e] # None
    BY <2>1, Values
  <2>3. PICK answer \in Answers : Handle(e, queue[e], answer)
    BY <1>4, <2>1 DEF ServeLate
  <2>4. UNCHANGED << hostVars, late, queue, status, call, crashes >>
    BY <1>4 DEF ServeLate, queueVars
  <2>5. QueueTypeOK(Bytes, Answers)' /\ QueueSound'
    BY <1>1, <2>4 DEF QueueTypeOK, QueueSound, CallSound
  <2> HIDE DEF e
  <2>6. \A f \in Events : call'[f] # None =>
          /\ call[f] # None
          /\ call'[f].reply = call[f].reply \/ (f = e /\ call'[f].reply = answer)
    BY <2>4
  <2> QED
    BY <2>1, <2>2, <2>3, <2>4, <2>5, <2>6, PackKeeps
<1>5. CASE Advance
  <2>1. /\ epoch < EpochLimit /\ epoch' = epoch + 1
        /\ UNCHANGED << decisions, decided, marks, todo, shown, late, queue, status, call,
                        crashes >>
    BY <1>5 DEF Advance, hostVars, queueVars
  <2>2. QueueTypeOK(Bytes, Answers)' /\ QueueSound'
    BY <1>1, <2>1 DEF QueueTypeOK, QueueSound, CallSound
  <2>3. TypeOK' /\ epoch <= epoch'
    BY <1>1, <2>1, <2>2 DEF TypeOK, Epochs
  <2> QED
    BY <2>1, <2>2, <2>3, QuietKeeps
<1> QED
  BY <1>2, <1>3, <1>4, <1>5 DEF PackStep

\* Every step keeps the first invariant.
LEMMA InvNext == Inv /\ [Next]_vars => Inv'
<1> SUFFICES ASSUME Inv, [Next]_vars PROVE Inv'
  OBVIOUS
<1>1. QueueTypeOK(Bytes, Answers) /\ QueueSound /\ TypeOK /\ epoch \in Nat
  BY Values DEF Inv, TypeOK
<1>2. CASE HostCrash
  <2>1. /\ QueueTypeOK(Bytes, Answers)' /\ QueueSound'
        /\ call' = [e \in Events |-> None]
        /\ UNCHANGED << queue, status >>
    BY <1>1, <1>2, CrashKeeps DEF HostCrash
  <2>2. UNCHANGED << epoch, decisions, decided, marks, shown >>
    BY <1>2 DEF HostCrash, packVars
  <2>3. todo' \in [Events -> SUBSET Legs]
    BY <1>2 DEF HostCrash
  <2>4. TypeOK' /\ epoch <= epoch'
    BY <1>1, <2>1, <2>2, <2>3 DEF TypeOK
  <2> QED
    BY <2>1, <2>2, <2>4, QuietKeeps
<1>3. CASE UNCHANGED vars
  <2>1. UNCHANGED << epoch, decisions, decided, marks, todo, shown, late, queue, status,
                     call, crashes >>
    BY <1>3 DEF vars, packVars, hostVars, queueVars
  <2>2. QueueTypeOK(Bytes, Answers)' /\ QueueSound'
    BY <1>1, <2>1 DEF QueueTypeOK, QueueSound, CallSound
  <2>3. TypeOK' /\ epoch <= epoch'
    BY <1>1, <2>1, <2>2 DEF TypeOK
  <2> QED
    BY <2>1, <2>2, <2>3, QuietKeeps
<1> QED
  BY <1>2, <1>3, CreateKeeps, HostKeeps, NetworkKeeps, PackStepKeeps DEF Next

\* The first invariant holds throughout.
LEMMA AlwaysInv == Spec => []Inv
BY InvInit, InvNext, PTL DEF Spec

-----------------------------------------------------------------------------
ShowSound(e) == MarkedInTime(e) /\ Complete(e) /\ Sparing(e)

\* Initially nothing is shown, marked or being shown.
LEMMA ShowInit == Init => ShowInv
<1> SUFFICES ASSUME Init, NEW e \in Events PROVE ShowSound(e)
  BY DEF ShowInv, ShowSound
<1>1. call[e] = None /\ status[e] = "open" /\ crashes = 0
  BY DEF Init, InitQueue
<1>2. e \notin marks /\ todo[e] = {} /\ \A leg \in Legs : shown[e][leg] = 0
  BY DEF Init
<1>3. MarkedInTime(e) /\ Complete(e)
  BY <1>1, <1>2 DEF MarkedInTime, Complete, Shows, Done
<1>4. Sparing(e)
  BY <1>1, <1>2 DEF Sparing, Allowance
<1> QED
  BY <1>3, <1>4 DEF ShowSound

\* A step that shows and marks nothing keeps what is said of an event.
LEMMA QuietShow ==
  ASSUME NEW e \in Events, ShowSound(e), UNCHANGED crashes,
         todo'[e] = todo[e], shown'[e] = shown[e], e \in marks' <=> e \in marks,
         decisions[e] # None => decisions'[e] = decisions[e],
         Shows(e)' <=> Shows(e), Done(e)' => Done(e)
  PROVE  ShowSound(e)'
<1>1. MarkedInTime(e)'
  BY DEF ShowSound, MarkedInTime
<1>2. Complete(e)'
  BY DEF ShowSound, Complete
<1>3. Sparing(e)'
  BY DEF ShowSound, Sparing, Allowance
<1> QED
  BY <1>1, <1>2, <1>3 DEF ShowSound

\* A step that leaves an event, its call and what is marked of it alone.
LEMMA OtherEvent ==
  ASSUME NEW e \in Events, ShowSound(e), UNCHANGED << crashes, decisions >>,
         todo'[e] = todo[e], shown'[e] = shown[e], e \in marks' <=> e \in marks,
         call'[e] = call[e], status'[e] = status[e]
  PROVE  ShowSound(e)'
BY QuietShow DEF Shows, Done

\* Steps of the network and of Pack show nothing.
LEMMA CallsShowNothing ==
  ASSUME Inv, ShowInv, NEW e \in Events, NEW payload, NEW reply,
         \/ (Deliver(e, payload) \/ Transmit(e) \/ Receive(e) \/ Cut(e) \/ Abandon(e))
              /\ NothingNew
         \/ (Answer(e, reply) \/ AnswerLater(e)) /\ UNCHANGED status
              /\ \A f \in Events : call'[f] # None =>
                   call[f] # None /\ call'[f].pc = call[f].pc,
         UNCHANGED << marks, todo, shown, crashes >>,
         \A f \in Events : decisions[f] # None => decisions'[f] = decisions[f]
  PROVE  ShowInv'
<1> SUFFICES ASSUME NEW f \in Events PROVE ShowSound(f)'
  BY DEF ShowInv, ShowSound
<1>1. QueueTypeOK(Bytes, Answers) /\ ShowSound(f)
  BY DEF Inv, TypeOK, ShowInv, ShowSound
<1>2. call[f] # None /\ call[f].pc = "present" => call'[f] = call[f]
  BY <1>1, CallSkips
<1>3. call'[f] # None /\ call'[f].pc \in {"present", "delete"} =>
        call[f] # None /\ call'[f].pc = call[f].pc
  BY DEF NothingNew
<1>4. status'[f] = "settled" => status[f] = "settled"
  BY DEF NothingNew
<1>5. (Shows(f)' <=> Shows(f)) /\ (Done(f)' => Done(f))
  BY <1>2, <1>3, <1>4 DEF Shows, Done
<1> QED
  BY <1>1, <1>5, QuietShow

\* The host's steps.
LEMMA HostShows ==
  ASSUME Inv, ShowInv, NEW e \in Events, HostStep(e)
  PROVE  ShowInv'
<1> USE DEF Alone
<1>0. /\ QueueTypeOK(Bytes, Answers) /\ QueueSound /\ TypeOK
      /\ \A f \in Events : ShowSound(f)
  BY DEF Inv, TypeOK, ShowInv, ShowSound
<1>1. ASSUME \A f \in Events : ShowSound(f)' PROVE ShowInv'
  BY <1>1 DEF ShowInv, ShowSound
<1>2. CASE Redeliver(e)
  <2>1. queue[e] \in Bytes
    BY <1>0, <1>2 DEF Redeliver, Deliver, QueueTypeOK
  <2>2. Deliver(e, queue[e])
    BY <1>2, <2>1, Restored DEF Redeliver
  <2>3. NothingNew
    BY <1>0, <2>2, DeliverKeeps
  <2>4. UNCHANGED << marks, todo, shown, crashes, decisions >>
    BY <1>2 DEF Redeliver, Deliver, packVars, hostVars
  <2> QED
    BY <2>2, <2>3, <2>4, CallsShowNothing
<1>3. CASE SkipPresented(e)
  <2>1. /\ Proceed(e, "result", "delete") /\ call[e] # None /\ call[e].pc = "result"
        /\ WasPresented(call[e].reply.result)
        /\ UNCHANGED << decisions, marks, todo, shown, status, crashes >>
    BY <1>3 DEF SkipPresented, Proceed, packVars, hostVars
  <2>2. e \in marks
    BY <2>1, ResultIsDecision DEF WasPresented
  <2>3. /\ call'[e].pc = "delete"
        /\ \A f \in Events : f # e => call'[f] = call[f]
    BY <1>0, <2>1, ProceedMoves
  <2>4. ShowSound(e)'
    <3>1. ~Shows(e) /\ ~Shows(e)' /\ ShowSound(e)
      BY <1>0, <2>1, <2>3 DEF Shows
    <3> QED
      BY <2>1, <2>2, <3>1
         DEF ShowSound, MarkedInTime, Complete, Sparing, Allowance
  <2>5. ASSUME NEW f \in Events, f # e PROVE ShowSound(f)'
    BY <1>0, <2>1, <2>3, <2>5, OtherEvent
  <2> QED
    BY <1>1, <2>4, <2>5
<1>4. CASE StartShowing(e)
  <2>1. /\ Proceed(e, "result", "present") /\ call[e] # None /\ call[e].pc = "result"
        /\ ~WasPresented(call[e].reply.result)
        /\ marks' = IF MarkFirst THEN marks \cup {call[e].reply.result.decision_id}
                    ELSE marks
        /\ todo' = [todo EXCEPT ![e] = call[e].reply.result.legs]
        /\ UNCHANGED << decisions, shown, status, crashes >>
    BY <1>4 DEF StartShowing, Mark, Proceed, packVars
  <2>2. /\ decisions[e] # None /\ call[e].reply.result.decision_id = e
        /\ call[e].reply.result.legs = decisions[e].legs
    BY <2>1, ResultIsDecision
  <2>3. /\ call'[e] \in Calls(Bytes, Answers) /\ call'[e].pc = "present"
        /\ \A f \in Events : f # e => call'[f] = call[f]
    BY <1>0, <2>1, ProceedMoves
  <2>4. Shows(e)' /\ ~Shows(e) /\ e \notin marks /\ ~Done(e)'
    <3>1. call'[e] # None
      BY <2>3, NoneIsNoCall
    <3>2. status'[e] = "open"
      BY <1>0, <2>1 DEF QueueSound, CallSound
    <3> QED
      BY <2>1, <2>2, <2>3, <3>1, <3>2 DEF Shows, Done, WasPresented
  <2>5. todo'[e] = decisions[e].legs /\ (MarkFirst => e \in marks')
        /\ (~MarkFirst => marks' = marks)
    BY <1>0, <2>1, <2>2 DEF TypeOK
  <2>6. ShowSound(e)'
    <3>1. MarkedInTime(e)'
      BY <2>4, <2>5 DEF MarkedInTime
    <3>2. Complete(e)'
      BY <2>1, <2>2, <2>4, <2>5 DEF Complete
    <3>3. \A leg \in Legs : shown[e][leg] <= Allowance
      BY <1>0, <2>4 DEF ShowSound, Sparing
    <3>4. Allowance \in Nat /\ shown[e] \in [Legs -> Nat]
      BY <1>0 DEF Allowance, TypeOK, QueueTypeOK
    <3>5. Sparing(e)'
      BY <2>1, <3>3, <3>4 DEF Sparing, Allowance
    <3> QED
      BY <3>1, <3>2, <3>5 DEF ShowSound
  <2>7. ASSUME NEW f \in Events, f # e PROVE ShowSound(f)'
    <3>1. todo'[f] = todo[f] /\ (f \in marks' <=> f \in marks)
      BY <1>0, <2>1, <2>2, <2>7 DEF TypeOK
    <3> QED
      BY <1>0, <2>1, <2>3, <2>7, <3>1, OtherEvent
  <2> QED
    BY <1>1, <2>6, <2>7
<1>5. CASE \E leg \in Legs : Show(e, leg)
  <2>1. PICK leg \in Legs : Show(e, leg)
    BY <1>5
  <2>2. /\ leg \in todo[e]
        /\ todo' = [todo EXCEPT ![e] = todo[e] \ {leg}]
        /\ shown' = [shown EXCEPT ![e][leg] = shown[e][leg] + 1]
        /\ UNCHANGED << decisions, marks, call, status, crashes >>
    BY <2>1 DEF Show, packVars, queueVars
  <2>3. /\ \A f \in Events : f # e => todo'[f] = todo[f] /\ shown'[f] = shown[f]
        /\ todo'[e] = todo[e] \ {leg}
    BY <1>0, <2>2 DEF TypeOK
  <2>4. \A l \in Legs : shown'[e][l] = IF l = leg THEN shown[e][l] + 1 ELSE shown[e][l]
    BY <1>0, <2>2 DEF TypeOK
  <2>5. Allowance \in Nat /\ shown[e] \in [Legs -> Nat]
    BY <1>0 DEF Allowance, TypeOK, QueueTypeOK
  <2>6. ShowSound(e)'
    <3>1. Shows(e) /\ MarkedInTime(e) /\ Complete(e) /\ Sparing(e)
      BY <1>0, <2>2 DEF ShowSound, MarkedInTime
    <3>2. (Shows(e)' <=> Shows(e)) /\ (Done(e)' <=> Done(e))
      BY <2>2 DEF Shows, Done
    <3>3. MarkedInTime(e)'
      BY <2>2, <3>1, <3>2 DEF MarkedInTime
    <3>4. Complete(e)'
      <4> SUFFICES ASSUME ~MarkFirst PROVE Complete(e)'
        BY DEF Complete
      <4>1. decisions[e] # None /\ decisions[e].legs \in SUBSET Legs
        BY <1>0, <3>1, Values DEF Complete, TypeOK
      <4>2. \A l \in decisions[e].legs : l \in todo'[e] \/ shown'[e][l] > 0
        BY <2>3, <2>4, <2>5, <3>1, <4>1 DEF Complete
      <4>3. e \in marks => \A l \in decisions[e].legs : shown'[e][l] > 0
        BY <2>4, <2>5, <3>1, <4>1 DEF Complete
      <4> QED
        BY <2>2, <4>1, <4>2, <4>3 DEF Complete
    <3>5. Sparing(e)'
      <4> SUFFICES ASSUME NEW l \in Legs
                   PROVE  /\ shown'[e][l] <= 1 + Allowance
                          /\ l \in todo'[e] => shown'[e][l] <= Allowance
        BY <2>2, <3>1, <3>2 DEF Sparing, Allowance
      <4>1. CASE l = leg
        <5>1. shown[e][leg] <= Allowance
          BY <2>2, <3>1 DEF Sparing
        <5> QED
          BY <2>3, <2>4, <2>5, <4>1, <5>1
      <4>2. CASE l # leg
        BY <2>3, <2>4, <3>1, <4>2 DEF Sparing
      <4> QED
        BY <4>1, <4>2
    <3> QED
      BY <3>3, <3>4, <3>5 DEF ShowSound
  <2>7. ASSUME NEW f \in Events, f # e PROVE ShowSound(f)'
    BY <1>0, <2>2, <2>3, <2>7, OtherEvent
  <2> QED
    BY <1>1, <2>6, <2>7
<1>6. CASE EndShowing(e)
  <2>1. /\ Proceed(e, "present", "delete") /\ call[e] # None /\ call[e].pc = "present"
        /\ todo[e] = {}
        /\ marks' = IF MarkFirst THEN marks
                    ELSE marks \cup {call[e].reply.result.decision_id}
        /\ UNCHANGED << decisions, todo, shown, status, crashes >>
    BY <1>6 DEF EndShowing, Mark, Proceed, packVars
  <2>2. decisions[e] # None /\ call[e].reply.result.decision_id = e
    BY <2>1, ResultIsDecision
  <2>3. /\ call'[e].pc = "delete"
        /\ \A f \in Events : f # e => call'[f] = call[f]
    BY <1>0, <2>1, ProceedMoves
  <2>4. ShowSound(e)'
    <3>1. Shows(e) /\ ~Shows(e)' /\ MarkedInTime(e) /\ Complete(e) /\ Sparing(e)
      BY <1>0, <2>1, <2>3 DEF Shows, ShowSound
    <3>2. e \in marks'
      BY <2>1, <2>2, <3>1 DEF MarkedInTime
    <3>3. MarkedInTime(e)'
      BY <2>1, <3>2 DEF MarkedInTime
    <3>4. Complete(e)'
      BY <2>1, <2>2, <3>1, <3>2 DEF Complete
    <3>5. Sparing(e)'
      BY <2>1, <3>1, <3>2 DEF Sparing, Allowance
    <3> QED
      BY <3>3, <3>4, <3>5 DEF ShowSound
  <2>5. ASSUME NEW f \in Events, f # e PROVE ShowSound(f)'
    <3>1. f \in marks' <=> f \in marks
      BY <2>1, <2>2, <2>5
    <3> QED
      BY <1>0, <2>1, <2>3, <2>5, <3>1, OtherEvent
  <2> QED
    BY <1>1, <2>4, <2>5
<1>7. CASE Alone(Delete(e))
  <2>1. /\ call[e] # None /\ call[e].pc = "delete"
        /\ call' = [call EXCEPT ![e] = None]
        /\ status' = [status EXCEPT ![e] = "settled"]
        /\ UNCHANGED << decisions, marks, todo, shown, crashes >>
    BY <1>7 DEF Delete, packVars, hostVars
  <2>2. \A f \in Events : /\ call'[f] = IF f = e THEN None ELSE call[f]
                          /\ status'[f] = IF f = e THEN "settled" ELSE status[f]
    BY <1>0, <2>1 DEF QueueTypeOK
  <2>3. ASSUME NEW f \in Events PROVE ShowSound(f)'
    <3>1. (Shows(f)' <=> Shows(f)) /\ (Done(f)' => Done(f))
      BY <2>1, <2>2 DEF Shows, Done
    <3> QED
      BY <1>0, <2>1, <3>1, QuietShow
  <2> QED
    BY <1>1, <2>3
<1> QED
  BY <1>2, <1>3, <1>4, <1>5, <1>6, <1>7 DEF HostStep

\* Every step keeps the second invariant.
LEMMA ShowNext == Inv /\ ShowInv /\ [Next]_vars => ShowInv'
<1> SUFFICES ASSUME Inv, ShowInv, [Next]_vars PROVE ShowInv'
  OBVIOUS
<1> USE DEF Alone
<1>0. /\ QueueTypeOK(Bytes, Answers) /\ QueueSound /\ TypeOK
      /\ \A f \in Events : ShowSound(f)
  BY DEF Inv, TypeOK, ShowInv, ShowSound
<1>1. ASSUME UNCHANGED << marks, todo, shown, crashes, call, status >>,
             \A f \in Events : decisions[f] # None => decisions'[f] = decisions[f]
      PROVE  ShowInv'
  <2> SUFFICES ASSUME NEW f \in Events PROVE ShowSound(f)'
    BY DEF ShowInv, ShowSound
  <2>1. (Shows(f)' <=> Shows(f)) /\ (Done(f)' => Done(f))
    BY <1>1 DEF Shows, Done
  <2> QED
    BY <1>0, <1>1, <2>1, QuietShow
<1>2. ASSUME NEW e \in Events, Create(e) PROVE ShowInv'
  BY <1>1, <1>2 DEF Create, Enqueue, packVars, hostVars
<1>3. ASSUME NEW e \in Events, NetworkStep(e) PROVE ShowInv'
  <2>1. NothingNew
    BY <1>0, <1>3, TransmitKeeps, ReceiveKeeps, CutKeeps, AbandonKeeps DEF NetworkStep
  <2>2. UNCHANGED << marks, todo, shown, crashes, decisions >>
    BY <1>3 DEF NetworkStep, Transmit, Receive, Cut, Abandon, packVars, hostVars
  <2> QED
    BY <1>3, <2>1, <2>2, CallsShowNothing DEF NetworkStep
<1>4. CASE PackStep
  <2>0. \A f \in Events : decisions[f] # None => decisions'[f] = decisions[f]
    BY <1>4, PackStepKeeps
  <2>1. ASSUME NEW e \in Events, Serve(e) PROVE ShowInv'
    <3>1. PICK answer \in Answers : Answer(e, answer)
      BY <2>1 DEF Serve
    <3>2. UNCHANGED << marks, todo, shown, crashes, status >>
      BY <2>1, <3>1 DEF Serve, Answer, hostVars
    <3>3. \A f \in Events : call'[f] # None => call[f] # None /\ call'[f].pc = call[f].pc
      BY <1>0, <3>1, AnswerKeeps
    <3> QED
      BY <2>0, <3>1, <3>2, <3>3, CallsShowNothing
  <2>2. ASSUME NEW e \in Events, Alone(AnswerLater(e)) PROVE ShowInv'
    <3>1. UNCHANGED << marks, todo, shown, crashes, status >>
      BY <2>2 DEF AnswerLater, hostVars
    <3>2. \A f \in Events : call'[f] # None => call[f] # None /\ call'[f].pc = call[f].pc
      BY <1>0, <2>2, AnswerLaterKeeps
    <3> QED
      BY <2>0, <2>2, <3>1, <3>2, CallsShowNothing
  <2>3. ASSUME (\E copy \in late : ServeLate(copy)) \/ Advance PROVE ShowInv'
    <3>1. UNCHANGED << marks, todo, shown, crashes, call, status >>
      BY <2>3 DEF ServeLate, Advance, hostVars, queueVars
    <3> QED
      BY <1>1, <2>0, <3>1
  <2> QED
    BY <1>4, <2>1, <2>2, <2>3 DEF PackStep
<1>5. CASE HostCrash
  <2>1. /\ crashes' = crashes + 1 /\ crashes \in Nat
        /\ call' = [e \in Events |-> None] /\ todo' = [e \in Events |-> {}]
        /\ UNCHANGED << decisions, marks, shown, status >>
    BY <1>0, <1>5 DEF HostCrash, Crash, packVars, QueueTypeOK
  <2> SUFFICES ASSUME NEW f \in Events PROVE ShowSound(f)'
    BY DEF ShowInv, ShowSound
  <2>2. ~Shows(f)' /\ todo'[f] = {} /\ (Done(f)' => Done(f)) /\ ShowSound(f)
    BY <1>0, <2>1 DEF Shows, Done
  <2>3. MarkedInTime(f)' /\ Complete(f)'
    BY <2>1, <2>2 DEF ShowSound, MarkedInTime, Complete
  <2>4. Sparing(f)'
    <3> SUFFICES ASSUME NEW leg \in Legs
                 PROVE  /\ shown[f][leg] <= 1 + Allowance'
                        /\ f \notin marks => shown[f][leg] <= Allowance'
      BY <2>1, <2>2 DEF Sparing
    <3>1. /\ shown[f][leg] <= 1 + Allowance /\ shown[f][leg] \in Nat
          /\ f \notin marks /\ ~Shows(f) => shown[f][leg] <= Allowance
          /\ MarkFirst /\ Shows(f) => f \in marks
      BY <1>0, <2>2 DEF ShowSound, Sparing, MarkedInTime, TypeOK
    <3>2. CASE MarkFirst
      BY <3>1, <3>2 DEF Allowance
    <3>3. CASE ~MarkFirst
      BY <2>1, <3>1, <3>3 DEF Allowance
    <3> QED
      BY <3>2, <3>3
  <2> QED
    BY <2>3, <2>4 DEF ShowSound
<1>6. CASE UNCHANGED vars
  BY <1>1, <1>6 DEF vars, packVars, hostVars, queueVars
<1> QED
  BY <1>2, <1>3, <1>4, <1>5, <1>6, HostShows DEF Next

\* The second invariant holds throughout.
LEMMA AlwaysShowInv == Spec => []ShowInv
BY ShowInit, ShowNext, AlwaysInv, PTL DEF Spec

-----------------------------------------------------------------------------
(***************************************************************************)
(* Type correctness, for any events, ids, attempts, crashes and epochs.    *)
(***************************************************************************)
THEOREM CommentTypeCorrect == Spec => []TypeOK
BY AlwaysInv, PTL DEF Inv

(***************************************************************************)
(* No retry, redelivery or late copy of an event meets Pack's conflict.    *)
(***************************************************************************)
THEOREM RetriesNeverConflict == Spec => []NeverConflicts
<1>1. Inv => NeverConflicts
  BY DEF Inv, PerEvent, Answered, Truthful, NeverConflicts
<1> QED
  BY <1>1, AlwaysInv, PTL

(***************************************************************************)
(* Of an event that a host which marks after showing deleted as done,      *)
(* every leg of Pack's decision was shown.                                 *)
(***************************************************************************)
THEOREM SettledWereShown == Spec => []NothingMissed
<1>1. Inv /\ ShowInv => NothingMissed
  BY DEF Inv, PerEvent, Ended, ShowInv, MarkedInTime, Complete, Done, NothingMissed
<1> QED
  BY <1>1, AlwaysInv, AlwaysShowInv, PTL

(***************************************************************************)
(* A leg is shown once, and for a host that marks after showing once more  *)
(* per crash at most.                                                      *)
(***************************************************************************)
THEOREM OnlyCrashesRepeat == Spec => []RepeatsOnlyByCrash
<1>1. Inv /\ ShowInv => RepeatsOnlyByCrash
  <2> SUFFICES ASSUME Inv, ShowInv, NEW e \in Events, NEW leg \in Legs
               PROVE  shown[e][leg] <= IF MarkFirst THEN 1 ELSE 1 + crashes
    BY DEF RepeatsOnlyByCrash
  <2>1. shown[e][leg] <= 1 + Allowance
    BY DEF ShowInv, Sparing
  <2> QED
    BY <2>1 DEF Allowance
<1> QED
  BY <1>1, AlwaysInv, AlwaysShowInv, PTL

-----------------------------------------------------------------------------
\* A step in which queue, effects and verdicts stay is a stutter.
LEMMA DeliveryStutters ==
  ASSUME UNCHANGED << queue, status, decided >>
  PROVE  UNCHANGED Delivery!delivery
BY DEF Delivery!delivery

\* Pack's handling of a request is a decision for an open event, or none.
LEMMA HandleDelivers ==
  ASSUME Inv, NEW e \in Events, queue[e] # None, NEW answer \in Answers,
         Handle(e, queue[e], answer), UNCHANGED << queue, status >>
  PROVE  Delivery!Next \/ UNCHANGED Delivery!delivery
<1>1. CASE UNCHANGED packVars
  BY <1>1, DeliveryStutters DEF packVars
<1>2. CASE ~Final(e) /\ decided[e] = 0 /\ decided' = [decided EXCEPT ![e] = 1]
  <2>1. status[e] \in {"open", "settled", "dropped"}
    BY DEF Inv, TypeOK, QueueTypeOK
  <2>2. status[e] = "open"
    BY <1>2, <2>1 DEF Inv, PerEvent, Ended, Final
  <2>3. Delivery!TakeEffect(e)
    BY <1>2, <2>2 DEF Delivery!TakeEffect
  <2> QED
    BY <2>3 DEF Delivery!Next
<1> QED
  BY <1>1, <1>2, HandleEffect

\* Every step is one of the abstract queue, or none.
LEMMA StepDelivers ==
  ASSUME Inv, [Next]_vars
  PROVE  [Delivery!Next]_(Delivery!delivery)
<1> SUFFICES Delivery!Next \/ UNCHANGED Delivery!delivery
  OBVIOUS
<1>0. /\ QueueTypeOK(Bytes, Answers) /\ QueueSound
      /\ \A e \in Events : PerEvent(e)
  BY DEF Inv, TypeOK
<1>1. ASSUME NEW e \in Events, Create(e)
      PROVE  Delivery!Next \/ UNCHANGED Delivery!delivery
  <2>1. PICK known \in 0..epoch : Alone(Enqueue(e, CommentEvent(e, known)))
    BY <1>1 DEF Create
  <2> DEFINE b == CommentEvent(e, known)
  <2>2. /\ queue[e] = None /\ queue' = [queue EXCEPT ![e] = b]
        /\ UNCHANGED << status, decided >>
    BY <2>1 DEF Alone, Enqueue, packVars
  <2>3. b \in Bytes
    <3>1. epoch \in 0..EpochLimit
      BY DEF Inv, TypeOK, Epochs
    <3> QED
      BY <3>1 DEF CommentEvent, Bytes, Epochs
  <2>4. b # None
    BY <2>3, Values
  <2> HIDE DEF b
  <2>5. \A f \in Events : queue'[f] = IF f = e THEN b ELSE queue[f]
    BY <1>0, <2>2 DEF QueueTypeOK
  <2>6. {f \in Events : queue'[f] # None} = {f \in Events : queue[f] # None} \cup {e}
    BY <2>4, <2>5
  <2>7. Delivery!Queue(e)
    BY <2>2, <2>6 DEF Delivery!Queue
  <2> QED
    BY <2>7 DEF Delivery!Next
<1>2. ASSUME NEW e \in Events,
             \/ Redeliver(e) \/ SkipPresented(e) \/ StartShowing(e) \/ EndShowing(e)
             \/ \E leg \in Legs : Show(e, leg)
      PROVE  Delivery!Next \/ UNCHANGED Delivery!delivery
  <2>1. UNCHANGED << queue, status, decided >>
    BY <1>2 DEF Redeliver, SkipPresented, StartShowing, EndShowing, Show, Mark, Alone,
                Deliver, Proceed, packVars, queueVars
  <2> QED
    BY <2>1, DeliveryStutters
<1>3. ASSUME NEW e \in Events, Alone(Delete(e))
      PROVE  Delivery!Next \/ UNCHANGED Delivery!delivery
  <2>1. /\ call[e] # None /\ call[e].pc = "delete" /\ status[e] = "open"
        /\ status' = [status EXCEPT ![e] = "settled"] /\ queue' = queue
        /\ decided' = decided
    BY <1>0, <1>3, DeleteKeeps DEF Alone, packVars
  <2>2. decisions[e] # None
    BY <2>1, ResultIsDecision
  <2>3. decided[e] = 1
    BY <1>0, <2>2 DEF PerEvent, Counted
  <2>4. Delivery!Settle(e)
    BY <2>1, <2>3 DEF Delivery!Settle
  <2> QED
    BY <2>4 DEF Delivery!Next
<1>4. ASSUME NEW e \in Events, NetworkStep(e)
      PROVE  Delivery!Next \/ UNCHANGED Delivery!delivery
  <2>1. NothingNew /\ queue' = queue /\ decided' = decided
    BY <1>0, <1>4, TransmitKeeps, ReceiveKeeps, CutKeeps, AbandonKeeps
       DEF NetworkStep, Alone, NothingNew, packVars
  <2>2. status' = status \/ \E s : status' = [status EXCEPT ![e] = s]
    BY <1>4, OneStatus DEF NetworkStep, Alone
  <2>3. CASE status' = status
    BY <2>1, <2>3, DeliveryStutters
  <2>4. CASE status' # status
    <3>1. PICK s : status' = [status EXCEPT ![e] = s]
      BY <2>2, <2>4
    <3>2. status \in [Events -> {"open", "settled", "dropped"}]
      BY <1>0 DEF QueueTypeOK
    <3>3. status'[e] # status[e] /\ status'[e] = s
      BY <2>4, <3>1, <3>2
    <3>4. s = "dropped" /\ call[e] # None
      BY <2>1, <3>3 DEF NothingNew
    <3>5. status[e] = "open" /\ queue[e] # None
      BY <1>0, <3>4 DEF QueueSound, CallSound
    <3>6. Delivery!Drop(e)
      BY <2>1, <3>1, <3>4, <3>5 DEF Delivery!Drop
    <3> QED
      BY <3>6 DEF Delivery!Next
  <2> QED
    BY <2>3, <2>4
<1>5. CASE PackStep
  <2>1. ASSUME NEW e \in Events, Serve(e)
        PROVE  Delivery!Next \/ UNCHANGED Delivery!delivery
    <3>1. PICK answer \in Answers : Answer(e, answer) /\ Handle(e, call[e].bytes, answer)
      BY <2>1 DEF Serve
    <3>2. call[e].bytes = queue[e] /\ queue[e] # None /\ UNCHANGED << queue, status >>
      BY <1>0, <3>1, AnswerKeeps
    <3> QED
      BY <3>1, <3>2, HandleDelivers
  <2>2. ASSUME NEW copy \in late, ServeLate(copy)
        PROVE  Delivery!Next \/ UNCHANGED Delivery!delivery
    <3>1. /\ copy.event \in Events /\ copy.bytes \in Bytes
          /\ copy.bytes = queue[copy.event]
      BY <1>0 DEF QueueTypeOK, QueueSound
    <3>2. queue[copy.event] # None
      BY <3>1, Values
    <3>3. PICK answer \in Answers : Handle(copy.event, queue[copy.event], answer)
      BY <2>2, <3>1 DEF ServeLate
    <3>4. UNCHANGED << queue, status >>
      BY <2>2 DEF ServeLate, queueVars
    <3> QED
      BY <3>1, <3>2, <3>3, <3>4, HandleDelivers
  <2>3. ASSUME (\E e \in Events : Alone(AnswerLater(e))) \/ Advance
        PROVE  Delivery!Next \/ UNCHANGED Delivery!delivery
    BY <2>3, DeliveryStutters DEF Advance, Alone, AnswerLater, packVars, queueVars
  <2> QED
    BY <1>5, <2>1, <2>2, <2>3 DEF PackStep
<1>6. CASE HostCrash \/ UNCHANGED vars
  <2>1. UNCHANGED << queue, status, decided >>
    BY <1>6 DEF HostCrash, Crash, vars, packVars, queueVars
  <2> QED
    BY <2>1, DeliveryStutters
<1> QED
  BY <1>1, <1>2, <1>3, <1>4, <1>5, <1>6 DEF Next, HostStep

(***************************************************************************)
(* The comment queue implements the safety part of DurableDelivery: Pack   *)
(* decides once for each event, before it is settled and never after it    *)
(* was dropped.                                                            *)
(***************************************************************************)
THEOREM CommentsDeliverDurably == Spec => DeliversDurably
<1>1. Init => Delivery!Init
  BY DEF Init, InitQueue, Delivery!Init
<1>2. Inv /\ [Next]_vars => [Delivery!Next]_(Delivery!delivery)
  BY StepDelivers
<1> QED
  BY <1>1, <1>2, AlwaysInv, PTL DEF Spec, DeliversDurably, Delivery!Safe
=============================================================================
