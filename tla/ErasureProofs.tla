---------------------------- MODULE ErasureProofs ---------------------------
(***************************************************************************)
(* What Erasure promises for any jobs, attempts, crashes and incarnations. *)
(***************************************************************************)
EXTENDS Erasure, DurableQueueProofs

USE ErasureAssumption

(***************************************************************************)
(* The inductive invariant.  The account has the latest incarnation and no *)
(* tombstone, and the host knows only incarnations Pack created.           *)
(***************************************************************************)
AccountSound ==
  /\ account # None => account < created /\ tombstone = None
  /\ stored # None => stored < created

(***************************************************************************)
(* Pack will never carry the job out again: the account it names is gone,  *)
(* or one exists, or was erased, where it says that none ever did.         *)
(***************************************************************************)
Gone(e) ==
  /\ queue[e].expected_link_incarnation_id # None =>
       account # queue[e].expected_link_incarnation_id
  /\ queue[e].expected_link_incarnation_id = None =>
       account # None \/ tombstone # None

Final(e) == receipts[e] # None \/ Gone(e)

\* A job is bound to an incarnation that existed when it was created.
Captured(e) ==
  queue[e] # None =>
    /\ queue[e].client_erasure_event_id = e
    /\ queue[e].expected_link_incarnation_id # None =>
         queue[e].expected_link_incarnation_id < born[e]
    /\ born[e] <= created

Receipted(e) ==
  receipts[e] # None => queue[e] # None /\ receipts[e].erasure_id = e

Counted(e) == handled[e] = IF receipts[e] = None THEN 0 ELSE 1

\* An answer is the receipt, or a refusal of a job that had no effect.
Truthful(e, reply) ==
  /\ reply.status = 200 => receipts[e] # None /\ reply.result = receipts[e]
  /\ Refused(reply) => Final(e)
  /\ Refused(reply) /\ reply.status # 200 => receipts[e] = None /\ Gone(e)

Answered(e) ==
  call[e] # None /\ call[e].reply # None => Truthful(e, call[e].reply)

Ended(e) ==
  /\ status[e] = "settled" => receipts[e] # None
  /\ status[e] = "dropped" => Final(e)

PerEvent(e) == Captured(e) /\ Receipted(e) /\ Counted(e) /\ Answered(e) /\ Ended(e)

ErasedSound == \A x \in erased : queue[x[1]] # None /\ x[2] < born[x[1]]

Inv ==
  /\ TypeOK
  /\ QueueSound
  /\ AccountSound
  /\ ErasedSound
  /\ \A e \in Events : PerEvent(e)

-----------------------------------------------------------------------------
\* An answer that says nothing final is no success and no refusal.
LEMMA TransientIsNotFinal ==
  ASSUME NEW reply \in Transient
  PROVE  reply.status # 200 /\ ~Refused(reply)
BY NoneIsNoValue
   DEF Transient, Busy, Unavailable, Reply, Refused, Disposition, CodeDisposition,
       RetryCodes, DefaultDisposition, TransientStatus, PrivacyOperationErrorCode

\* An incarnation, an event's bytes and a receipt are something.
LEMMA Values ==
  /\ \A i \in Incarnations : i # None /\ i \in Nat
  /\ \A b \in Bytes : /\ b # None /\ b.client_erasure_event_id \in Events
                      /\ b.expected_link_incarnation_id \in Incarnations \cup {None}
  /\ \A r \in Receipts : r # None
BY NoneIsNoValue, NoneIsNoEvent, NoneIsNoReceipt DEF Incarnations, Bytes

\* Restoring an event from its bytes gives the bytes back.
LEMMA Restored ==
  ASSUME NEW b \in Bytes
  PROVE  FromRequestBytes(b) = b
BY DEF FromRequestBytes, EraseForAppEvent, Bytes

(***************************************************************************)
(* How Pack and the host's identifies move on: incarnations are only added *)
(* and never come back, and a receipt is only added for a job that was not *)
(* final.                                                                  *)
(***************************************************************************)
Forward ==
  /\ created <= created'
  /\ \A i \in Incarnations : i < created /\ account # i => account' # i
  /\ account # None \/ tombstone # None => account' # None \/ tombstone' # None
  /\ \A f \in Events : receipts'[f] # receipts[f] => ~Final(f)

LEMMA StaysFinal ==
  ASSUME Inv, Forward, created' \in Nat,
         NEW e \in Events, queue[e] # None, queue'[e] = queue[e], born'[e] = born[e]
  PROVE  /\ Gone(e) => Gone(e)'
         /\ Final(e) => Final(e)' /\ receipts'[e] = receipts[e]
         /\ Captured(e)'
         /\ receipts[e] # None => receipts'[e] = receipts[e]
<1>1. /\ Captured(e) /\ born[e] \in Nat /\ created \in Nat
      /\ queue[e].expected_link_incarnation_id \in Incarnations \cup {None}
  BY Values DEF Inv, PerEvent, TypeOK, QueueTypeOK
<1>2. /\ queue[e].client_erasure_event_id = e
      /\ queue[e].expected_link_incarnation_id # None =>
           queue[e].expected_link_incarnation_id < born[e]
      /\ born[e] <= created
  BY <1>1 DEF Captured
<1>3. Gone(e) => Gone(e)'
  <2> SUFFICES ASSUME Gone(e) PROVE Gone(e)'
    OBVIOUS
  <2>1. CASE queue[e].expected_link_incarnation_id = None
    BY <2>1 DEF Gone, Forward
  <2>2. CASE queue[e].expected_link_incarnation_id # None
    <3> DEFINE i == queue[e].expected_link_incarnation_id
    <3>1. i \in Incarnations /\ i \in Nat /\ i < born[e] /\ account # i
      BY <1>1, <1>2, <2>2, Values DEF Gone
    <3>2. i < created
      BY <1>1, <1>2, <3>1
    <3>3. account' # i
      BY <3>1, <3>2 DEF Forward
    <3> QED
      BY <2>2, <3>3 DEF Gone
  <2> QED
    BY <2>1, <2>2
<1>4. Final(e) => receipts'[e] = receipts[e]
  BY DEF Forward
<1>5. Captured(e)'
  <2>1. born[e] <= created'
    BY <1>1, <1>2 DEF Forward
  <2> QED
    BY <1>2, <2>1 DEF Captured
<1>6. receipts[e] # None => receipts'[e] = receipts[e]
  BY <1>4 DEF Final
<1>7. Final(e) => Final(e)'
  <2>1. CASE Gone(e)
    BY <1>3, <2>1 DEF Final
  <2>2. CASE receipts[e] # None
    <3>1. receipts'[e] # None
      BY <1>6, <2>2
    <3> QED
      BY <3>1 DEF Final
  <2> QED
    BY <2>1, <2>2 DEF Final
<1>8. Final(e) => Final(e)' /\ receipts'[e] = receipts[e]
  BY <1>4, <1>7, Zenon
<1> QED
  BY <1>3, <1>5, <1>6, <1>8, Zenon

\* The initial states satisfy the invariant.
LEMMA InvInit == Init => Inv
<1> SUFFICES ASSUME Init PROVE Inv
  OBVIOUS
<1>1. QueueTypeOK(Bytes, Answers) /\ QueueSound
  BY InitSound DEF Init
<1>2. TypeOK
  <2>1. 0 \in 0..IncarnationLimit
    OBVIOUS
  <2>2. receipts \in [Events -> Receipts \cup {None}] /\ handled \in [Events -> Nat]
    BY DEF Init
  <2>3. created \in 0..IncarnationLimit /\ born \in [Events -> 0..IncarnationLimit]
    BY <2>1 DEF Init
  <2>4. /\ account \in Incarnations \cup {None} /\ tombstone \in Events \cup {None}
        /\ erased \subseteq Events \X Incarnations
        /\ stored \in Incarnations \cup {None}
        /\ identified \in BOOLEAN /\ ledger \subseteq Events
    BY DEF Init
  <2> QED
    BY <1>1, <2>2, <2>3, <2>4 DEF TypeOK
<1>3. AccountSound /\ ErasedSound
  BY DEF Init, AccountSound, ErasedSound
<1>4. ASSUME NEW e \in Events PROVE PerEvent(e)
  <2>1. queue[e] = None /\ call[e] = None /\ status[e] = "open"
    BY DEF Init, InitQueue
  <2>2. receipts[e] = None /\ handled[e] = 0
    BY DEF Init
  <2> QED
    BY <2>1, <2>2 DEF PerEvent, Captured, Receipted, Counted, Answered, Ended
<1> QED
  BY <1>1, <1>2, <1>3, <1>4 DEF Inv

\* A step that brings a call nothing new keeps the invariant.
LEMMA NothingNewKeeps ==
  ASSUME Inv, NothingNew, QueueTypeOK(Bytes, Answers)', QueueSound',
         UNCHANGED << packVars, hostVars >>
  PROVE  Inv'
<1>1. UNCHANGED << queue, account, created, tombstone, receipts, erased, handled, stored,
                   identified, ledger, born >>
  BY DEF NothingNew, packVars, hostVars
<1>2. TypeOK' /\ AccountSound' /\ ErasedSound'
  BY <1>1 DEF Inv, TypeOK, AccountSound, ErasedSound
<1>3. ASSUME NEW e \in Events PROVE PerEvent(e)'
  <2>1. PerEvent(e)
    BY DEF Inv
  <2>2. Captured(e)' /\ Receipted(e)' /\ Counted(e)'
    BY <1>1, <2>1 DEF PerEvent, Captured, Receipted, Counted
  <2>3. Answered(e)'
    <3> SUFFICES ASSUME call'[e] # None, call'[e].reply # None
                 PROVE  Truthful(e, call[e].reply)'
      BY DEF Answered
    <3>1. call[e] # None /\ call'[e].reply = call[e].reply
      BY DEF NothingNew
    <3>2. Truthful(e, call[e].reply)
      BY <2>1, <3>1 DEF PerEvent, Answered
    <3> QED
      BY <1>1, <3>1, <3>2 DEF Truthful, Final, Gone
  <2>4. Ended(e)'
    <3>1. CASE status'[e] = status[e]
      BY <1>1, <2>1, <3>1 DEF PerEvent, Ended, Final, Gone
    <3>2. CASE status'[e] # status[e]
      <4>1. /\ status'[e] = "dropped" /\ call[e] # None /\ call[e].reply # None
            /\ Refused(call[e].reply)
        BY <3>2 DEF NothingNew
      <4>2. Final(e)
        BY <2>1, <4>1 DEF PerEvent, Answered, Truthful
      <4> QED
        BY <1>1, <4>1, <4>2 DEF Ended, Final, Gone
    <3> QED
      BY <3>1, <3>2
  <2> QED
    BY <2>2, <2>3, <2>4 DEF PerEvent
<1> QED
  BY <1>2, <1>3 DEF Inv

(***************************************************************************)
(* Pack or an identify moves on, or the host learns of it, while calls and *)
(* queue stay as they are but for an answer that is true.                  *)
(***************************************************************************)
LEMMA ForwardKeeps ==
  ASSUME Inv, Forward, TypeOK', QueueSound', AccountSound', ErasedSound',
         UNCHANGED << queue, status, born >>,
         \A f \in Events : Counted(f)' /\ Receipted(f)',
         \A f \in Events : call'[f] # None =>
           /\ call[f] # None
           /\ call'[f].reply # None =>
                call'[f].reply = call[f].reply \/ Truthful(f, call[f].reply)'
  PROVE  Inv'
<1>1. ASSUME NEW e \in Events PROVE PerEvent(e)'
  <2>1. PerEvent(e) /\ (receipts[e] # None => queue[e] # None)
    BY DEF Inv, PerEvent, Receipted
  <2>0. created' \in Nat
    BY DEF TypeOK
  <2>2. Captured(e)'
    <3>1. CASE queue[e] = None
      BY <3>1 DEF Captured
    <3>2. CASE queue[e] # None
      BY <2>0, <3>2, StaysFinal
    <3> QED
      BY <3>1, <3>2
  <2>3. Answered(e)'
    <3> SUFFICES ASSUME call'[e] # None, call'[e].reply # None
                 PROVE  Truthful(e, call[e].reply)'
      BY DEF Answered
    <3>1. call[e] # None /\ queue[e] # None
      BY DEF Inv, QueueSound, CallSound
    <3>2. /\ Gone(e) => Gone(e)'
          /\ Final(e) => Final(e)' /\ receipts'[e] = receipts[e]
          /\ receipts[e] # None => receipts'[e] = receipts[e]
      BY <2>0, <3>1, StaysFinal
    <3>3. CASE call'[e].reply = call[e].reply
      <4> DEFINE reply == call[e].reply
      <4>1. Truthful(e, reply)
        BY <2>1, <3>1, <3>3 DEF PerEvent, Answered
      <4>2. /\ reply.status = 200 => receipts[e] # None /\ reply.result = receipts[e]
            /\ Refused(reply) => Final(e)
            /\ Refused(reply) /\ reply.status # 200 => receipts[e] = None /\ Gone(e)
        BY <4>1 DEF Truthful
      <4>3. /\ reply.status = 200 => receipts'[e] # None /\ reply.result = receipts'[e]
            /\ Refused(reply) => Final(e)'
            /\ Refused(reply) /\ reply.status # 200 => receipts'[e] = None /\ Gone(e)'
        BY <3>2, <4>2
      <4> QED
        BY <3>3, <4>3 DEF Truthful
    <3> QED
      BY <3>1, <3>3
  <2>4. Ended(e)'
    <3>1. status[e] # "open" => queue[e] # None
      BY DEF Inv, QueueSound
    <3>2. queue[e] # None => /\ Final(e) => Final(e)'
                             /\ receipts[e] # None => receipts'[e] = receipts[e]
      BY <2>0, StaysFinal
    <3> QED
      BY <2>1, <3>1, <3>2 DEF PerEvent, Ended
  <2> QED
    BY <2>2, <2>3, <2>4 DEF PerEvent
<1> QED
  BY <1>1 DEF Inv

\* A step of an identify or of the host's store that brings no answer.
LEMMA QuietKeeps ==
  ASSUME Inv, TypeOK', QueueSound', AccountSound',
         UNCHANGED << queue, status, born, receipts, handled, erased >>,
         created <= created',
         \A i \in Incarnations : i < created /\ account # i => account' # i,
         account # None \/ tombstone # None => account' # None \/ tombstone' # None,
         \A f \in Events : call'[f] # None =>
           /\ call[f] # None
           /\ call'[f].reply = call[f].reply \/ call'[f].reply \in Transient
  PROVE  Inv'
<1>1. Forward
  BY DEF Forward
<1>2. ErasedSound'
  BY DEF Inv, ErasedSound
<1>3. \A f \in Events : Counted(f)' /\ Receipted(f)'
  BY DEF Inv, PerEvent, Counted, Receipted
<1>4. \A f \in Events : call'[f] # None =>
        /\ call[f] # None
        /\ call'[f].reply # None =>
             call'[f].reply = call[f].reply \/ Truthful(f, call[f].reply)'
  BY TransientIsNotFinal DEF Truthful
<1> QED
  BY <1>1, <1>2, <1>3, <1>4, ForwardKeeps

(***************************************************************************)
(* Pack handles a request of a queued job: it answers truly, or carries    *)
(* out a job that was not final.                                           *)
(***************************************************************************)
LEMMA HandleEffect ==
  ASSUME Inv, NEW e \in Events, queue[e] # None, NEW answer \in Answers,
         Handle(e, queue[e], answer)
  PROVE  \/ UNCHANGED packVars /\ Truthful(e, answer)
         \/ /\ Erase(e, queue[e], answer)
            /\ ~Final(e) /\ receipts[e] = None /\ handled[e] = 0
            /\ handled' = [handled EXCEPT ![e] = 1]
            /\ queue[e].expected_link_incarnation_id = account /\ tombstone = None
            /\ queue[e].client_erasure_event_id = e
<1> DEFINE b == queue[e]
<1>1. b.client_erasure_event_id = e /\ AccountSound /\ Receipted(e) /\ Counted(e)
  BY DEF Inv, PerEvent, Captured
<1>2. handled \in [Events -> Nat]
  BY DEF Inv, TypeOK
<1>3. CASE Replay(b, answer)
  <2>1. UNCHANGED packVars /\ receipts[e] # None
    BY <1>1, <1>3 DEF Replay
  <2>2. answer.status = 200 /\ answer.result = receipts[e]
    BY <1>1, <1>3 DEF Replay, Reply
  <2> QED
    BY <2>1, <2>2 DEF Truthful, Final
<1>4. CASE RefuseStale(b, answer)
  <2>1. UNCHANGED packVars /\ receipts[e] = None /\ ~NamesAccount(b)
    BY <1>1, <1>4 DEF RefuseStale
  <2>2. answer.status = 409
    BY <1>4 DEF RefuseStale, Reply
  <2>3. Gone(e)
    BY <1>1, <2>1 DEF NamesAccount, AccountSound, Gone
  <2> QED
    BY <2>1, <2>2, <2>3 DEF Truthful, Final
<1>5. CASE Erase(e, b, answer)
  <2>1. /\ receipts[e] = None /\ NamesAccount(b)
        /\ handled' = [handled EXCEPT ![e] = handled[e] + 1]
    BY <1>1, <1>5 DEF Erase
  <2>2. handled[e] = 0 /\ handled' = [handled EXCEPT ![e] = 1]
    BY <1>1, <2>1 DEF Counted
  <2>3. ~Final(e)
    BY <2>1 DEF Final, Gone, NamesAccount
  <2> QED
    BY <1>1, <1>5, <2>1, <2>2, <2>3 DEF NamesAccount
<1> QED
  BY <1>3, <1>4, <1>5 DEF Handle

\* Pack carries a request of a queued job out, or answers it from what it knows.
LEMMA PackKeeps ==
  ASSUME Inv, NEW e \in Events, queue[e] # None, NEW answer \in Answers,
         Handle(e, queue[e], answer),
         UNCHANGED << hostVars, queue, status >>,
         QueueTypeOK(Bytes, Answers)', QueueSound',
         \A f \in Events : call'[f] # None =>
           /\ call[f] # None
           /\ call'[f].reply = call[f].reply \/ (f = e /\ call'[f].reply = answer)
  PROVE  Inv'
<1>1. UNCHANGED << stored, identified, ledger, born, queue, status >>
  BY DEF hostVars
<1>2. CASE UNCHANGED packVars /\ Truthful(e, answer)
  <2>1. UNCHANGED << account, created, tombstone, receipts, erased, handled >>
    BY <1>2 DEF packVars
  <2>2. created \in Nat /\ created <= created
    BY DEF Inv, TypeOK
  <2>3. Forward
    BY <2>1, <2>2 DEF Forward
  <2>4. TypeOK' /\ AccountSound' /\ ErasedSound'
    BY <1>1, <2>1 DEF Inv, TypeOK, AccountSound, ErasedSound
  <2>5. \A f \in Events : Counted(f)' /\ Receipted(f)'
    BY <1>1, <2>1 DEF Inv, PerEvent, Counted, Receipted
  <2>6. ASSUME NEW f \in Events, call'[f] # None
        PROVE  /\ call[f] # None
               /\ call'[f].reply # None =>
                    call'[f].reply = call[f].reply \/ Truthful(f, call[f].reply)'
    <3>1. CASE call'[f].reply = call[f].reply
      BY <2>6, <3>1
    <3>2. CASE f = e /\ call'[f].reply = answer
      <4>1. Truthful(f, call[f].reply)'
        BY <1>1, <1>2, <2>1, <3>2 DEF Truthful, Final, Gone
      <4> QED
        BY <2>6, <4>1
    <3> QED
      BY <2>6, <3>1, <3>2
  <2> QED
    BY <1>1, <2>3, <2>4, <2>5, <2>6, ForwardKeeps
<1>3. CASE /\ Erase(e, queue[e], answer)
           /\ ~Final(e) /\ receipts[e] = None /\ handled[e] = 0
           /\ handled' = [handled EXCEPT ![e] = 1]
           /\ queue[e].expected_link_incarnation_id = account /\ tombstone = None
           /\ queue[e].client_erasure_event_id = e
  <2> DEFINE result == EraseForAppResult(e, account # None)
  <2>1. /\ receipts' = [receipts EXCEPT ![e] = result]
        /\ answer = Reply(200, None, result)
        /\ erased' = IF account = None THEN erased ELSE erased \cup {<<e, account>>}
        /\ tombstone' = e /\ account' = None /\ created' = created
    BY <1>3 DEF Erase
  <2>2. result \in Receipts /\ result.erasure_id = e
    BY DEF Receipts, EraseForAppResult
  <2> HIDE DEF result
  <2>3. result # None /\ e # None
    BY <2>2, Values, QueueAssumption
  <2>4. \A f \in Events : /\ receipts'[f] = IF f = e THEN result ELSE receipts[f]
                          /\ handled'[f] = IF f = e THEN 1 ELSE handled[f]
    BY <1>3, <2>1 DEF Inv, TypeOK
  <2>5. Forward
    <3>1. created \in Nat /\ created <= created'
      BY <2>1 DEF Inv, TypeOK
    <3>2. \A i \in Incarnations : account' # i
      BY <2>1, Values
    <3>3. \A f \in Events : receipts'[f] # receipts[f] => ~Final(f)
      BY <1>3, <2>4
    <3> QED
      BY <2>1, <2>3, <3>1, <3>2, <3>3 DEF Forward
  <2>6. account # None => account < born[e] /\ account \in Incarnations
    BY <1>3 DEF Inv, PerEvent, Captured, TypeOK
  <2>7. ErasedSound'
    <3> SUFFICES ASSUME NEW x \in erased' PROVE queue[x[1]] # None /\ x[2] < born[x[1]]
      BY <1>1 DEF ErasedSound
    <3>1. CASE x \in erased
      BY <3>1 DEF Inv, ErasedSound
    <3>2. CASE account # None /\ x = <<e, account>>
      BY <2>6, <3>2
    <3> QED
      BY <2>1, <3>1, <3>2
  <2>8. AccountSound'
    BY <1>1, <2>1 DEF Inv, AccountSound
  <2>9. TypeOK'
    <3>1. receipts' \in [Events -> Receipts \cup {None}]
      BY <2>1, <2>2 DEF Inv, TypeOK
    <3>2. handled' \in [Events -> Nat]
      BY <1>3 DEF Inv, TypeOK
    <3>3. erased' \subseteq Events \X Incarnations
      BY <2>1, <2>6 DEF Inv, TypeOK
    <3> QED
      BY <1>1, <2>1, <3>1, <3>2, <3>3 DEF Inv, TypeOK
  <2>10. \A f \in Events : Counted(f)' /\ Receipted(f)'
    BY <1>1, <2>2, <2>3, <2>4 DEF Inv, PerEvent, Counted, Receipted
  <2>11. answer.status = 200 /\ answer.result = result
    BY <2>1 DEF Reply
  <2>12. receipts'[e] = result
    BY <2>4
  <2>13. Final(e)'
    BY <2>3, <2>12 DEF Final
  <2>14. ASSUME NEW f \in Events, call'[f] # None
         PROVE  /\ call[f] # None
                /\ call'[f].reply # None =>
                     call'[f].reply = call[f].reply \/ Truthful(f, call[f].reply)'
    <3>1. CASE call'[f].reply = call[f].reply
      BY <2>14, <3>1
    <3>2. CASE f = e /\ call'[f].reply = answer
      <4>1. Truthful(f, call[f].reply)'
        BY <2>3, <2>11, <2>12, <2>13, <3>2 DEF Truthful
      <4> QED
        BY <2>14, <4>1
    <3> QED
      BY <2>14, <3>1, <3>2
  <2> QED
    BY <1>1, <2>5, <2>7, <2>8, <2>9, <2>10, <2>14, ForwardKeeps
<1> QED
  BY <1>2, <1>3, HandleEffect

-----------------------------------------------------------------------------
\* A new job is bound to an incarnation the host knows, or to none.
LEMMA CreateKeeps ==
  ASSUME Inv, NEW e \in Events, Create(e)
  PROVE  Inv'
<1> DEFINE b == EraseForAppEvent(e, stored)
<1>0. QueueTypeOK(Bytes, Answers) /\ QueueSound /\ PerEvent(e)
  BY DEF Inv, TypeOK
<1>1. /\ Enqueue(e, b) /\ born' = [born EXCEPT ![e] = created]
      /\ UNCHANGED << account, created, tombstone, receipts, erased, handled, stored,
                      identified, ledger >>
  BY DEF Create, packVars
<1>2. /\ stored \in Incarnations \cup {None} /\ (stored # None => stored < created)
      /\ created \in 0..IncarnationLimit
  BY DEF Inv, TypeOK, AccountSound
<1>3. b \in Bytes
  BY <1>2 DEF EraseForAppEvent, Bytes
<1>4. b.client_erasure_event_id = e /\ b.expected_link_incarnation_id = stored
  BY DEF EraseForAppEvent
<1> HIDE DEF b
<1>5. /\ QueueTypeOK(Bytes, Answers)' /\ QueueSound'
      /\ queue[e] = None /\ queue' = [queue EXCEPT ![e] = b]
      /\ UNCHANGED << late, status, call, crashes >>
  BY <1>0, <1>1, <1>3, EnqueueKeeps, NoneIsNoEvent
<1>6. \A f \in Events : /\ queue'[f] = IF f = e THEN b ELSE queue[f]
                        /\ born'[f] = IF f = e THEN created ELSE born[f]
  BY <1>0, <1>1, <1>5 DEF QueueTypeOK, Inv, TypeOK
<1>7. PerEvent(e)'
  <2>1. call[e] = None /\ status[e] = "open" /\ receipts[e] = None
    BY <1>0, <1>5 DEF QueueSound, CallSound, PerEvent, Receipted
  <2>2. created <= created
    BY <1>2
  <2>3. Captured(e)'
    BY <1>1, <1>2, <1>4, <1>6, <2>2 DEF Captured
  <2> QED
    BY <1>0, <1>1, <1>5, <2>1, <2>3 DEF PerEvent, Receipted, Counted, Answered, Ended
<1>8. ASSUME NEW f \in Events, f # e PROVE PerEvent(f)'
  <2>1. PerEvent(f) /\ queue'[f] = queue[f] /\ born'[f] = born[f]
    BY <1>6, <1>8 DEF Inv
  <2> QED
    BY <1>1, <1>5, <2>1
       DEF PerEvent, Captured, Receipted, Counted, Answered, Truthful, Final, Gone, Ended
<1>9. ErasedSound'
  <2> SUFFICES ASSUME NEW x \in erased PROVE queue'[x[1]] # None /\ x[2] < born'[x[1]]
    BY <1>1 DEF ErasedSound
  <2>1. x[1] \in Events /\ queue[x[1]] # None /\ x[2] < born[x[1]]
    BY DEF Inv, TypeOK, ErasedSound
  <2> QED
    BY <1>5, <1>6, <2>1
<1>10. TypeOK' /\ AccountSound'
  BY <1>1, <1>2, <1>5 DEF Inv, TypeOK, AccountSound
<1> QED
  BY <1>5, <1>7, <1>8, <1>9, <1>10 DEF Inv

\* The receipt of a success goes to the ledger.
LEMMA PersistKeeps ==
  ASSUME Inv, NEW e \in Events, PersistReceipt(e)
  PROVE  /\ Inv'
         /\ receipts[e] # None
<1>0. QueueTypeOK(Bytes, Answers) /\ QueueSound /\ PerEvent(e)
  BY DEF Inv, TypeOK
<1>1. /\ QueueTypeOK(Bytes, Answers)' /\ QueueSound'
      /\ call[e] # None /\ call[e].pc = "result"
      /\ call[e].reply # None /\ call[e].reply.status = 200
      /\ UNCHANGED << queue, status, late, crashes >>
      /\ \A f \in Events : call'[f] # None =>
           /\ call[f] # None /\ call'[f].reply = call[f].reply
           /\ call'[f].pc = IF f = e THEN "delete" ELSE call[f].pc
  BY <1>0, ProceedKeeps DEF PersistReceipt
<1>2. /\ UNCHANGED << account, created, tombstone, receipts, erased, handled, identified, born >>
      /\ ledger' = ledger \cup {call[e].reply.result.erasure_id}
      /\ stored' = IF stored = queue[e].expected_link_incarnation_id THEN None ELSE stored
  BY DEF PersistReceipt, packVars
<1>3. receipts[e] # None /\ call[e].reply.result = receipts[e]
  BY <1>0, <1>1 DEF PerEvent, Answered, Truthful
<1>4. call[e].reply.result.erasure_id = e
  BY <1>0, <1>3 DEF PerEvent, Receipted
<1>5. TypeOK'
  BY <1>1, <1>2, <1>4 DEF Inv, TypeOK
<1>6. AccountSound'
  BY <1>2 DEF Inv, AccountSound
<1>7. created <= created'
  BY <1>2 DEF Inv, TypeOK
<1> QED
  BY <1>1, <1>2, <1>3, <1>5, <1>6, <1>7, QuietKeeps

\* The event of a success that is in the ledger is deleted.
LEMMA DeletionKeeps ==
  ASSUME Inv, NEW e \in Events, Alone(Delete(e))
  PROVE  /\ Inv'
         /\ receipts[e] # None
<1>0. QueueTypeOK(Bytes, Answers) /\ QueueSound /\ PerEvent(e)
  BY DEF Inv, TypeOK
<1>1. /\ QueueTypeOK(Bytes, Answers)' /\ QueueSound'
      /\ call[e] # None /\ call[e].pc = "delete"
      /\ queue[e] # None /\ status[e] = "open"
      /\ call' = [call EXCEPT ![e] = None]
      /\ status' = [status EXCEPT ![e] = "settled"]
      /\ UNCHANGED << late, queue, crashes >>
  BY <1>0, DeleteKeeps DEF Alone
<1>2. UNCHANGED << account, created, tombstone, receipts, erased, handled, stored,
                   identified, ledger, born >>
  BY DEF Alone, packVars, hostVars
<1>3. \A f \in Events : /\ call'[f] = IF f = e THEN None ELSE call[f]
                        /\ status'[f] = IF f = e THEN "settled" ELSE status[f]
  BY <1>0, <1>1 DEF QueueTypeOK
<1>4. receipts[e] # None
  BY <1>0, <1>1 DEF QueueSound, CallSound, Successful, PerEvent, Answered, Truthful
<1>5. ASSUME NEW f \in Events PROVE PerEvent(f)'
  <2>1. PerEvent(f)
    BY DEF Inv
  <2>2. Captured(f)' /\ Receipted(f)' /\ Counted(f)'
    BY <1>1, <1>2, <2>1 DEF PerEvent, Captured, Receipted, Counted
  <2>3. Answered(f)'
    BY <1>1, <1>2, <1>3, <2>1 DEF PerEvent, Answered, Truthful, Final, Gone
  <2>4. Ended(f)'
    BY <1>1, <1>2, <1>3, <1>4, <2>1 DEF PerEvent, Ended, Final, Gone
  <2> QED
    BY <2>2, <2>3, <2>4 DEF PerEvent
<1>6. TypeOK' /\ AccountSound' /\ ErasedSound'
  BY <1>1, <1>2 DEF Inv, TypeOK, AccountSound, ErasedSound
<1> QED
  BY <1>1, <1>4, <1>5, <1>6 DEF Inv

\* The host's and the network's steps.
LEMMA HostKeeps ==
  ASSUME Inv, NEW e \in Events, Create(e) \/ HostStep(e) \/ NetworkStep(e)
  PROVE  Inv'
<1>0. QueueTypeOK(Bytes, Answers) /\ QueueSound
  BY DEF Inv, TypeOK
<1>1. CASE Redeliver(e)
  <2>1. queue[e] \in Bytes
    BY <1>0, <1>1 DEF Redeliver, Alone, Deliver, QueueTypeOK
  <2>2. Deliver(e, queue[e]) /\ UNCHANGED << packVars, hostVars >>
    BY <1>1, <2>1, Restored DEF Redeliver, Alone
  <2> QED
    BY <1>0, <2>2, DeliverKeeps, NothingNewKeeps
<1>2. CASE NetworkStep(e)
  <2>1. QueueTypeOK(Bytes, Answers)' /\ QueueSound' /\ NothingNew
    BY <1>0, <1>2, TransmitKeeps, ReceiveKeeps, CutKeeps, AbandonKeeps DEF NetworkStep, Alone
  <2>2. UNCHANGED << packVars, hostVars >>
    BY <1>2 DEF NetworkStep, Alone
  <2> QED
    BY <2>1, <2>2, NothingNewKeeps
<1> QED
  BY <1>1, <1>2, CreateKeeps, PersistKeeps, DeletionKeeps DEF HostStep

\* Pack's steps.
LEMMA PackStepKeeps ==
  ASSUME Inv, PackStep
  PROVE  Inv'
<1>1. QueueTypeOK(Bytes, Answers) /\ QueueSound /\ TypeOK /\ AccountSound
  BY DEF Inv, TypeOK
<1>2. ASSUME NEW e \in Events, Serve(e) PROVE Inv'
  <2>1. PICK answer \in Answers : Answer(e, answer) /\ Handle(e, call[e].bytes, answer)
    BY <1>2 DEF Serve
  <2>2. /\ QueueTypeOK(Bytes, Answers)' /\ QueueSound'
        /\ call[e] # None /\ call[e].bytes = queue[e] /\ queue[e] # None
        /\ UNCHANGED << queue, status, crashes, late >>
        /\ \A f \in Events : call'[f] # None =>
             /\ call[f] # None /\ call'[f].pc = call[f].pc
             /\ call'[f].reply = IF f = e THEN answer ELSE call[f].reply
    BY <1>1, <2>1, AnswerKeeps
  <2>3. Handle(e, queue[e], answer) /\ UNCHANGED << hostVars, queue, status >>
    BY <1>2, <2>1, <2>2 DEF Serve
  <2> QED
    BY <2>2, <2>3, PackKeeps
<1>3. ASSUME NEW e \in Events, Alone(AnswerLater(e)) PROVE Inv'
  <2>1. /\ QueueTypeOK(Bytes, Answers)' /\ QueueSound'
        /\ UNCHANGED << queue, status, crashes >>
        /\ \A f \in Events : call'[f] # None =>
             /\ call[f] # None /\ call'[f].pc = call[f].pc
             /\ call'[f].reply = call[f].reply \/ call'[f].reply \in Transient
    BY <1>1, <1>3, AnswerLaterKeeps DEF Alone
  <2>2. UNCHANGED << account, created, tombstone, receipts, erased, handled, stored,
                     identified, ledger, born >>
    BY <1>3 DEF Alone, packVars, hostVars
  <2>3. TypeOK' /\ AccountSound' /\ created <= created'
    BY <1>1, <2>1, <2>2 DEF TypeOK, AccountSound
  <2> QED
    BY <2>1, <2>2, <2>3, QuietKeeps
<1>4. ASSUME NEW copy \in late, ServeLate(copy) PROVE Inv'
  <2> DEFINE e == copy.event
  <2>1. e \in Events /\ copy.bytes = queue[e] /\ copy.bytes \in Bytes
    BY <1>1 DEF QueueTypeOK, QueueSound
  <2>2. queue[e] # None
    BY <2>1, Values
  <2>3. PICK answer \in Answers : Handle(e, queue[e], answer)
    BY <1>4, <2>1 DEF ServeLate
  <2>4. UNCHANGED << hostVars, late, queue, status, call, crashes >>
    BY <1>4 DEF ServeLate, queueVars
  <2>5. QueueTypeOK(Bytes, Answers)' /\ QueueSound'
    BY <1>1, <2>4 DEF QueueTypeOK, QueueSound, CallSound
  <2> HIDE DEF e
  <2>6. \A f \in Events : call'[f] # None =>
          /\ call[f] # None
          /\ call'[f].reply = call[f].reply \/ (f = e /\ call'[f].reply = answer)
    BY <2>4
  <2> QED
    BY <2>1, <2>2, <2>3, <2>4, <2>5, <2>6, PackKeeps
<1> QED
  BY <1>2, <1>3, <1>4 DEF PackStep

\* Identify ceremonies, crashes and stutters.
LEMMA IdentifyKeeps ==
  ASSUME Inv,
         \/ \E id \in Events \cup {None} : Identify(id)
         \/ RecoverExisting
         \/ Alone(Crash)
         \/ UNCHANGED vars
  PROVE  Inv'
<1>1. /\ QueueTypeOK(Bytes, Answers) /\ QueueSound /\ TypeOK /\ AccountSound
      /\ created \in Nat
  BY DEF Inv, TypeOK
<1>2. CASE UNCHANGED queueVars /\ UNCHANGED << receipts, erased, handled, ledger, born >>
  <2>1. UNCHANGED << late, queue, status, call, crashes >>
    BY <1>2 DEF queueVars
  <2>2. QueueTypeOK(Bytes, Answers)' /\ QueueSound'
    BY <1>1, <2>1 DEF QueueTypeOK, QueueSound, CallSound
  <2>3. CASE /\ UNCHANGED << account, created, tombstone >> /\ identified' \in BOOLEAN
             /\ stored' \in {stored, account}
    <3>1. TypeOK' /\ AccountSound' /\ created <= created'
      BY <1>1, <1>2, <2>2, <2>3 DEF TypeOK, AccountSound
    <3> QED
      BY <1>2, <2>1, <2>2, <2>3, <3>1, QuietKeeps
  <2>4. CASE /\ created < IncarnationLimit /\ identified' \in BOOLEAN
             /\ account' = created /\ created' = created + 1 /\ tombstone' = None
             /\ stored' \in {stored, account'}
    <3>1. created \in Incarnations /\ created + 1 \in 0..IncarnationLimit
      BY <1>1, <2>4 DEF Incarnations
    <3>2. created # None /\ created <= created' /\ created < created'
      BY <1>1, <2>4, <3>1, Values
    <3>3. TypeOK'
      BY <1>1, <1>2, <2>2, <2>4, <3>1 DEF TypeOK
    <3>4. AccountSound'
      <4>1. stored # None => stored < created /\ stored \in Nat
        BY <1>1, Values DEF AccountSound, TypeOK
      <4> QED
        BY <1>1, <2>4, <3>2, <4>1 DEF AccountSound
    <3>5. \A i \in Incarnations : i < created /\ account # i => account' # i
      BY <1>1, <2>4
    <3> QED
      BY <1>2, <2>1, <2>2, <2>4, <3>2, <3>3, <3>4, <3>5, QuietKeeps
  <2>5. \/ /\ UNCHANGED << account, created, tombstone >> /\ identified' \in BOOLEAN
           /\ stored' \in {stored, account}
        \/ /\ created < IncarnationLimit /\ identified' \in BOOLEAN
           /\ account' = created /\ created' = created + 1 /\ tombstone' = None
           /\ stored' \in {stored, account'}
    <3>1. CASE \E id \in Events \cup {None} : Identify(id)
      BY <3>1 DEF Identify, Stored, MayRegister
    <3>2. CASE RecoverExisting
      BY <1>1, <3>2 DEF RecoverExisting, Stored, packVars, TypeOK
    <3>3. CASE Alone(Crash)
      BY <1>1, <3>3 DEF Alone, packVars, hostVars, TypeOK
    <3>4. CASE UNCHANGED vars
      BY <1>1, <3>4 DEF vars, packVars, hostVars, TypeOK
    <3> QED
      BY <3>1, <3>2, <3>3, <3>4
  <2> QED
    BY <2>3, <2>4, <2>5
<1>3. CASE Alone(Crash)
  <2>1. /\ QueueTypeOK(Bytes, Answers)' /\ QueueSound'
        /\ call' = [e \in Events |-> None]
        /\ UNCHANGED << queue, status >>
    BY <1>1, <1>3, CrashKeeps DEF Alone
  <2>2. UNCHANGED << account, created, tombstone, receipts, erased, handled, stored,
                     identified, ledger, born >>
    BY <1>3 DEF Alone, packVars, hostVars
  <2>3. TypeOK' /\ AccountSound' /\ created <= created'
    BY <1>1, <2>1, <2>2 DEF TypeOK, AccountSound
  <2> QED
    BY <2>1, <2>2, <2>3, QuietKeeps
<1>4. CASE UNCHANGED vars
  <2>1. UNCHANGED queueVars /\ UNCHANGED << receipts, erased, handled, ledger, born >>
    BY <1>4 DEF vars, packVars, hostVars
  <2> QED
    BY <1>2, <2>1
<1>5. CASE (\E id \in Events \cup {None} : Identify(id)) \/ RecoverExisting
  <2>1. UNCHANGED queueVars /\ UNCHANGED << receipts, erased, handled, ledger, born >>
    BY <1>5 DEF Identify, RecoverExisting, packVars
  <2> QED
    BY <1>2, <2>1
<1> QED
  BY <1>3, <1>4, <1>5

\* Every step keeps the invariant.
LEMMA InvNext == Inv /\ [Next]_vars => Inv'
BY HostKeeps, PackStepKeeps, IdentifyKeeps DEF Next

\* The invariant holds throughout.
LEMMA AlwaysInv == Spec => []Inv
BY InvInit, InvNext, PTL DEF Spec

-----------------------------------------------------------------------------
(***************************************************************************)
(* Type correctness, for any jobs, attempts, crashes and incarnations.     *)
(***************************************************************************)
THEOREM ErasureTypeCorrect == Spec => []TypeOK
BY AlwaysInv, PTL DEF Inv

(***************************************************************************)
(* However late an erasure is delivered, the incarnation it erases existed *)
(* when the user asked for it.                                             *)
(***************************************************************************)
THEOREM LaterAccountsSurvive == Spec => []NewAccountSurvives
<1>1. Inv => NewAccountSurvives
  BY DEF Inv, ErasedSound, NewAccountSurvives
<1> QED
  BY <1>1, AlwaysInv, PTL

-----------------------------------------------------------------------------
\* Every step moves Pack forward, and leaves a queued job as it is.
LEMMA NextForward ==
  ASSUME Inv, [Next]_vars
  PROVE  /\ Forward
         /\ \A f \in Events : queue[f] # None => queue'[f] = queue[f] /\ born'[f] = born[f]
<1> USE DEF Alone
<1>0. /\ QueueTypeOK(Bytes, Answers) /\ QueueSound
      /\ created \in Nat /\ born \in [Events -> 0..IncarnationLimit]
  BY DEF Inv, TypeOK
<1>1. ASSUME UNCHANGED packVars PROVE Forward
  BY <1>0, <1>1 DEF packVars, Forward
<1>2. ASSUME UNCHANGED << queue, born >>
      PROVE  \A f \in Events : queue'[f] = queue[f] /\ born'[f] = born[f]
  BY <1>2
<1>3. ASSUME NEW e \in Events, queue[e] # None, NEW answer \in Answers,
             Handle(e, queue[e], answer)
      PROVE  Forward
  <2>1. CASE /\ Erase(e, queue[e], answer) /\ ~Final(e)
             /\ queue[e].client_erasure_event_id = e
    <3> DEFINE result == EraseForAppResult(e, account # None)
    <3>1. /\ receipts' = [receipts EXCEPT ![e] = result]
          /\ tombstone' = e /\ account' = None /\ created' = created
      BY <2>1 DEF Erase
    <3> HIDE DEF result
    <3>2. \A i \in Incarnations : account' # i
      BY <3>1, Values
    <3>3. \A f \in Events : receipts'[f] # receipts[f] => ~Final(f)
      BY <2>1, <3>1 DEF Inv, TypeOK
    <3> QED
      BY <1>0, <3>1, <3>2, <3>3, QueueAssumption DEF Forward
  <2> QED
    BY <1>1, <1>3, <2>1, HandleEffect
<1>4. ASSUME NEW e \in Events, Create(e)
      PROVE  \A f \in Events : queue[f] # None => queue'[f] = queue[f] /\ born'[f] = born[f]
  <2>1. /\ queue[e] = None /\ born' = [born EXCEPT ![e] = created]
        /\ queue' = [queue EXCEPT ![e] = EraseForAppEvent(e, stored)]
    BY <1>4 DEF Create, Enqueue
  <2> QED
    BY <1>0, <2>1 DEF QueueTypeOK
<1>5. CASE \E e \in Events : Create(e) \/ HostStep(e) \/ NetworkStep(e)
  <2>1. UNCHANGED packVars
    BY <1>5 DEF Create, HostStep, NetworkStep, Redeliver, PersistReceipt
  <2>2. PICK e \in Events : Create(e) \/ HostStep(e) \/ NetworkStep(e)
    BY <1>5
  <2>3. CASE HostStep(e) \/ NetworkStep(e)
    <3>1. UNCHANGED << queue, born >>
      BY <2>3 DEF HostStep, NetworkStep, Redeliver, PersistReceipt, Deliver, Proceed,
                  Delete, Transmit, Receive, Cut, Abandon, hostVars
    <3> QED
      BY <1>1, <1>2, <2>1, <3>1
  <2> QED
    BY <1>1, <1>4, <2>1, <2>2, <2>3
<1>6. CASE PackStep
  <2>1. UNCHANGED << queue, born >>
    BY <1>6 DEF PackStep, Serve, ServeLate, AnswerLater, Answer, hostVars, queueVars
  <2>2. ASSUME NEW e \in Events, Serve(e) PROVE Forward
    <3>1. PICK answer \in Answers : Answer(e, answer) /\ Handle(e, call[e].bytes, answer)
      BY <2>2 DEF Serve
    <3>2. call[e].bytes = queue[e] /\ queue[e] # None
      BY <1>0, <3>1, AnswerKeeps
    <3> QED
      BY <1>3, <3>1, <3>2
  <2>3. ASSUME NEW copy \in late, ServeLate(copy) PROVE Forward
    <3>1. /\ copy.event \in Events /\ copy.bytes \in Bytes
          /\ copy.bytes = queue[copy.event]
      BY <1>0 DEF QueueTypeOK, QueueSound
    <3>2. queue[copy.event] # None
      BY <3>1, Values
    <3>3. PICK answer \in Answers : Handle(copy.event, queue[copy.event], answer)
      BY <2>3, <3>1 DEF ServeLate
    <3> QED
      BY <1>3, <3>1, <3>2, <3>3
  <2>4. Forward
    BY <1>1, <1>6, <2>2, <2>3 DEF PackStep
  <2> QED
    BY <1>2, <2>1, <2>4
<1>7. CASE \E id \in Events \cup {None} : Identify(id)
  <2>1. UNCHANGED << receipts, queue, born >>
    BY <1>7 DEF Identify, queueVars
  <2>2. \/ UNCHANGED << account, created, tombstone >>
        \/ account' = created /\ created' = created + 1 /\ created < IncarnationLimit
    BY <1>7 DEF Identify, MayRegister
  <2>3. CASE UNCHANGED << account, created, tombstone >>
    BY <1>0, <1>2, <2>1, <2>3 DEF Forward
  <2>4. CASE account' = created /\ created' = created + 1 /\ created < IncarnationLimit
    <3>1. created \in Incarnations /\ created # None
      BY <1>0, <2>4, Values DEF Incarnations
    <3>2. \A i \in Incarnations : i < created => account' # i
      BY <1>0, <2>4, Values
    <3> QED
      BY <1>0, <1>2, <2>1, <2>4, <3>1, <3>2 DEF Forward
  <2> QED
    BY <2>2, <2>3, <2>4
<1>8. CASE RecoverExisting \/ Alone(Crash) \/ UNCHANGED vars
  <2>1. UNCHANGED packVars /\ UNCHANGED << queue, born >>
    BY <1>8 DEF RecoverExisting, Crash, vars, hostVars, queueVars
  <2> QED
    BY <1>1, <1>2, <2>1
<1> QED
  BY <1>5, <1>6, <1>7, <1>8 DEF Next

\* With one attempt no call keeps an earlier status.
NoEarlierStatus ==
  \A e \in Events : call[e] # None => call[e].terminal_status = None

LEMMA NoEarlierStatusNext ==
  ASSUME AttemptLimit = 1, Inv, NoEarlierStatus, [Next]_vars
  PROVE  NoEarlierStatus'
<1> USE DEF Alone
<1>0. QueueTypeOK(Bytes, Answers)
  BY DEF Inv, TypeOK
<1>1. ASSUME NEW e \in Events, NEW c, call' = [call EXCEPT ![e] = c],
             c # None => c.terminal_status = None
      PROVE  NoEarlierStatus'
  <2>1. \A f \in Events : call'[f] = IF f = e THEN c ELSE call[f]
    BY <1>0, <1>1 DEF QueueTypeOK
  <2> QED
    BY <1>1, <2>1 DEF NoEarlierStatus
<1>2. ASSUME NEW e \in Events, call[e] # None
      PROVE  /\ call[e] \in Calls(Bytes, Answers) /\ call[e].terminal_status = None
             /\ ~MayRetry(call[e])
  <2>1. call[e] \in Calls(Bytes, Answers)
    BY <1>0, <1>2, TypedCall
  <2> QED
    BY <1>2, <2>1 DEF NoEarlierStatus, Calls, MayRetry
<1>3. ASSUME NEW e \in Events, call[e] # None, NEW pc,
             call' = [call EXCEPT ![e].pc = pc]
      PROVE  NoEarlierStatus'
  <2>1. [call[e] EXCEPT !.pc = pc].terminal_status = None
    BY <1>2, <1>3 DEF Calls
  <2>2. call' = [call EXCEPT ![e] = [call[e] EXCEPT !.pc = pc]]
    BY <1>3
  <2> QED
    BY <1>1, <2>1, <2>2
<1>4. ASSUME NEW e \in Events, call[e] # None, NEW reply,
             call' = [call EXCEPT ![e].reply = reply]
      PROVE  NoEarlierStatus'
  <2>1. [call[e] EXCEPT !.reply = reply].terminal_status = None
    BY <1>2, <1>4 DEF Calls
  <2>2. call' = [call EXCEPT ![e] = [call[e] EXCEPT !.reply = reply]]
    BY <1>4
  <2> QED
    BY <1>1, <2>1, <2>2
<1>5. ASSUME NEW e \in Events, Create(e) PROVE NoEarlierStatus'
  BY <1>5 DEF Create, Enqueue, NoEarlierStatus
<1>6. ASSUME NEW e \in Events, Redeliver(e) PROVE NoEarlierStatus'
  <2> DEFINE c == NewCall(FromRequestBytes(queue[e]))
  <2>1. call' = [call EXCEPT ![e] = c]
    BY <1>6 DEF Redeliver, Deliver
  <2>2. c.terminal_status = None
    BY DEF NewCall
  <2> HIDE DEF c
  <2> QED
    BY <1>1, <2>1, <2>2
<1>7. ASSUME NEW e \in Events, PersistReceipt(e) \/ Delete(e) PROVE NoEarlierStatus'
  <2>1. CASE PersistReceipt(e)
    BY <1>3, <2>1 DEF PersistReceipt, Proceed
  <2>2. CASE Delete(e)
    BY <1>1, <2>2 DEF Delete
  <2> QED
    BY <1>7, <2>1, <2>2
<1>8. ASSUME NEW e \in Events, Transmit(e) PROVE NoEarlierStatus'
  <2> DEFINE c == [call[e] EXCEPT !.pc = "await", !.reply = None]
  <2>1. call[e] # None /\ call' = [call EXCEPT ![e] = c]
    BY <1>0, <1>8 DEF Transmit, QueueTypeOK
  <2>2. c.terminal_status = None
    BY <1>2, <2>1 DEF Calls
  <2> HIDE DEF c
  <2> QED
    BY <1>1, <2>1, <2>2
<1>9. ASSUME NEW e \in Events, Receive(e) PROVE NoEarlierStatus'
  <2>1. call[e] # None /\ ~MayRetry(call[e])
    BY <1>2, <1>9 DEF Receive
  <2>2. call' = [call EXCEPT ![e].pc = "result"] \/ call' = [call EXCEPT ![e] = None]
    BY <1>9, <2>1 DEF Receive, Conclude
  <2> QED
    BY <1>1, <1>3, <2>1, <2>2
<1>10. ASSUME NEW e \in Events, Cut(e) PROVE NoEarlierStatus'
  <2>1. call[e] # None /\ ~MayRetry(call[e])
    BY <1>2, <1>10 DEF Cut
  <2>2. call' = [call EXCEPT ![e] = None]
    BY <1>10, <2>1 DEF Cut, Conclude
  <2> QED
    BY <1>1, <2>2
<1>11. ASSUME NEW e \in Events, Serve(e) \/ AnswerLater(e) PROVE NoEarlierStatus'
  <2>1. call[e] # None /\ \E reply : call' = [call EXCEPT ![e].reply = reply]
    BY <1>11 DEF Serve, Answer, AnswerLater, Unseen
  <2> QED
    BY <1>4, <2>1
<1>12. ASSUME UNCHANGED call \/ Crash PROVE NoEarlierStatus'
  BY <1>12 DEF NoEarlierStatus, Crash
<1>13. CASE PackStep
  <2>1. ASSUME NEW copy \in late, ServeLate(copy) PROVE NoEarlierStatus'
    BY <1>12, <2>1 DEF ServeLate, queueVars
  <2> QED
    BY <1>11, <1>13, <2>1 DEF PackStep
<1>14. CASE (\E id \in Events \cup {None} : Identify(id)) \/ RecoverExisting \/ UNCHANGED vars
  BY <1>12, <1>14 DEF Identify, RecoverExisting, vars, queueVars
<1>15. ASSUME NEW e \in Events, Abandon(e) PROVE NoEarlierStatus'
  BY <1>1, <1>15 DEF Abandon, Conclude
<1> QED
  BY <1>5, <1>6, <1>7, <1>8, <1>9, <1>10, <1>12, <1>13, <1>14, <1>15
     DEF Next, HostStep, NetworkStep

\* A job that was dropped had no effect, and will have none.
DroppedIsGone ==
  \A e \in Events : status[e] = "dropped" => receipts[e] = None /\ Gone(e)

LEMMA DroppedIsGoneNext ==
  ASSUME AttemptLimit = 1, Inv, NoEarlierStatus, DroppedIsGone, [Next]_vars
  PROVE  DroppedIsGone'
<1> USE DEF Alone
<1> SUFFICES ASSUME NEW e \in Events, status'[e] = "dropped"
             PROVE  receipts'[e] = None /\ Gone(e)'
  BY DEF DroppedIsGone
<1>0. QueueTypeOK(Bytes, Answers) /\ QueueSound /\ PerEvent(e)
  BY DEF Inv, TypeOK
<1>1. CASE status[e] = "dropped"
  <2>1. receipts[e] = None /\ Gone(e) /\ queue[e] # None
    BY <1>0, <1>1 DEF DroppedIsGone, QueueSound
  <2>2. Forward /\ queue'[e] = queue[e] /\ born'[e] = born[e] /\ created' \in Nat
    BY <2>1, NextForward, InvNext DEF Inv, TypeOK
  <2>3. Gone(e)' /\ (Final(e) => receipts'[e] = receipts[e])
    BY <2>1, <2>2, StaysFinal
  <2> QED
    BY <2>1, <2>3 DEF Final
<1>2. ASSUME NEW f \in Events, Receive(f), UNCHANGED << packVars, hostVars >>,
             status[e] # "dropped"
      PROVE  receipts'[e] = None /\ Gone(e)'
  <2> DEFINE c == call[f]
  <2>1. c # None /\ c \in Calls(Bytes, Answers) /\ c.terminal_status = None /\ c.reply # None
    BY <1>0, <1>2, TypedCall DEF Receive, NoEarlierStatus
  <2>2. Conclude(f, Disposition(c.reply.status, c.reply.code)) /\ c.reply.status # 200
    BY <1>2, <2>1 DEF Receive
  <2>3. f = e /\ Disposition(c.reply.status, c.reply.code) # "retry_same_event"
    BY <1>0, <1>2, <2>2 DEF Conclude, QueueTypeOK
  <2>4. Refused(c.reply)
    BY <2>3 DEF Refused
  <2>5. receipts[e] = None /\ Gone(e)
    BY <1>0, <2>1, <2>2, <2>3, <2>4 DEF PerEvent, Answered, Truthful
  <2>6. UNCHANGED << receipts, account, tombstone, queue >>
    BY <1>2 DEF packVars, Receive
  <2> QED
    BY <2>5, <2>6 DEF Gone
<1>3. ASSUME NEW f \in Events, Cut(f) PROVE status[e] = "dropped"
  <2>1. call[f] # None /\ call[f] \in Calls(Bytes, Answers)
    BY <1>0, <1>3, TypedCall DEF Cut
  <2>2. ~MayRetry(call[f])
    BY <2>1 DEF Calls, MayRetry
  <2>3. Conclude(f, "retry_same_event")
    BY <1>3, <2>2 DEF Cut
  <2> QED
    BY <1>0, <2>3 DEF Conclude, QueueTypeOK
<1>4. ASSUME NEW f \in Events, Delete(f) PROVE status[e] = "dropped"
  BY <1>0, <1>4 DEF Delete, QueueTypeOK
<1>5. ASSUME UNCHANGED status PROVE status[e] = "dropped"
  BY <1>5
<1>6. ASSUME NEW f \in Events, Create(f) \/ HostStep(f) \/ NetworkStep(f),
             status[e] # "dropped"
      PROVE  receipts'[e] = None /\ Gone(e)'
  <2>1. ASSUME Create(f) \/ Redeliver(f) \/ PersistReceipt(f) \/ Transmit(f)
        PROVE  FALSE
    BY <1>5, <1>6, <2>1
       DEF Create, Enqueue, Redeliver, Deliver, PersistReceipt, Proceed, Transmit
  <2>2. ASSUME Abandon(f) PROVE FALSE
    BY <1>0, <1>6, <2>2 DEF Abandon, Conclude, QueueTypeOK
  <2> QED
    BY <1>2, <1>3, <1>4, <1>6, <2>1, <2>2 DEF HostStep, NetworkStep
<1>7. ASSUME \/ PackStep \/ RecoverExisting \/ Crash \/ UNCHANGED vars
             \/ \E id \in Events \cup {None} : Identify(id)
      PROVE  status[e] = "dropped"
  <2>1. UNCHANGED status
    BY <1>7 DEF PackStep, Serve, Answer, AnswerLater, ServeLate, RecoverExisting, Crash,
                vars, queueVars, Identify
  <2> QED
    BY <1>5, <2>1
<1> QED
  BY <1>1, <1>6, <1>7 DEF Next

(***************************************************************************)
(* Delivered in single attempts, no job that took effect is dropped as     *)
(* refused.                                                                *)
(***************************************************************************)
THEOREM ErasedJobsKept ==
  ASSUME AttemptLimit = 1
  PROVE  Spec => []ErasedIsNotDropped
<1> DEFINE SInv == NoEarlierStatus /\ DroppedIsGone
<1>1. Init => SInv
  BY DEF Init, InitQueue, NoEarlierStatus, DroppedIsGone
<1>2. Inv /\ SInv /\ [Next]_vars => SInv'
  BY NoEarlierStatusNext, DroppedIsGoneNext
<1>3. Inv /\ SInv => ErasedIsNotDropped
  BY DEF Inv, PerEvent, Counted, DroppedIsGone, ErasedIsNotDropped
<1> HIDE DEF SInv
<1> QED
  BY <1>1, <1>2, <1>3, AlwaysInv, PTL DEF Spec

-----------------------------------------------------------------------------
\* A step in which queue, effects and verdicts stay is a stutter.
LEMMA DeliveryStutters ==
  ASSUME UNCHANGED << queue, status, handled >>
  PROVE  UNCHANGED Delivery!delivery
BY DEF Delivery!delivery

\* Pack's handling of a request is an effect of an open job, or none.
LEMMA HandleDelivers ==
  ASSUME Inv, NEW e \in Events, queue[e] # None, NEW answer \in Answers,
         Handle(e, queue[e], answer), UNCHANGED << queue, status >>
  PROVE  Delivery!Next \/ UNCHANGED Delivery!delivery
<1>1. CASE UNCHANGED packVars
  BY <1>1, DeliveryStutters DEF packVars
<1>2. CASE ~Final(e) /\ handled[e] = 0 /\ handled' = [handled EXCEPT ![e] = 1]
  <2>1. status[e] \in {"open", "settled", "dropped"}
    BY DEF Inv, TypeOK, QueueTypeOK
  <2>2. status[e] = "open"
    BY <1>2, <2>1 DEF Inv, PerEvent, Ended, Final
  <2>3. Delivery!TakeEffect(e)
    BY <1>2, <2>2 DEF Delivery!TakeEffect
  <2> QED
    BY <2>3 DEF Delivery!Next
<1> QED
  BY <1>1, <1>2, HandleEffect

\* Every step is one of the abstract queue, or none.
LEMMA StepDelivers ==
  ASSUME Inv, [Next]_vars
  PROVE  [Delivery!Next]_(Delivery!delivery)
<1> SUFFICES Delivery!Next \/ UNCHANGED Delivery!delivery
  OBVIOUS
<1>0. /\ QueueTypeOK(Bytes, Answers) /\ QueueSound
      /\ \A e \in Events : PerEvent(e)
  BY DEF Inv, TypeOK
<1>1. ASSUME NEW e \in Events, Create(e)
      PROVE  Delivery!Next \/ UNCHANGED Delivery!delivery
  <2> DEFINE b == EraseForAppEvent(e, stored)
  <2>1. /\ queue[e] = None /\ queue' = [queue EXCEPT ![e] = b]
        /\ UNCHANGED << status, handled >>
    BY <1>1 DEF Create, Enqueue, packVars
  <2>2. b \in Bytes
    BY DEF EraseForAppEvent, Bytes, Inv, TypeOK
  <2>3. b # None
    BY <2>2, Values
  <2> HIDE DEF b
  <2>4. \A f \in Events : queue'[f] = IF f = e THEN b ELSE queue[f]
    BY <1>0, <2>1 DEF QueueTypeOK
  <2>5. {f \in Events : queue'[f] # None} = {f \in Events : queue[f] # None} \cup {e}
    BY <2>3, <2>4
  <2>6. Delivery!Queue(e)
    BY <2>1, <2>5 DEF Delivery!Queue
  <2> QED
    BY <2>6 DEF Delivery!Next
<1>2. ASSUME NEW e \in Events, Redeliver(e) \/ PersistReceipt(e)
      PROVE  Delivery!Next \/ UNCHANGED Delivery!delivery
  <2>1. UNCHANGED << queue, status, handled >>
    BY <1>2 DEF Redeliver, PersistReceipt, Alone, Deliver, Proceed, packVars
  <2> QED
    BY <2>1, DeliveryStutters
<1>3. ASSUME NEW e \in Events, Alone(Delete(e))
      PROVE  Delivery!Next \/ UNCHANGED Delivery!delivery
  <2>1. /\ call[e] # None /\ call[e].pc = "delete" /\ status[e] = "open"
        /\ status' = [status EXCEPT ![e] = "settled"] /\ queue' = queue
        /\ handled' = handled
    BY <1>0, <1>3, DeleteKeeps DEF Alone, packVars
  <2>2. receipts[e] # None
    BY <1>3, DeletionKeeps
  <2>3. handled[e] = 1
    BY <1>0, <2>2 DEF PerEvent, Counted
  <2>4. Delivery!Settle(e)
    BY <2>1, <2>3 DEF Delivery!Settle
  <2> QED
    BY <2>4 DEF Delivery!Next
<1>4. ASSUME NEW e \in Events, NetworkStep(e)
      PROVE  Delivery!Next \/ UNCHANGED Delivery!delivery
  <2>1. NothingNew /\ queue' = queue /\ handled' = handled
    BY <1>0, <1>4, TransmitKeeps, ReceiveKeeps, CutKeeps, AbandonKeeps
       DEF NetworkStep, Alone, NothingNew, packVars
  <2>2. status' = status \/ \E s : status' = [status EXCEPT ![e] = s]
    BY <1>4, OneStatus DEF NetworkStep, Alone
  <2>3. CASE status' = status
    BY <2>1, <2>3, DeliveryStutters
  <2>4. CASE status' # status
    <3>1. PICK s : status' = [status EXCEPT ![e] = s]
      BY <2>2, <2>4
    <3>2. status \in [Events -> {"open", "settled", "dropped"}]
      BY <1>0 DEF QueueTypeOK
    <3>3. status'[e] # status[e] /\ status'[e] = s
      BY <2>4, <3>1, <3>2
    <3>4. s = "dropped" /\ call[e] # None
      BY <2>1, <3>3 DEF NothingNew
    <3>5. status[e] = "open" /\ queue[e] # None
      BY <1>0, <3>4 DEF QueueSound, CallSound
    <3>6. Delivery!Drop(e)
      BY <2>1, <3>1, <3>4, <3>5 DEF Delivery!Drop
    <3> QED
      BY <3>6 DEF Delivery!Next
  <2> QED
    BY <2>3, <2>4
<1>5. CASE PackStep
  <2>1. ASSUME NEW e \in Events, Serve(e)
        PROVE  Delivery!Next \/ UNCHANGED Delivery!delivery
    <3>1. PICK answer \in Answers : Answer(e, answer) /\ Handle(e, call[e].bytes, answer)
      BY <2>1 DEF Serve
    <3>2. call[e].bytes = queue[e] /\ queue[e] # None /\ UNCHANGED << queue, status >>
      BY <1>0, <2>1, <3>1, AnswerKeeps
    <3> QED
      BY <3>1, <3>2, HandleDelivers
  <2>2. ASSUME NEW copy \in late, ServeLate(copy)
        PROVE  Delivery!Next \/ UNCHANGED Delivery!delivery
    <3>1. /\ copy.event \in Events /\ copy.bytes \in Bytes
          /\ copy.bytes = queue[copy.event]
      BY <1>0 DEF QueueTypeOK, QueueSound
    <3>2. queue[copy.event] # None
      BY <3>1, Values
    <3>3. PICK answer \in Answers : Handle(copy.event, queue[copy.event], answer)
      BY <2>2, <3>1 DEF ServeLate
    <3>4. UNCHANGED << queue, status >>
      BY <2>2 DEF ServeLate, queueVars
    <3> QED
      BY <3>1, <3>2, <3>3, <3>4, HandleDelivers
  <2>3. ASSUME NEW e \in Events, Alone(AnswerLater(e))
        PROVE  Delivery!Next \/ UNCHANGED Delivery!delivery
    BY <2>3, DeliveryStutters DEF Alone, AnswerLater, packVars
  <2> QED
    BY <1>5, <2>1, <2>2, <2>3 DEF PackStep
<1>6. CASE \/ RecoverExisting \/ Alone(Crash) \/ UNCHANGED vars
           \/ \E id \in Events \cup {None} : Identify(id)
  <2>1. UNCHANGED << queue, status, handled >>
    BY <1>6 DEF Identify, RecoverExisting, Alone, Crash, vars, packVars, queueVars
  <2> QED
    BY <2>1, DeliveryStutters
<1> QED
  BY <1>1, <1>2, <1>3, <1>4, <1>5, <1>6 DEF Next, HostStep

(***************************************************************************)
(* The erasure queue implements the safety part of DurableDelivery: no job *)
(* is carried out twice, none is settled before it was carried out, and    *)
(* none is carried out after it was dropped.                               *)
(***************************************************************************)
THEOREM ErasureDeliversDurably == Spec => DeliversDurably
<1>1. Init => Delivery!Init
  BY DEF Init, InitQueue, Delivery!Init
<1>2. Inv /\ [Next]_vars => [Delivery!Next]_(Delivery!delivery)
  BY StepDelivers
<1> QED
  BY <1>1, <1>2, AlwaysInv, PTL DEF Spec, DeliversDurably, Delivery!Safe
=============================================================================
