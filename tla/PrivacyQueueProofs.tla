------------------------- MODULE PrivacyQueueProofs -------------------------
(***************************************************************************)
(* What PrivacyQueue promises for any events, incarnations, generations,   *)
(* attempts and crashes.                                                   *)
(***************************************************************************)
EXTENDS PrivacyQueue, DurableQueueProofs

USE IncarnationAssumption, GenerationAssumption

(***************************************************************************)
(* Pack's pairs are ordered: by incarnation, then by generation.           *)
(***************************************************************************)
Older(p, q) ==
  \/ p.link_incarnation_id < q.link_incarnation_id
  \/ /\ p.link_incarnation_id = q.link_incarnation_id
     /\ p.privacy_generation < q.privacy_generation

NotNewer(p, q) ==
  \/ p.link_incarnation_id < q.link_incarnation_id
  \/ /\ p.link_incarnation_id = q.link_incarnation_id
     /\ p.privacy_generation <= q.privacy_generation

\* A pair is its two fields, each of its type.
LEMMA PairOf ==
  ASSUME NEW p \in Pair
  PROVE  /\ p = [ link_incarnation_id |-> p.link_incarnation_id,
                  privacy_generation |-> p.privacy_generation ]
         /\ p.link_incarnation_id \in Incarnations
         /\ p.privacy_generation \in Generations
BY DEF Pair

\* Reconciling keeps one of the two pairs.
LEMMA Reconciled ==
  ASSUME NEW s \in Pair, NEW r \in Pair
  PROVE  ReconcileIdentify(s, r) \in {s, r}
<1>1. CASE r.link_incarnation_id # s.link_incarnation_id
  BY <1>1, PairOf DEF ReconcileIdentify, FromIdentify
<1>2. CASE r.link_incarnation_id = s.link_incarnation_id
  <2>1. r = [ link_incarnation_id |-> s.link_incarnation_id,
              privacy_generation |-> r.privacy_generation ]
    BY <1>2, PairOf
  <2> QED
    BY <1>2, <2>1 DEF ReconcileIdentify, ObserveGeneration, Pair
<1> QED
  BY <1>1, <1>2

\* The fields of a pair are natural numbers.
LEMMA PairFields ==
  ASSUME NEW p \in Pair
  PROVE  /\ p.link_incarnation_id \in Incarnations /\ p.link_incarnation_id \in Nat
         /\ p.privacy_generation \in Generations /\ p.privacy_generation \in Nat
<1>1. p.link_incarnation_id \in Incarnations /\ p.privacy_generation \in Generations
  BY PairOf
<1>2. p.link_incarnation_id \in Nat
  BY <1>1
<1>3. p.privacy_generation \in Nat
  BY <1>1 DEF Generations
<1> QED
  BY <1>1, <1>2, <1>3

\* The order is one.
LEMMA Ordered ==
  ASSUME NEW p \in Pair, NEW q \in Pair, NEW r \in Pair, NotNewer(q, r)
  PROVE  /\ NotNewer(p, q) => NotNewer(p, r)
         /\ Older(p, q) => Older(p, r)
         /\ NotNewer(p, p) /\ ~Older(p, p)
         /\ NotNewer(p, q) /\ p # q => Older(p, q)
<1>1. /\ p.link_incarnation_id \in Nat /\ p.privacy_generation \in Nat
      /\ q.link_incarnation_id \in Nat /\ q.privacy_generation \in Nat
      /\ r.link_incarnation_id \in Nat /\ r.privacy_generation \in Nat
  BY PairFields
<1>2. /\ NotNewer(p, q) => NotNewer(p, r)
      /\ Older(p, q) => Older(p, r)
      /\ NotNewer(p, p) /\ ~Older(p, p)
  BY <1>1 DEF NotNewer, Older
<1>3. NotNewer(p, q) /\ p # q => Older(p, q)
  BY <1>1, PairOf DEF NotNewer, Older
<1> QED
  BY <1>2, <1>3

-----------------------------------------------------------------------------
(***************************************************************************)
(* The inductive invariant.  An event captured a pair the account was in,  *)
(* of no later incarnation than the host's.                                *)
(***************************************************************************)
Captured(e) ==
  queue[e] # None =>
    /\ queue[e].id = e
    /\ NotNewer(queue[e].tokens, account)
    /\ queue[e].tokens.link_incarnation_id <= stored.link_incarnation_id

\* A receipt is of a queued event applied once, in the account's past.
ResultPair(e) ==
  [ link_incarnation_id |-> queue[e].tokens.link_incarnation_id,
    privacy_generation |-> receipts[e] ]

Receipted(e) ==
  receipts[e] # None => queue[e] # None /\ NotNewer(ResultPair(e), account)

Counted(e) == applied[e] = IF receipts[e] = None THEN 0 ELSE 1

(***************************************************************************)
(* No request for the event can be applied any more: it has a receipt, or  *)
(* the account has left its pair for good.                                 *)
(***************************************************************************)
Final(e) == receipts[e] # None \/ Older(queue[e].tokens, account)

\* The event was applied, and the host has seen its result.
Done(e) ==
  /\ receipts[e] # None
  /\ \/ stored.link_incarnation_id # queue[e].tokens.link_incarnation_id
     \/ receipts[e] <= stored.privacy_generation

(***************************************************************************)
(* An answer is the receipt's, or a refusal that stays true.               *)
(***************************************************************************)
Truthful(e, reply) ==
  /\ reply.status = 200 =>
       receipts[e] # None /\ reply.result = PrivacyGenerationResult(receipts[e])
  /\ Refused(reply) => Final(e)

Answered(e) ==
  call[e] # None =>
    /\ call[e].reply # None => Truthful(e, call[e].reply)
    /\ call[e].pc = "delete" => Done(e)

Ended(e) ==
  /\ status[e] = "settled" => Done(e)
  /\ status[e] = "dropped" => Final(e)

PerEvent(e) == Captured(e) /\ Receipted(e) /\ Counted(e) /\ Answered(e) /\ Ended(e)

Inv ==
  /\ TypeOK
  /\ QueueSound
  /\ NotNewer(stored, account)
  /\ \A e \in Events : PerEvent(e)

-----------------------------------------------------------------------------
\* An answer that says nothing final is no success and no refusal.
LEMMA TransientIsNotFinal ==
  ASSUME NEW reply \in Transient
  PROVE  reply.status # 200 /\ ~Refused(reply)
BY NoneIsNoValue
   DEF Transient, Busy, Unavailable, Reply, Refused, Disposition, CodeDisposition,
       RetryCodes, DefaultDisposition, TransientStatus, PrivacyOperationErrorCode

\* A generation is none of None, and neither are an event's bytes.
LEMMA Values ==
  /\ \A g \in Generations : g # None
  /\ \A b \in Bytes : b # None /\ b.id \in Events /\ b.tokens \in Pair
BY NoneIsNoValue, NoneIsNoEvent DEF Generations, Bytes

\* Restoring an event from its bytes gives the bytes back.
LEMMA Restored ==
  ASSUME NEW b \in Bytes
  PROVE  FromRequestBytes(b) = b
BY DEF FromRequestBytes, Bytes

(***************************************************************************)
(* What remains true of an event when the account moves on, receipts are   *)
(* added and the host learns newer pairs: nothing final is ever undone.    *)
(***************************************************************************)
Forward ==
  /\ account' \in Pair /\ NotNewer(account, account')
  /\ stored' \in Pair /\ NotNewer(stored, stored')
  /\ receipts' \in [Events -> Generations \cup {None}]
  /\ \A f \in Events : receipts[f] # None => receipts'[f] = receipts[f]

LEMMA StaysFinal ==
  ASSUME Inv, Forward, NEW e \in Events, queue'[e] = queue[e], queue[e] # None
  PROVE  /\ Final(e) => Final(e)'
         /\ Done(e) => Done(e)'
         /\ Captured(e) => Captured(e)'
         /\ Receipted(e) /\ receipts'[e] = receipts[e] => Receipted(e)'
<1> DEFINE b == queue[e]
<1>1. /\ b \in Bytes /\ b.tokens \in Pair /\ account \in Pair /\ stored \in Pair
      /\ account' \in Pair /\ stored' \in Pair
  BY Values DEF Inv, TypeOK, QueueTypeOK, Forward
<1>2. /\ b.tokens.link_incarnation_id \in Nat /\ b.tokens.privacy_generation \in Nat
      /\ stored.link_incarnation_id \in Nat /\ stored.privacy_generation \in Nat
      /\ stored'.link_incarnation_id \in Nat /\ stored'.privacy_generation \in Nat
  BY <1>1, PairFields
<1>3. NotNewer(stored, stored') /\ NotNewer(account, account')
  BY DEF Forward
<1>4. Final(e) => Final(e)'
  <2>1. Older(b.tokens, account) => Older(b.tokens, account')
    BY <1>1, <1>3, Ordered
  <2> QED
    BY <2>1 DEF Final, Forward
<1>5. b.tokens.link_incarnation_id <= stored.link_incarnation_id
  BY DEF Inv, PerEvent, Captured
<1>6. Done(e) => Done(e)'
  <2> SUFFICES ASSUME Done(e) PROVE Done(e)'
    OBVIOUS
  <2>1. receipts[e] # None /\ receipts'[e] = receipts[e]
    BY DEF Done, Forward
  <2>2. receipts[e] \in Nat
    BY <2>1 DEF Inv, TypeOK, Generations
  <2>3. \/ stored.link_incarnation_id # b.tokens.link_incarnation_id
        \/ receipts[e] <= stored.privacy_generation
    BY DEF Done
  <2>4. \/ stored'.link_incarnation_id # b.tokens.link_incarnation_id
        \/ receipts[e] <= stored'.privacy_generation
    BY <1>2, <1>3, <1>5, <2>2, <2>3 DEF NotNewer
  <2> QED
    BY <2>1, <2>4 DEF Done
<1>7. Captured(e) => Captured(e)'
  <2>1. NotNewer(b.tokens, account) => NotNewer(b.tokens, account')
    BY <1>1, <1>3, Ordered
  <2>2. b.tokens.link_incarnation_id <= stored'.link_incarnation_id
    BY <1>2, <1>3, <1>5 DEF NotNewer
  <2> QED
    BY <2>1, <2>2 DEF Captured
<1>8. Receipted(e) /\ receipts'[e] = receipts[e] => Receipted(e)'
  <2> SUFFICES ASSUME Receipted(e), receipts'[e] = receipts[e], receipts[e] # None
               PROVE  NotNewer(ResultPair(e)', account')
    BY DEF Receipted
  <2>1. receipts[e] \in Generations
    BY DEF Inv, TypeOK
  <2>2. ResultPair(e) \in Pair /\ ResultPair(e)' = ResultPair(e)
    BY <1>1, <2>1 DEF ResultPair, Pair
  <2>3. NotNewer(ResultPair(e), account)
    BY DEF Receipted
  <2> HIDE DEF b
  <2> QED
    BY <1>1, <1>3, <2>2, <2>3, Ordered
<1> QED
  BY <1>4, <1>6, <1>7, <1>8

-----------------------------------------------------------------------------
\* The initial states satisfy the invariant.
LEMMA InvInit == Init => Inv
<1> SUFFICES ASSUME Init PROVE Inv
  OBVIOUS
<1>1. account \in Pair /\ stored = account /\ InitQueue
  BY DEF Init
<1>2. QueueTypeOK(Bytes, Answers) /\ QueueSound
  BY <1>1, InitSound
<1>3. TypeOK
  BY <1>1, <1>2 DEF Init, TypeOK
<1>4. NotNewer(stored, account)
  <2>1. account.link_incarnation_id \in Nat /\ account.privacy_generation \in Nat
    BY <1>1, PairFields
  <2> QED
    BY <1>1, <2>1 DEF NotNewer
<1>5. ASSUME NEW e \in Events PROVE PerEvent(e)
  <2>1. queue[e] = None /\ call[e] = None /\ status[e] = "open"
    BY <1>1 DEF InitQueue
  <2>2. receipts[e] = None /\ applied[e] = 0
    BY DEF Init
  <2> QED
    BY <2>1, <2>2 DEF PerEvent, Captured, Receipted, Counted, Answered, Ended
<1> QED
  BY <1>2, <1>3, <1>4, <1>5 DEF Inv

(***************************************************************************)
(* Pack handles a request for a queued event: at most a receipt for that   *)
(* event is added, in the account's future, and the answer is true.        *)
(***************************************************************************)
LEMMA HandleEffect ==
  ASSUME Inv, NEW e \in Events, queue[e] # None, NEW answer \in Answers,
         Handle(e, queue[e], answer), UNCHANGED << stored, queue >>
  PROVE  /\ Forward /\ expired' = expired
         /\ applied' \in [Events -> Nat]
         /\ \A f \in Events : f # e => receipts'[f] = receipts[f] /\ applied'[f] = applied[f]
         /\ Counted(e)' /\ Receipted(e)' /\ Truthful(e, answer)'
         /\ \/ UNCHANGED packVars
            \/ ~Final(e) /\ applied[e] = 0 /\ applied' = [applied EXCEPT ![e] = 1]
<1> DEFINE b == queue[e]
<1>1. /\ b \in Bytes /\ b.tokens \in Pair /\ account \in Pair /\ stored \in Pair
      /\ b.id = e /\ NotNewer(b.tokens, account)
  BY Values DEF Inv, TypeOK, QueueTypeOK, PerEvent, Captured
<1>2. /\ receipts \in [Events -> Generations \cup {None}]
      /\ applied \in [Events -> Nat] /\ Counted(e) /\ Receipted(e)
  BY DEF Inv, TypeOK, PerEvent
<1>3. NotNewer(account, account) /\ NotNewer(stored, stored)
  BY <1>1, PairFields DEF NotNewer
<1>4. CASE UNCHANGED packVars
  <2>1. Forward /\ expired' = expired /\ applied' = applied /\ receipts' = receipts
        /\ account' = account
    BY <1>1, <1>2, <1>3, <1>4 DEF Forward, packVars
  <2>2. Counted(e)'
    BY <1>2, <2>1 DEF Counted
  <2>3. Receipted(e)'
    BY <1>2, <2>1 DEF Receipted, ResultPair
  <2>4. Truthful(e, answer)
    <3>1. CASE Replay(b, answer)
      <4>1. CASE e \in expired
        <5>1. answer = Reply(409, "privacy_receipt_expired", None) /\ receipts[e] # None
          BY <1>1, <3>1, <4>1 DEF Replay
        <5> QED
          BY <5>1 DEF Truthful, Final, Reply
      <4>2. CASE e \notin expired
        <5>1. /\ answer = Reply(200, None, PrivacyGenerationResult(receipts[e]))
              /\ receipts[e] # None
          BY <1>1, <3>1, <4>2 DEF Replay
        <5> QED
          BY <5>1 DEF Truthful, Final, Reply
      <4> QED
        BY <4>1, <4>2
    <3>2. CASE RefuseStale(b, answer)
      <4>1. answer.status = 409 /\ b.tokens # account
        BY <3>2 DEF RefuseStale, Reply
      <4>2. Older(b.tokens, account)
        BY <1>1, <1>3, <4>1, Ordered
      <4> QED
        BY <4>1, <4>2 DEF Truthful, Final
    <3>3. ~Apply(e, b, answer)
      <4>1. Apply(e, b, answer) => applied' # applied
        BY <1>2 DEF Apply
      <4> QED
        BY <2>1, <4>1
    <3> QED
      BY <3>1, <3>2, <3>3 DEF Handle
  <2>5. Truthful(e, answer)'
    BY <2>1, <2>4 DEF Truthful, Final
  <2> QED
    BY <1>2, <1>4, <2>1, <2>2, <2>3, <2>5
<1>5. CASE Apply(e, b, answer)
  <2>1. PICK g \in {account.privacy_generation, account.privacy_generation + 1} \cap Generations :
          /\ account' = [account EXCEPT !.privacy_generation = g]
          /\ receipts' = [receipts EXCEPT ![e] = g]
          /\ answer = Reply(200, None, PrivacyGenerationResult(g))
    BY <1>1, <1>5 DEF Apply
  <2>2. /\ receipts[e] = None /\ b.tokens = account
        /\ applied' = [applied EXCEPT ![e] = applied[e] + 1] /\ expired' = expired
    BY <1>1, <1>5 DEF Apply
  <2>3. applied[e] = 0 /\ applied' = [applied EXCEPT ![e] = 1]
    BY <1>2, <2>2 DEF Counted
  <2>4. /\ account' \in Pair /\ account'.privacy_generation = g
        /\ account'.link_incarnation_id = account.link_incarnation_id
    BY <1>1, <2>1 DEF Pair
  <2>5. g \in Nat /\ g # None /\ g >= account.privacy_generation
    BY <1>1, PairFields, Values DEF Generations
  <2>6. NotNewer(account, account')
    BY <2>4, <2>5 DEF NotNewer
  <2>7. Forward
    BY <1>1, <1>2, <1>3, <2>1, <2>2, <2>4, <2>6 DEF Forward
  <2>8. receipts'[e] = g
    BY <1>2, <2>1
  <2>9. Counted(e)'
    BY <1>2, <2>3, <2>5, <2>8 DEF Counted
  <2>10. Receipted(e)'
    <3>1. /\ ResultPair(e)'.link_incarnation_id = account'.link_incarnation_id
          /\ ResultPair(e)'.privacy_generation = account'.privacy_generation
      BY <2>2, <2>4, <2>8 DEF ResultPair
    <3>2. account'.privacy_generation \in Nat
      BY <2>4, <2>5
    <3>3. NotNewer(ResultPair(e)', account')
      BY <3>1, <3>2 DEF NotNewer
    <3> QED
      BY <3>3 DEF Receipted
  <2>11. Truthful(e, answer)'
    BY <2>1, <2>5, <2>8 DEF Truthful, Final, Reply
  <2>12. ~Final(e)
    <3>1. ~Older(account, account)
      BY <1>1, <1>3, Ordered
    <3> QED
      BY <2>2, <3>1 DEF Final
  <2>13. \A f \in Events : f # e => receipts'[f] = receipts[f] /\ applied'[f] = applied[f]
    BY <1>2, <2>1, <2>3
  <2>14. applied' \in [Events -> Nat]
    BY <1>2, <2>3
  <2> QED
    BY <2>2, <2>3, <2>7, <2>9, <2>10, <2>11, <2>12, <2>13, <2>14
<1> QED
  BY <1>4, <1>5 DEF Handle, Replay, RefuseStale

\* A step of a call that brings nothing new keeps the invariant.
LEMMA NothingNewKeeps ==
  ASSUME Inv, NothingNew, QueueTypeOK(Bytes, Answers)', QueueSound',
         UNCHANGED << packVars, stored >>
  PROVE  Inv'
<1>1. queue' = queue /\ account' = account /\ stored' = stored /\ receipts' = receipts
      /\ applied' = applied /\ expired' = expired
  BY DEF NothingNew, packVars
<1>2. TypeOK'
  BY <1>1 DEF Inv, TypeOK
<1>3. NotNewer(stored, account)'
  BY <1>1 DEF Inv
<1>4. ASSUME NEW e \in Events PROVE PerEvent(e)'
  <2>1. PerEvent(e)
    BY DEF Inv
  <2>2. Captured(e)' /\ Receipted(e)' /\ Counted(e)'
    BY <1>1, <2>1 DEF PerEvent, Captured, Receipted, ResultPair, Counted
  <2>3. Answered(e)'
    <3> SUFFICES ASSUME call'[e] # None PROVE Answered(e)'
      BY DEF Answered
    <3>1. call'[e].reply # None => Truthful(e, call[e].reply)'
      <4> SUFFICES ASSUME call'[e].reply # None PROVE Truthful(e, call[e].reply)'
        OBVIOUS
      <4>1. call[e] # None /\ call'[e].reply = call[e].reply
        BY DEF NothingNew
      <4>2. Truthful(e, call[e].reply)
        BY <2>1, <4>1 DEF PerEvent, Answered
      <4> QED
        BY <1>1, <4>1, <4>2 DEF Truthful, Final
    <3>2. call'[e].pc = "delete" => Done(e)'
      BY <1>1, <2>1 DEF NothingNew, PerEvent, Answered, Done
    <3> QED
      BY <3>1, <3>2 DEF Answered
  <2>4. Ended(e)'
    <3>1. CASE status'[e] = status[e]
      BY <1>1, <2>1, <3>1 DEF PerEvent, Ended, Done, Final
    <3>2. CASE status'[e] # status[e]
      <4>1. /\ status'[e] = "dropped" /\ call[e] # None /\ call[e].reply # None
            /\ Refused(call[e].reply)
        BY <3>2 DEF NothingNew
      <4>2. Final(e)
        BY <2>1, <4>1 DEF PerEvent, Answered, Truthful
      <4> QED
        BY <1>1, <4>1, <4>2 DEF Ended, Final
    <3> QED
      BY <3>1, <3>2
  <2> QED
    BY <2>2, <2>3, <2>4 DEF PerEvent
<1> QED
  BY <1>2, <1>3, <1>4 DEF Inv

(***************************************************************************)
(* The account moves on or the host learns a newer pair, while calls and   *)
(* queue stay as they are but for an answer that is true.                  *)
(***************************************************************************)
LEMMA ForwardKeeps ==
  ASSUME Inv, Forward, UNCHANGED << queue, status >>,
         QueueTypeOK(Bytes, Answers)', QueueSound',
         expired' \subseteq Events,
         applied' \in [Events -> Nat],
         NotNewer(stored', account'),
         \A f \in Events : Counted(f)' /\ Receipted(f)',
         \A f \in Events : call'[f] # None =>
           /\ call[f] # None
           /\ call'[f].reply # None =>
                call'[f].reply = call[f].reply \/ Truthful(f, call[f].reply)'
           /\ call'[f].pc = "delete" => call[f].pc = "delete" \/ Done(f)'
  PROVE  Inv'
<1>1. TypeOK'
  BY DEF Inv, TypeOK, Forward
<1>2. ASSUME NEW e \in Events PROVE PerEvent(e)'
  <2>1. PerEvent(e) /\ (receipts[e] # None => queue[e] # None)
    BY DEF Inv, PerEvent, Receipted
  <2>2. Captured(e)'
    BY <2>1, StaysFinal DEF PerEvent, Captured
  <2>3. Answered(e)'
    <3> SUFFICES ASSUME call'[e] # None PROVE Answered(e)'
      BY DEF Answered
    <3>1. call[e] # None /\ queue[e] # None
      BY DEF Inv, QueueSound, CallSound
    <3>2. (Final(e) => Final(e)') /\ (Done(e) => Done(e)')
      BY <3>1, StaysFinal
    <3>3. ASSUME call'[e].reply # None PROVE Truthful(e, call[e].reply)'
      <4>1. CASE Truthful(e, call[e].reply)'
        BY <4>1
      <4>2. CASE call'[e].reply = call[e].reply
        <5>1. Truthful(e, call[e].reply)
          BY <2>1, <3>1, <3>3, <4>2 DEF PerEvent, Answered
        <5> QED
          BY <3>2, <4>2, <5>1 DEF Truthful, Forward
      <4> QED
        BY <3>3, <4>1, <4>2
    <3>4. call'[e].pc = "delete" => Done(e)'
      BY <2>1, <3>1, <3>2 DEF PerEvent, Answered
    <3> QED
      BY <3>3, <3>4 DEF Answered
  <2>4. Ended(e)'
    <3>1. status[e] # "open" => queue[e] # None
      BY DEF Inv, QueueSound
    <3> QED
      BY <2>1, <3>1, StaysFinal DEF PerEvent, Ended
  <2> QED
    BY <2>2, <2>3, <2>4 DEF PerEvent
<1> QED
  BY <1>1, <1>2 DEF Inv

\* Observing and persisting a receipt's result.
LEMMA PersistEffect ==
  ASSUME NEW old \in Pair, NEW tokens \in Pair, NEW g \in Generations, NEW now \in Pair,
         NotNewer(old, now), NotNewer(tokens, now),
         now.link_incarnation_id = tokens.link_incarnation_id => g <= now.privacy_generation
  PROVE  LET new == PersistMaxOnly(old, ObserveResult(tokens, PrivacyGenerationResult(g))) IN
         /\ new \in Pair
         /\ NotNewer(old, new) /\ NotNewer(new, now)
         /\ \/ new.link_incarnation_id # tokens.link_incarnation_id
            \/ g <= new.privacy_generation
<1> DEFINE seen == ObserveResult(tokens, PrivacyGenerationResult(g))
<1> DEFINE new == PersistMaxOnly(old, seen)
<1>1. seen = ObserveGeneration(tokens, g)
  BY DEF ObserveResult, PrivacyGenerationResult
<1>2. /\ seen \in Pair /\ seen.link_incarnation_id = tokens.link_incarnation_id
      /\ seen.privacy_generation \in {tokens.privacy_generation, g}
      /\ seen.privacy_generation >= g
  BY <1>1, PairFields DEF ObserveGeneration, Pair, Generations
<1>3. /\ old.link_incarnation_id \in Nat /\ old.privacy_generation \in Nat
      /\ tokens.link_incarnation_id \in Nat /\ tokens.privacy_generation \in Nat
      /\ now.link_incarnation_id \in Nat /\ now.privacy_generation \in Nat
  BY PairFields
<1>4. seen.link_incarnation_id \in Nat /\ seen.privacy_generation \in Nat /\ g \in Nat
  BY <1>2, PairFields DEF Generations
<1>5. seen.link_incarnation_id # old.link_incarnation_id => new = old
  BY DEF PersistMaxOnly
<1>6. seen.link_incarnation_id = old.link_incarnation_id =>
        new = ObserveGeneration(old, seen.privacy_generation)
  BY DEF PersistMaxOnly
<1> HIDE DEF seen, new
<1> SUFFICES /\ new \in Pair /\ NotNewer(old, new) /\ NotNewer(new, now)
             /\ new.link_incarnation_id # tokens.link_incarnation_id
                \/ g <= new.privacy_generation
  BY DEF new, seen
<1>7. CASE seen.link_incarnation_id # old.link_incarnation_id
  <2>1. NotNewer(old, old)
    BY <1>3 DEF NotNewer
  <2> QED
    BY <1>2, <1>5, <1>7, <2>1
<1>8. CASE seen.link_incarnation_id = old.link_incarnation_id
  <2>1. seen.privacy_generation \in Generations
    BY <1>2, PairFields
  <2>2. /\ new \in Pair /\ new.link_incarnation_id = old.link_incarnation_id
        /\ new.privacy_generation \in {old.privacy_generation, seen.privacy_generation}
        /\ new.privacy_generation >= old.privacy_generation
        /\ new.privacy_generation >= seen.privacy_generation
    BY <1>3, <1>4, <1>6, <1>8, <2>1 DEF ObserveGeneration, Pair
  <2>3. NotNewer(old, new)
    BY <1>3, <2>2 DEF NotNewer
  <2>4. NotNewer(new, now)
    BY <1>2, <1>3, <1>4, <1>8, <2>2 DEF NotNewer
  <2>5. g <= new.privacy_generation
    BY <1>2, <1>3, <1>4, <2>2
  <2> QED
    BY <2>2, <2>3, <2>4, <2>5
<1> QED
  BY <1>7, <1>8

\* A newer pair from Pack, reconciled, is Pack's pair or the host's.
LEMMA ReconcileEffect ==
  ASSUME NEW old \in Pair, NEW now \in Pair, NotNewer(old, now)
  PROVE  LET new == ReconcileIdentify(old, now) IN
         new \in Pair /\ NotNewer(old, new) /\ NotNewer(new, now)
<1>1. /\ old.link_incarnation_id \in Nat /\ old.privacy_generation \in Nat
      /\ now.link_incarnation_id \in Nat /\ now.privacy_generation \in Nat
  BY PairFields
<1>2. ReconcileIdentify(old, now) \in {old, now}
  BY Reconciled
<1>3. NotNewer(old, old) /\ NotNewer(now, now)
  BY <1>1 DEF NotNewer
<1> QED
  BY <1>2, <1>3

\* Pack's part of a step, whoever's request it handles, with true answers.
LEMMA PackKeeps ==
  ASSUME Inv, NEW e \in Events, queue[e] # None, NEW answer \in Answers,
         Handle(e, queue[e], answer), UNCHANGED << stored, queue, status >>,
         QueueTypeOK(Bytes, Answers)', QueueSound',
         \A f \in Events : call'[f] # None =>
           /\ call[f] # None /\ call'[f].pc = call[f].pc
           /\ call'[f].reply = call[f].reply \/ (f = e /\ call'[f].reply = answer)
  PROVE  Inv'
<1>1. /\ Forward /\ expired' = expired /\ applied' \in [Events -> Nat]
      /\ \A f \in Events : f # e => receipts'[f] = receipts[f] /\ applied'[f] = applied[f]
      /\ Counted(e)' /\ Receipted(e)' /\ Truthful(e, answer)'
  BY HandleEffect
<1>2. \A f \in Events : Counted(f)'
  BY <1>1 DEF Inv, PerEvent, Counted
<1>3. \A f \in Events : Receipted(f)'
  <2> SUFFICES ASSUME NEW f \in Events, f # e PROVE Receipted(f)'
    BY <1>1
  <2>1. Receipted(f) /\ receipts'[f] = receipts[f] /\ queue'[f] = queue[f]
    BY <1>1 DEF Inv, PerEvent
  <2>2. CASE queue[f] # None
    BY <1>1, <2>1, <2>2, StaysFinal
  <2>3. CASE queue[f] = None
    BY <2>1, <2>3 DEF Receipted
  <2> QED
    BY <2>2, <2>3
<1>4. NotNewer(stored', account')
  <2>1. /\ stored \in Pair /\ account \in Pair /\ account' \in Pair
        /\ NotNewer(stored, account) /\ NotNewer(account, account')
    BY <1>1 DEF Inv, TypeOK, Forward
  <2>2. NotNewer(stored, account')
    BY <2>1, Ordered
  <2> QED
    BY <2>2
<1>5. \A f \in Events : call'[f] # None =>
        /\ call[f] # None
        /\ call'[f].reply # None =>
             call'[f].reply = call[f].reply \/ Truthful(f, call[f].reply)'
        /\ call'[f].pc = "delete" => call[f].pc = "delete" \/ Done(f)'
  BY <1>1 DEF Truthful, Final
<1>6. expired' \subseteq Events
  BY <1>1 DEF Inv, TypeOK
<1> QED
  BY <1>1, <1>2, <1>3, <1>4, <1>5, <1>6, ForwardKeeps

-----------------------------------------------------------------------------
\* The host's steps.
LEMMA HostKeeps ==
  ASSUME Inv, NEW e \in Events, HostStep(e)
  PROVE  Inv'
<1> USE DEF Alone
<1>0. QueueTypeOK(Bytes, Answers) /\ QueueSound /\ PerEvent(e)
  BY DEF Inv, TypeOK
<1>1. CASE Create(e)
  <2> DEFINE b == CreateEvent(e)
  <2>1. Enqueue(e, b) /\ UNCHANGED << packVars, stored >>
    BY <1>1 DEF Create
  <2>2. stored \in Pair /\ account \in Pair /\ NotNewer(stored, account)
    BY DEF Inv, TypeOK
  <2>3. SnapshotUser(stored) = stored
    BY <2>2, PairOf DEF SnapshotUser
  <2>4. b \in Bytes /\ b.id = e /\ b.tokens = stored
    BY <2>2, <2>3 DEF CreateEvent, Bytes
  <2> HIDE DEF b
  <2>5. /\ QueueTypeOK(Bytes, Answers)' /\ QueueSound'
        /\ queue[e] = None /\ queue' = [queue EXCEPT ![e] = b]
        /\ UNCHANGED << late, status, call, crashes >>
    BY <1>0, <2>1, <2>4, EnqueueKeeps, NoneIsNoEvent
  <2>6. UNCHANGED << account, receipts, expired, applied, stored >>
    BY <2>1 DEF packVars
  <2>7. \A f \in Events : queue'[f] = IF f = e THEN b ELSE queue[f]
    BY <1>0, <2>5 DEF QueueTypeOK
  <2>8. PerEvent(e)'
    <3>1. call[e] = None /\ status[e] = "open" /\ receipts[e] = None
      BY <1>0, <2>5 DEF QueueSound, CallSound, PerEvent, Receipted
    <3>2. Captured(e)'
      <4>1. stored.link_incarnation_id <= stored.link_incarnation_id
        BY <2>2, PairFields
      <4> QED
        BY <2>2, <2>4, <2>6, <2>7, <4>1 DEF Captured
    <3> QED
      BY <1>0, <2>5, <2>6, <3>1, <3>2
         DEF PerEvent, Receipted, Counted, Answered, Ended
  <2>9. ASSUME NEW f \in Events, f # e PROVE PerEvent(f)'
    <3>1. PerEvent(f) /\ queue'[f] = queue[f]
      BY <2>7, <2>9 DEF Inv
    <3> QED
      BY <2>5, <2>6, <3>1
         DEF PerEvent, Captured, Receipted, ResultPair, Counted, Answered, Truthful, Final,
             Done, Ended
  <2>10. TypeOK'
    BY <2>5, <2>6 DEF Inv, TypeOK
  <2> QED
    BY <2>2, <2>5, <2>6, <2>8, <2>9, <2>10 DEF Inv
<1>2. CASE Redeliver(e)
  <2>1. queue[e] \in Bytes
    BY <1>0, <1>2 DEF Redeliver, Deliver, QueueTypeOK
  <2>2. Deliver(e, queue[e]) /\ UNCHANGED << packVars, stored >>
    BY <1>2, <2>1, Restored DEF Redeliver
  <2> QED
    BY <1>0, <2>2, DeliverKeeps, NothingNewKeeps
<1>3. CASE Persist(e)
  <2> DEFINE reply == call[e].reply
  <2>1. /\ QueueTypeOK(Bytes, Answers)' /\ QueueSound'
        /\ call[e] # None /\ call[e].pc = "result"
        /\ reply # None /\ reply.status = 200
        /\ UNCHANGED << queue, status, late, crashes >>
        /\ \A f \in Events : call'[f] # None =>
             /\ call[f] # None /\ call'[f].reply = call[f].reply
             /\ call'[f].pc = IF f = e THEN "delete" ELSE call[f].pc
    BY <1>0, <1>3, ProceedKeeps DEF Persist
  <2>2. UNCHANGED << account, receipts, expired, applied >>
    BY <1>3 DEF Persist, packVars
  <2>3. queue[e] # None /\ call[e].bytes = queue[e]
    BY <1>0, <2>1 DEF QueueSound, CallSound
  <2>4. receipts[e] # None /\ reply.result = PrivacyGenerationResult(receipts[e])
    BY <1>0, <2>1 DEF PerEvent, Answered, Truthful
  <2>5. receipts[e] \in Generations
    BY <2>4 DEF Inv, TypeOK
  <2>6. /\ queue[e].tokens \in Pair /\ stored \in Pair /\ account \in Pair
        /\ NotNewer(stored, account) /\ NotNewer(queue[e].tokens, account)
        /\ NotNewer(ResultPair(e), account)
    BY <1>0, <2>3, <2>4, Values
       DEF Inv, TypeOK, QueueTypeOK, PerEvent, Captured, Receipted
  <2>7. account.link_incarnation_id = queue[e].tokens.link_incarnation_id
          => receipts[e] <= account.privacy_generation
    BY <2>6, PairFields DEF NotNewer, ResultPair
  <2>8. stored' = PersistMaxOnly(stored,
                    ObserveResult(queue[e].tokens, PrivacyGenerationResult(receipts[e])))
    BY <1>3, <2>3, <2>4 DEF Persist
  <2>9. /\ stored' \in Pair /\ NotNewer(stored, stored') /\ NotNewer(stored', account)
        /\ \/ stored'.link_incarnation_id # queue[e].tokens.link_incarnation_id
           \/ receipts[e] <= stored'.privacy_generation
    BY <2>5, <2>6, <2>7, <2>8, PersistEffect
  <2>10. Done(e)'
    BY <2>1, <2>2, <2>4, <2>9 DEF Done
  <2>11. NotNewer(account, account)
    BY <2>6, Ordered
  <2>12. Forward
    BY <2>2, <2>6, <2>9, <2>11 DEF Forward, Inv, TypeOK
  <2>13. \A f \in Events : Counted(f)' /\ Receipted(f)'
    BY <2>1, <2>2 DEF Inv, PerEvent, Counted, Receipted, ResultPair
  <2>14. expired' \subseteq Events /\ applied' \in [Events -> Nat]
    BY <2>2 DEF Inv, TypeOK
  <2>15. \A f \in Events : call'[f] # None =>
           /\ call[f] # None
           /\ call'[f].reply # None =>
                call'[f].reply = call[f].reply \/ Truthful(f, call[f].reply)'
           /\ call'[f].pc = "delete" => call[f].pc = "delete" \/ Done(f)'
    BY <2>1, <2>10
  <2>16. NotNewer(stored', account')
    BY <2>2, <2>9
  <2> QED
    BY <2>1, <2>12, <2>13, <2>14, <2>15, <2>16, ForwardKeeps
<1>4. CASE Alone(Delete(e))
  <2>1. /\ QueueTypeOK(Bytes, Answers)' /\ QueueSound'
        /\ call[e] # None /\ call[e].pc = "delete"
        /\ queue[e] # None /\ status[e] = "open"
        /\ call' = [call EXCEPT ![e] = None]
        /\ status' = [status EXCEPT ![e] = "settled"]
        /\ UNCHANGED << late, queue, crashes >>
    BY <1>0, <1>4, DeleteKeeps
  <2>2. UNCHANGED << account, receipts, expired, applied, stored >>
    BY <1>4 DEF packVars
  <2>3. \A f \in Events : /\ call'[f] = IF f = e THEN None ELSE call[f]
                          /\ status'[f] = IF f = e THEN "settled" ELSE status[f]
    BY <1>0, <2>1 DEF QueueTypeOK
  <2>4. Done(e)
    BY <1>0, <2>1 DEF PerEvent, Answered
  <2>5. ASSUME NEW f \in Events PROVE PerEvent(f)'
    <3>1. PerEvent(f)
      BY DEF Inv
    <3>2. Captured(f)' /\ Receipted(f)' /\ Counted(f)'
      BY <2>1, <2>2, <3>1 DEF PerEvent, Captured, Receipted, ResultPair, Counted
    <3>3. Answered(f)'
      BY <2>1, <2>2, <2>3, <3>1 DEF PerEvent, Answered, Truthful, Final, Done
    <3>4. Ended(f)'
      BY <2>1, <2>2, <2>3, <2>4, <3>1 DEF PerEvent, Ended, Final, Done
    <3> QED
      BY <3>2, <3>3, <3>4 DEF PerEvent
  <2>6. TypeOK'
    BY <2>1, <2>2 DEF Inv, TypeOK
  <2> QED
    BY <2>1, <2>2, <2>5, <2>6 DEF Inv
<1> QED
  BY <1>1, <1>2, <1>3, <1>4 DEF HostStep

\* The network's steps.
LEMMA NetworkKeeps ==
  ASSUME Inv, NEW e \in Events, NetworkStep(e)
  PROVE  Inv'
<1>1. QueueTypeOK(Bytes, Answers) /\ QueueSound
  BY DEF Inv, TypeOK
<1>2. QueueTypeOK(Bytes, Answers)' /\ QueueSound' /\ NothingNew
  BY <1>1, TransmitKeeps, ReceiveKeeps, CutKeeps, AbandonKeeps DEF NetworkStep, Alone
<1>3. UNCHANGED << packVars, stored >>
  BY DEF NetworkStep, Alone
<1> QED
  BY <1>2, <1>3, NothingNewKeeps

(***************************************************************************)
(* Steps in which only the account or what is stored moves forward, or an  *)
(* answer that says nothing final arrives.                                 *)
(***************************************************************************)
LEMMA QuietKeeps ==
  ASSUME Inv, UNCHANGED << queue, status, receipts, applied >>,
         QueueTypeOK(Bytes, Answers)', QueueSound',
         account' \in Pair, NotNewer(account, account'),
         stored' \in Pair, NotNewer(stored, stored'), NotNewer(stored', account'),
         expired' \subseteq Events,
         \A f \in Events : call'[f] # None =>
           /\ call[f] # None /\ call'[f].pc = call[f].pc
           /\ call'[f].reply = call[f].reply \/ call'[f].reply \in Transient
  PROVE  Inv'
<1>1. Forward /\ applied' \in [Events -> Nat]
  BY DEF Forward, Inv, TypeOK
<1>2. \A f \in Events : Counted(f)'
  BY DEF Inv, PerEvent, Counted
<1>3. \A f \in Events : Receipted(f)'
  <2> SUFFICES ASSUME NEW f \in Events, receipts[f] # None PROVE Receipted(f)'
    BY DEF Receipted
  <2>1. Receipted(f) /\ queue[f] # None
    BY DEF Inv, PerEvent, Receipted
  <2> QED
    BY <1>1, <2>1, StaysFinal
<1>4. \A f \in Events : call'[f] # None =>
        /\ call[f] # None
        /\ call'[f].reply # None =>
             call'[f].reply = call[f].reply \/ Truthful(f, call[f].reply)'
        /\ call'[f].pc = "delete" => call[f].pc = "delete" \/ Done(f)'
  BY TransientIsNotFinal DEF Truthful
<1> QED
  BY <1>1, <1>2, <1>3, <1>4, ForwardKeeps

\* Pack's steps.
LEMMA PackStepKeeps ==
  ASSUME Inv, PackStep
  PROVE  Inv'
<1>1. /\ QueueTypeOK(Bytes, Answers) /\ QueueSound /\ NotNewer(stored, account)
      /\ account \in Pair /\ stored \in Pair /\ expired \subseteq Events
  BY DEF Inv, TypeOK
<1>2. NotNewer(account, account) /\ NotNewer(stored, stored)
  BY <1>1, Ordered
<1>3. ASSUME NEW e \in Events, Serve(e) PROVE Inv'
  <2>1. PICK answer \in Answers : Answer(e, answer) /\ Handle(e, call[e].bytes, answer)
    BY <1>3 DEF Serve
  <2>2. /\ QueueTypeOK(Bytes, Answers)' /\ QueueSound'
        /\ call[e] # None /\ call[e].bytes = queue[e] /\ queue[e] # None
        /\ UNCHANGED << queue, status, crashes, late >>
        /\ \A f \in Events : call'[f] # None =>
             /\ call[f] # None /\ call'[f].pc = call[f].pc
             /\ call'[f].reply = IF f = e THEN answer ELSE call[f].reply
    BY <1>1, <2>1, AnswerKeeps
  <2>3. Handle(e, queue[e], answer) /\ UNCHANGED << stored, queue, status >>
    BY <1>3, <2>1, <2>2 DEF Serve
  <2> QED
    BY <2>2, <2>3, PackKeeps
<1>4. ASSUME NEW e \in Events, Alone(AnswerLater(e)) PROVE Inv'
  <2>1. /\ QueueTypeOK(Bytes, Answers)' /\ QueueSound'
        /\ UNCHANGED << queue, status, crashes >>
        /\ \A f \in Events : call'[f] # None =>
             /\ call[f] # None /\ call'[f].pc = call[f].pc
             /\ call'[f].reply = call[f].reply \/ call'[f].reply \in Transient
    BY <1>1, <1>4, AnswerLaterKeeps DEF Alone
  <2>2. UNCHANGED << account, receipts, expired, applied, stored >>
    BY <1>4 DEF Alone, packVars
  <2> QED
    BY <1>1, <1>2, <2>1, <2>2, QuietKeeps
<1>5. ASSUME NEW copy \in late, ServeLate(copy) PROVE Inv'
  <2> DEFINE e == copy.event
  <2>1. e \in Events /\ copy.bytes = queue[e] /\ copy.bytes \in Bytes
    BY <1>1 DEF QueueTypeOK, QueueSound
  <2>2. queue[e] # None
    BY <2>1, Values
  <2>3. PICK answer \in Answers : Handle(e, queue[e], answer)
    BY <1>5, <2>1 DEF ServeLate
  <2>4. UNCHANGED << stored, late, queue, status, call, crashes >>
    BY <1>5 DEF ServeLate, queueVars
  <2>5. QueueTypeOK(Bytes, Answers)' /\ QueueSound'
    BY <1>1, <2>4 DEF QueueTypeOK, QueueSound, CallSound
  <2> HIDE DEF e
  <2>6. \A f \in Events : call'[f] # None =>
          /\ call[f] # None /\ call'[f].pc = call[f].pc
          /\ call'[f].reply = call[f].reply \/ (f = e /\ call'[f].reply = answer)
    BY <2>4
  <2> QED
    BY <2>1, <2>2, <2>3, <2>4, <2>5, <2>6, PackKeeps
<1>6. ASSUME NEW id \in Events, Expire(id) PROVE Inv'
  <2>1. /\ UNCHANGED << account, receipts, applied, stored, late, queue, status, call, crashes >>
        /\ expired' \subseteq Events
    BY <1>1, <1>6 DEF Expire, queueVars
  <2>2. QueueTypeOK(Bytes, Answers)' /\ QueueSound'
    BY <1>1, <2>1 DEF QueueTypeOK, QueueSound, CallSound
  <2> QED
    BY <1>1, <1>2, <2>1, <2>2, QuietKeeps
<1>7. ASSUME NEW i \in Incarnations, Replace(i) PROVE Inv'
  <2>1. /\ UNCHANGED << receipts, expired, applied, stored, late, queue, status, call, crashes >>
        /\ i > account.link_incarnation_id
        /\ account' = [link_incarnation_id |-> i, privacy_generation |-> 0]
    BY <1>7 DEF Replace, queueVars
  <2>2. account' \in Pair /\ account'.link_incarnation_id = i
    BY <2>1 DEF Pair, Generations
  <2>3. NotNewer(account, account')
    BY <2>1, <2>2 DEF NotNewer
  <2>4. NotNewer(stored, account')
    BY <1>1, <2>2, <2>3, Ordered
  <2>5. QueueTypeOK(Bytes, Answers)' /\ QueueSound'
    BY <1>1, <2>1 DEF QueueTypeOK, QueueSound, CallSound
  <2> QED
    BY <1>1, <1>2, <2>1, <2>2, <2>3, <2>4, <2>5, QuietKeeps
<1> QED
  BY <1>3, <1>4, <1>5, <1>6, <1>7 DEF PackStep

\* Every step keeps the invariant.
LEMMA InvNext == Inv /\ [Next]_vars => Inv'
<1> SUFFICES ASSUME Inv, [Next]_vars PROVE Inv'
  OBVIOUS
<1>1. /\ QueueTypeOK(Bytes, Answers) /\ QueueSound /\ NotNewer(stored, account)
      /\ account \in Pair /\ stored \in Pair /\ expired \subseteq Events
  BY DEF Inv, TypeOK
<1>2. NotNewer(account, account) /\ NotNewer(stored, stored)
  BY <1>1, Ordered
<1>3. CASE Recover
  <2>1. /\ UNCHANGED << account, receipts, expired, applied, late, queue, status, call, crashes >>
        /\ stored' = ReconcileIdentify(stored, account)
    BY <1>3 DEF Recover, packVars, queueVars
  <2>2. stored' \in Pair /\ NotNewer(stored, stored') /\ NotNewer(stored', account)
    BY <1>1, <2>1, ReconcileEffect
  <2>3. QueueTypeOK(Bytes, Answers)' /\ QueueSound'
    BY <1>1, <2>1 DEF QueueTypeOK, QueueSound, CallSound
  <2> QED
    BY <1>1, <1>2, <2>1, <2>2, <2>3, QuietKeeps
<1>4. CASE Alone(Crash)
  <2>1. /\ QueueTypeOK(Bytes, Answers)' /\ QueueSound'
        /\ call' = [e \in Events |-> None]
        /\ UNCHANGED << queue, status >>
    BY <1>1, <1>4, CrashKeeps DEF Alone
  <2>2. UNCHANGED << account, receipts, expired, applied, stored >>
    BY <1>4 DEF Alone, packVars
  <2> QED
    BY <1>1, <1>2, <2>1, <2>2, QuietKeeps
<1>5. CASE UNCHANGED vars
  <2>1. UNCHANGED << account, receipts, expired, applied, stored, late, queue, status,
                     call, crashes >>
    BY <1>5 DEF vars, packVars, queueVars
  <2>2. QueueTypeOK(Bytes, Answers)' /\ QueueSound'
    BY <1>1, <2>1 DEF QueueTypeOK, QueueSound, CallSound
  <2> QED
    BY <1>1, <1>2, <2>1, <2>2, QuietKeeps
<1> QED
  BY <1>3, <1>4, <1>5, HostKeeps, NetworkKeeps, PackStepKeeps DEF Next

\* The invariant holds throughout.
LEMMA AlwaysInv == Spec => []Inv
BY InvInit, InvNext, PTL DEF Spec

-----------------------------------------------------------------------------
(***************************************************************************)
(* Type correctness, for any events, incarnations and bounds.              *)
(***************************************************************************)
THEOREM PrivacyTypeCorrect == Spec => []TypeOK
BY AlwaysInv, PTL DEF Inv

(***************************************************************************)
(* However often an event is delivered, its mutation is applied at most    *)
(* once.                                                                   *)
(***************************************************************************)
THEOREM EachAppliedOnce == Spec => []AppliedOnce
<1>1. Inv => AppliedOnce
  BY DEF Inv, PerEvent, Counted, AppliedOnce
<1> QED
  BY <1>1, AlwaysInv, PTL

(***************************************************************************)
(* An event deleted as done was applied, and the host's tokens are of      *)
(* another incarnation or as new as its result.                            *)
(***************************************************************************)
THEOREM SettledObserved == Spec => []SettledIsObserved
<1>1. Inv => SettledIsObserved
  <2> SUFFICES ASSUME Inv, NEW e \in Events, status[e] = "settled"
               PROVE  /\ applied[e] > 0
                      /\ \/ stored.link_incarnation_id # queue[e].tokens.link_incarnation_id
                         \/ receipts[queue[e].id] \in 0..stored.privacy_generation
    BY DEF SettledIsObserved
  <2>1. Done(e) /\ Counted(e) /\ queue[e] # None /\ queue[e].id = e
    BY DEF Inv, QueueSound, PerEvent, Ended, Captured
  <2>2. applied[e] > 0
    BY <2>1 DEF Done, Counted
  <2>3. receipts[e] \in Nat /\ stored.privacy_generation \in Nat
    BY <2>1, PairFields DEF Done, Inv, TypeOK, Generations
  <2> QED
    BY <2>1, <2>2, <2>3 DEF Done
<1> QED
  BY <1>1, AlwaysInv, PTL

-----------------------------------------------------------------------------
\* A step in which queue, effects and verdicts stay is a stutter.
LEMMA DeliveryStutters ==
  ASSUME UNCHANGED << queue, status, applied >>
  PROVE  UNCHANGED Delivery!delivery
BY DEF Delivery!delivery

\* Pack's handling of a request is an effect of an open event, or none.
LEMMA HandleDelivers ==
  ASSUME Inv, NEW e \in Events, queue[e] # None, NEW answer \in Answers,
         Handle(e, queue[e], answer), UNCHANGED << stored, queue, status >>
  PROVE  Delivery!Next \/ UNCHANGED Delivery!delivery
<1>1. CASE UNCHANGED packVars
  BY <1>1, DeliveryStutters DEF packVars
<1>2. CASE ~Final(e) /\ applied[e] = 0 /\ applied' = [applied EXCEPT ![e] = 1]
  <2>1. status[e] \in {"open", "settled", "dropped"}
    BY DEF Inv, TypeOK, QueueTypeOK
  <2>2. status[e] = "open"
    BY <1>2, <2>1 DEF Inv, PerEvent, Ended, Final, Done
  <2>3. Delivery!TakeEffect(e)
    BY <1>2, <2>2 DEF Delivery!TakeEffect
  <2> QED
    BY <2>3 DEF Delivery!Next
<1> QED
  BY <1>1, <1>2, HandleEffect

\* Every step is one of the abstract queue, or none.
LEMMA StepDelivers ==
  ASSUME Inv, [Next]_vars
  PROVE  [Delivery!Next]_(Delivery!delivery)
<1> SUFFICES Delivery!Next \/ UNCHANGED Delivery!delivery
  OBVIOUS
<1>0. /\ QueueTypeOK(Bytes, Answers) /\ QueueSound
      /\ \A e \in Events : PerEvent(e)
  BY DEF Inv, TypeOK
<1>1. ASSUME NEW e \in Events, Create(e)
      PROVE  Delivery!Next \/ UNCHANGED Delivery!delivery
  <2>1. /\ queue[e] = None /\ queue' = [queue EXCEPT ![e] = CreateEvent(e)]
        /\ UNCHANGED << status, applied >>
    BY <1>1 DEF Create, Alone, Enqueue, packVars
  <2>2. stored \in Pair
    BY DEF Inv, TypeOK
  <2>3. SnapshotUser(stored) = stored
    BY <2>2, PairOf DEF SnapshotUser
  <2>4. CreateEvent(e) \in Bytes
    BY <2>2, <2>3 DEF CreateEvent, Bytes
  <2>5. CreateEvent(e) # None
    BY <2>4, Values
  <2>6. \A f \in Events : queue'[f] = IF f = e THEN CreateEvent(e) ELSE queue[f]
    BY <1>0, <2>1 DEF QueueTypeOK
  <2>7. {f \in Events : queue'[f] # None} = {f \in Events : queue[f] # None} \cup {e}
    BY <2>5, <2>6
  <2>8. Delivery!Queue(e)
    BY <2>1, <2>7 DEF Delivery!Queue
  <2> QED
    BY <2>8 DEF Delivery!Next
<1>2. ASSUME NEW e \in Events, Redeliver(e) \/ Persist(e)
      PROVE  Delivery!Next \/ UNCHANGED Delivery!delivery
  <2>1. UNCHANGED << queue, status, applied >>
    BY <1>2 DEF Redeliver, Persist, Alone, Deliver, Proceed, packVars
  <2> QED
    BY <2>1, DeliveryStutters
<1>3. ASSUME NEW e \in Events, Alone(Delete(e))
      PROVE  Delivery!Next \/ UNCHANGED Delivery!delivery
  <2>1. /\ call[e] # None /\ call[e].pc = "delete" /\ status[e] = "open"
        /\ status' = [status EXCEPT ![e] = "settled"] /\ queue' = queue
        /\ applied' = applied
    BY <1>0, <1>3, DeleteKeeps DEF Alone, packVars
  <2>2. applied[e] = 1
    BY <1>0, <2>1 DEF PerEvent, Answered, Done, Counted
  <2>3. Delivery!Settle(e)
    BY <2>1, <2>2 DEF Delivery!Settle
  <2> QED
    BY <2>3 DEF Delivery!Next
<1>4. ASSUME NEW e \in Events, NetworkStep(e)
      PROVE  Delivery!Next \/ UNCHANGED Delivery!delivery
  <2>1. NothingNew /\ queue' = queue /\ applied' = applied
    BY <1>0, <1>4, TransmitKeeps, ReceiveKeeps, CutKeeps, AbandonKeeps
       DEF NetworkStep, Alone, NothingNew, packVars
  <2>2. status' = status \/ \E s : status' = [status EXCEPT ![e] = s]
    BY <1>4, OneStatus DEF NetworkStep, Alone
  <2>3. CASE status' = status
    BY <2>1, <2>3, DeliveryStutters
  <2>4. CASE status' # status
    <3>1. PICK s : status' = [status EXCEPT ![e] = s]
      BY <2>2, <2>4
    <3>2. status \in [Events -> {"open", "settled", "dropped"}]
      BY <1>0 DEF QueueTypeOK
    <3>3. status'[e] # status[e] /\ status'[e] = s
      BY <2>4, <3>1, <3>2
    <3>4. s = "dropped" /\ call[e] # None
      BY <2>1, <3>3 DEF NothingNew
    <3>5. status[e] = "open" /\ queue[e] # None
      BY <1>0, <3>4 DEF QueueSound, CallSound
    <3>6. Delivery!Drop(e)
      BY <2>1, <3>1, <3>4, <3>5 DEF Delivery!Drop
    <3> QED
      BY <3>6 DEF Delivery!Next
  <2> QED
    BY <2>3, <2>4
<1>5. CASE PackStep
  <2>1. ASSUME NEW e \in Events, Serve(e)
        PROVE  Delivery!Next \/ UNCHANGED Delivery!delivery
    <3>1. PICK answer \in Answers : Answer(e, answer) /\ Handle(e, call[e].bytes, answer)
      BY <2>1 DEF Serve
    <3>2. /\ call[e].bytes = queue[e] /\ queue[e] # None
          /\ UNCHANGED << stored, queue, status >>
      BY <1>0, <2>1, <3>1, AnswerKeeps DEF Serve
    <3> QED
      BY <3>1, <3>2, HandleDelivers
  <2>2. ASSUME NEW copy \in late, ServeLate(copy)
        PROVE  Delivery!Next \/ UNCHANGED Delivery!delivery
    <3>1. /\ copy.event \in Events /\ copy.bytes \in Bytes
          /\ copy.bytes = queue[copy.event]
      BY <1>0 DEF QueueTypeOK, QueueSound
    <3>2. queue[copy.event] # None
      BY <3>1, Values
    <3>3. PICK answer \in Answers : Handle(copy.event, queue[copy.event], answer)
      BY <2>2, <3>1 DEF ServeLate
    <3>4. UNCHANGED << stored, queue, status >>
      BY <2>2 DEF ServeLate, queueVars
    <3> QED
      BY <3>1, <3>2, <3>3, <3>4, HandleDelivers
  <2>3. ASSUME UNCHANGED << queue, status, applied >>
        PROVE  Delivery!Next \/ UNCHANGED Delivery!delivery
    BY <2>3, DeliveryStutters
  <2> QED
    BY <1>5, <2>1, <2>2, <2>3
       DEF PackStep, Alone, AnswerLater, Expire, Replace, packVars, queueVars
<1>6. CASE Recover \/ Alone(Crash) \/ UNCHANGED vars
  <2>1. UNCHANGED << queue, status, applied >>
    BY <1>6 DEF Recover, Alone, Crash, vars, packVars, queueVars
  <2> QED
    BY <2>1, DeliveryStutters
<1> QED
  BY <1>1, <1>2, <1>3, <1>4, <1>5, <1>6 DEF Next, HostStep

(***************************************************************************)
(* The queue implements the safety part of DurableDelivery: no event is    *)
(* applied twice, none is settled unapplied, and none is applied after it  *)
(* was dropped.                                                            *)
(***************************************************************************)
THEOREM PrivacyDeliversDurably == Spec => DeliversDurably
<1>1. Init => Delivery!Init
  BY DEF Init, InitQueue, Delivery!Init
<1>2. Inv /\ [Next]_vars => [Delivery!Next]_(Delivery!delivery)
  BY StepDelivers
<1> QED
  BY <1>1, <1>2, AlwaysInv, PTL DEF Spec, DeliversDurably, Delivery!Safe
=============================================================================
