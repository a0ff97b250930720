------------------------------- MODULE Erasure ------------------------------
(***************************************************************************)
(* Durable account erasure end to end (README.md, "Durable app-account     *)
(* erasure"): erasure jobs of one host account in the host's queue, their  *)
(* single-attempt calls, Pack's receipts, and the identify ceremonies that *)
(* register the account, recover its token, or register it again with the  *)
(* capability an erasure returned.                                         *)
(*                                                                         *)
(* An identify is one step here, its answer received or lost: AccountLink  *)
(* has the late and reordered ones.                                        *)
(***************************************************************************)
EXTENDS DurableQueue

CONSTANT IncarnationLimit   \* bound on the incarnations Pack creates

ASSUME ErasureAssumption == IncarnationLimit \in Nat \ {0}

VARIABLES
  account,     \* Pack: None or the incarnation of the account
  created,     \* Pack: the incarnations created so far, numbered from 0
  tombstone,   \* Pack: None or the erasure_id that may register it again
  receipts,    \* Pack: per client_erasure_event_id None or its result
  erased,      \* the <<event, incarnation>> pairs carried out (history)
  handled,     \* how often Pack carried out each job (history)
  stored,      \* host, durable: None or the link incarnation it knows
  identified,  \* host, durable: whether it ever sent an ordinary identify
  ledger,      \* host, durable: the erasure_ids of terminal receipts
  born         \* per job, the incarnations created when it was (history)

packVars == << account, created, tombstone, receipts, erased, handled >>
hostVars == << stored, identified, ledger, born >>
vars == << packVars, hostVars, queueVars >>

Incarnations == 0..(IncarnationLimit - 1)

(***************************************************************************)
(* EraseForAppEvent.  None as incarnation says that Pack never established *)
(* a link.                                                                 *)
(***************************************************************************)
Bytes == [ client_erasure_event_id : Events,
           expected_link_incarnation_id : Incarnations \cup {None} ]

ASSUME NoneIsNoEvent == None \notin Bytes

EraseForAppEvent(e, incarnation) ==
  [ client_erasure_event_id |-> e, expected_link_incarnation_id |-> incarnation ]

\* Seeded fault: a redelivery borrows the incarnation the host knows now.
RefreshedIncarnation(payload) ==
  EraseForAppEvent(payload.client_erasure_event_id, stored)
FromRequestBytes(payload) ==
  EraseForAppEvent(payload.client_erasure_event_id, payload.expected_link_incarnation_id)

\* The receipt of an erasure: its capability, and whether an account was erased.
Receipts == [erasure_id : Events, erased : BOOLEAN]

ASSUME NoneIsNoReceipt == None \notin Receipts

EraseForAppResult(e, did) == [erasure_id |-> e, erased |-> did]

Init ==
  /\ account = None
  /\ created = 0
  /\ tombstone = None
  /\ receipts = [e \in Events |-> None]
  /\ erased = {}
  /\ handled = [e \in Events |-> 0]
  /\ stored = None
  /\ identified = FALSE
  /\ ledger = {}
  /\ born = [e \in Events |-> 0]
  /\ InitQueue

-----------------------------------------------------------------------------
(***************************************************************************)
(* Pack's side of an erasure.  A known id is answered from its receipt; a  *)
(* job of the current incarnation erases it; a job that says there never   *)
(* was a link is recorded if that is so; any other is stale.               *)
(***************************************************************************)
Replay(bytes, answer) ==
  /\ receipts[bytes.client_erasure_event_id] # None
  /\ answer = Reply(200, None, receipts[bytes.client_erasure_event_id])
  /\ UNCHANGED packVars

\* The job names the account as it is; None names one never linked.
NamesAccount(bytes) ==
  bytes.expected_link_incarnation_id = account /\ tombstone = None

RefuseStale(bytes, answer) ==
  /\ receipts[bytes.client_erasure_event_id] = None
  /\ ~NamesAccount(bytes)
  /\ answer = Reply(409, "stale_account_incarnation", None)
  /\ UNCHANGED packVars

Erase(e, bytes, answer) ==
  LET id == bytes.client_erasure_event_id
      result == EraseForAppResult(id, account # None)
  IN
  /\ receipts[id] = None
  /\ NamesAccount(bytes)
  /\ receipts' = [receipts EXCEPT ![id] = result]
  /\ answer = Reply(200, None, result)
  /\ erased' = IF account = None THEN erased ELSE erased \cup {<<e, account>>}
  /\ tombstone' = id
  /\ account' = None
  /\ handled' = [handled EXCEPT ![e] = handled[e] + 1]
  /\ UNCHANGED created

Handle(e, bytes, answer) ==
  \/ Replay(bytes, answer)
  \/ RefuseStale(bytes, answer)
  \/ Erase(e, bytes, answer)

Answers ==
  { Reply(409, "stale_account_incarnation", None) }
    \cup { Reply(200, None, EraseForAppResult(e, did)) : e \in Events, did \in BOOLEAN }

Serve(e) ==
  /\ \E answer \in Answers : Answer(e, answer) /\ Handle(e, call[e].bytes, answer)
  /\ UNCHANGED hostVars

ServeLate(copy) ==
  /\ \E answer \in Answers : Handle(copy.event, copy.bytes, answer)
  /\ UNCHANGED << hostVars, queueVars >>

-----------------------------------------------------------------------------
(***************************************************************************)
(* Identify ceremonies of the host.                                        *)
(***************************************************************************)
MayRegister(re_registration_erasure_id) ==
  /\ created < IncarnationLimit
  /\ tombstone = re_registration_erasure_id

\* What an answer to identify, or its loss, leaves in the host's store.
Stored(incarnation) == stored' \in {stored, incarnation}

(***************************************************************************)
(* The user registers: for the first time, or again with the capability of *)
(* the last erasure.  An existing account is returned; without a right to  *)
(* register nothing happens.                                               *)
(***************************************************************************)
Identify(re_registration_erasure_id) ==
  /\ stored = None
  /\ re_registration_erasure_id \in ledger \cup {None}
  /\ identified' = TRUE
  /\ IF account = None /\ MayRegister(re_registration_erasure_id)
     THEN /\ account' = created
          /\ created' = created + 1
          /\ tombstone' = None
     ELSE UNCHANGED << account, created, tombstone >>
  /\ Stored(account')
  /\ UNCHANGED << receipts, erased, handled, ledger, born, queueVars >>

(***************************************************************************)
(* Existing-only recovery of the token pair: the current account, or the   *)
(* exact 404 that says there is no link (ExistingIdentityLinkRequired).    *)
(***************************************************************************)
RecoverExisting ==
  /\ identified
  /\ Stored(account)
  /\ UNCHANGED << packVars, identified, ledger, born, queueVars >>

-----------------------------------------------------------------------------
(***************************************************************************)
(* The host's erasure worker.                                              *)
(***************************************************************************)
Alone(Step) == Step /\ UNCHANGED << packVars, hostVars >>

\* create_for_state, or create(..., None) by a host that never sent an identify.
Create(e) ==
  /\ stored # None \/ ~identified
  /\ Enqueue(e, EraseForAppEvent(e, stored))
  /\ born' = [born EXCEPT ![e] = created]
  /\ UNCHANGED << packVars, stored, identified, ledger >>

Redeliver(e) == Alone(Deliver(e, FromRequestBytes(queue[e])))

(***************************************************************************)
(* persist_terminal_erasure_receipt, with the deletion of the user row.    *)
(***************************************************************************)
PersistReceipt(e) ==
  /\ Proceed(e, "result", "delete")
  /\ ledger' = ledger \cup {call[e].reply.result.erasure_id}
  /\ stored' = IF stored = queue[e].expected_link_incarnation_id THEN None ELSE stored
  /\ UNCHANGED << packVars, identified, born >>

HostStep(e) ==
  \/ Redeliver(e)
  \/ PersistReceipt(e)
  \/ Alone(Delete(e))

NetworkStep(e) ==
  \/ Alone(Transmit(e))
  \/ Alone(Receive(e))
  \/ Alone(Cut(e))
  \/ Alone(Abandon(e))

PackStep ==
  \/ \E e \in Events : Serve(e) \/ Alone(AnswerLater(e))
  \/ \E copy \in late : ServeLate(copy)

Next ==
  \/ \E e \in Events : Create(e) \/ HostStep(e) \/ NetworkStep(e)
  \/ PackStep
  \/ \E id \in Events \cup {None} : Identify(id)
  \/ RecoverExisting
  \/ Alone(Crash)

(***************************************************************************)
(* The durable queue retries for ever; of endlessly many calls one is sent *)
(* before it is abandoned, of endlessly many requests one is answered for  *)
(* good, and of endlessly many such answers one is received.               *)
(***************************************************************************)
ReceiveFinal(e) ==
  /\ call[e] # None
  /\ call[e].reply \notin Transient \cup {None}
  /\ Alone(Receive(e))

Fairness ==
  \A e \in Events :
    /\ WF_vars(HostStep(e)) /\ SF_vars(Alone(Transmit(e))) /\ WF_vars(Alone(Receive(e)))
    /\ SF_vars(Serve(e)) /\ SF_vars(ReceiveFinal(e))

Spec == Init /\ [][Next]_vars /\ Fairness

-----------------------------------------------------------------------------
(***************************************************************************)
(* Type invariant.                                                         *)
(***************************************************************************)
TypeOK ==
  /\ account \in Incarnations \cup {None}
  /\ created \in 0..IncarnationLimit
  /\ tombstone \in Events \cup {None}
  /\ receipts \in [Events -> Receipts \cup {None}]
  /\ erased \subseteq Events \X Incarnations
  /\ handled \in [Events -> Nat]
  /\ stored \in Incarnations \cup {None}
  /\ identified \in BOOLEAN
  /\ ledger \subseteq Events
  /\ born \in [Events -> 0..IncarnationLimit]
  /\ QueueTypeOK(Bytes, Answers)

(***************************************************************************)
(* However late an erasure or one of its copies is delivered, it erases no *)
(* account that was registered after the user asked for it.                *)
(***************************************************************************)
NewAccountSurvives == \A x \in erased : x[2] < born[x[1]]

(***************************************************************************)
(* A job that took effect is not dropped as refused: its erasure_id, the   *)
(* one capability to register again, is not thrown away.  (A privacy event *)
(* can be: its call has more than one attempt.)                            *)
(***************************************************************************)
ErasedIsNotDropped == \A e \in Events : status[e] = "dropped" => handled[e] = 0

(***************************************************************************)
(* Across lost responses and crashes, the capability of every erasure that *)
(* took effect reaches the ledger that outlives the user row.              *)
(***************************************************************************)
CapabilityReachesLedger ==
  \A e \in Events : handled[e] > 0 ~> receipts[e] # None /\ receipts[e].erasure_id \in ledger

(***************************************************************************)
(* The erasure queue keeps the promise of DurableDelivery.                 *)
(***************************************************************************)
Delivery == INSTANCE DurableDelivery
  WITH queued <- {e \in Events : queue[e] # None}, effects <- handled,
       verdict <- status

DeliversDurably == Delivery!Safe
=============================================================================
