---------------------------- MODULE AccountLink -----------------------------
(***************************************************************************)
(* The token pair a host persists for one app account (AccountLinkState,   *)
(* privacy.py) while identify and mutation responses reach it in any order.*)
(*                                                                         *)
(* From the source: the operations on the pair.  External, as privacy.py   *)
(* and README.md require of them: Pack, which issues pairs and refuses a   *)
(* stale one, and the host, which persists what the operations return.     *)
(***************************************************************************)
EXTENDS AccountLinkState, FiniteSets

CONSTANTS
  None,           \* Python's None
  InFlightLimit   \* bound on requests and responses under way

ASSUME NoneIsNoPair == None \notin Pair

-----------------------------------------------------------------------------
VARIABLES
  account,      \* Pack's pair for the account now
  issued,       \* every pair the account has been in (history)
  events,       \* tokens of the mutations under way to Pack
  results,      \* mutation results under way to the host
  identifies,   \* identify responses under way to the host
  identifying,  \* the host wants an identify answered
  stored        \* the AccountLinkState the host has persisted, or None

vars == << account, issued, events, results, identifies, identifying, stored >>

MayAdd ==
  Cardinality(events) + Cardinality(results) + Cardinality(identifies) < InFlightLimit

Init ==
  /\ account \in {p \in Pair : p.privacy_generation = 0}
  /\ issued = {account}
  /\ events = {}
  /\ results = {}
  /\ identifies = {}
  /\ identifying = TRUE
  /\ stored = None

(***************************************************************************)
(* Pack: the account is erased and registered again, an event bound to the *)
(* current pair is applied (its result names the resulting epoch), and an  *)
(* event bound to any other pair is refused as stale.                      *)
(***************************************************************************)
Replace(i) ==
  /\ i \notin {p.link_incarnation_id : p \in issued}
  /\ account' = [link_incarnation_id |-> i, privacy_generation |-> 0]
  /\ issued' = issued \cup {account'}
  /\ UNCHANGED << events, results, identifies, identifying, stored >>

Apply(e, g) ==
  /\ e = account
  /\ g \in {e.privacy_generation, e.privacy_generation + 1} \cap Generations
  /\ account' = [account EXCEPT !.privacy_generation = g]
  /\ issued' = issued \cup {account'}
  /\ events' = events \ {e}
  /\ results' = results \cup {[captured |-> e, privacy_generation |-> g]}
  /\ UNCHANGED << identifies, identifying, stored >>

(***************************************************************************)
(* A stale refusal is start_new_read: the host drops the event and starts  *)
(* an existing-only identify.                                              *)
(***************************************************************************)
Refuse(e) ==
  /\ e # account
  /\ events' = events \ {e}
  /\ identifying' = TRUE
  /\ UNCHANGED << account, issued, results, identifies, stored >>

AnswerIdentify ==
  /\ MayAdd
  /\ identifies' = identifies \cup {account}
  /\ identifying' = FALSE
  /\ UNCHANGED << account, issued, events, results, stored >>

(***************************************************************************)
(* The host: it creates a mutation from the state it has, and folds each   *)
(* response into its store.  A result is observed by the state the event   *)
(* was created from, and persisted only as a maximum of one incarnation.   *)
(***************************************************************************)
Create ==
  /\ stored # None
  /\ MayAdd
  /\ events' = events \cup {SnapshotUser(stored)}
  /\ UNCHANGED << account, issued, results, identifies, identifying,
                  stored >>

ReceiveIdentify(r) ==
  /\ identifies' = identifies \ {r}
  /\ stored' = IF stored = None THEN FromIdentify(r) ELSE ReconcileIdentify(stored, r)
  /\ UNCHANGED << account, issued, events, results, identifying >>

ReceiveResult(m) ==
  /\ results' = results \ {m}
  /\ stored' = PersistMaxOnly(stored, ObserveResult(m.captured, m))
  /\ UNCHANGED << account, issued, events, identifies, identifying >>

PackStep ==
  \/ \E i \in Incarnations : Replace(i)
  \/ \E e \in events, g \in Generations : Apply(e, g)
  \/ \E e \in events : Refuse(e)
  \/ AnswerIdentify

HostStep ==
  \/ Create
  \/ \E r \in identifies : ReceiveIdentify(r)
  \/ \E m \in results : ReceiveResult(m)

Next == PackStep \/ HostStep

(***************************************************************************)
(* Pack answers each event and each wanted identify, every response is     *)
(* eventually handled, and the host goes on creating mutations.            *)
(***************************************************************************)
Fairness ==
  /\ \A e \in Pair : WF_vars(e \in events /\ (Refuse(e) \/ \E g \in Generations : Apply(e, g)))
  /\ \A r \in Pair : WF_vars(r \in identifies /\ ReceiveIdentify(r))
  /\ WF_vars(\E m \in results : ReceiveResult(m))
  /\ WF_vars(identifying /\ AnswerIdentify)
  /\ WF_vars(Create)

Spec == Init /\ [][Next]_vars /\ Fairness

-----------------------------------------------------------------------------
(***************************************************************************)
(* Type invariant.                                                         *)
(***************************************************************************)
Result == [captured : Pair, privacy_generation : Generations]

TypeOK ==
  /\ account \in Pair
  /\ issued \subseteq Pair
  /\ events \subseteq Pair
  /\ results \subseteq Result
  /\ identifies \subseteq Pair
  /\ identifying \in BOOLEAN
  /\ stored \in Pair \cup {None}

(***************************************************************************)
(* In whatever order identifies and results of old and new incarnations    *)
(* arrive, the pair the host stores is one the account really was in:      *)
(* never one incarnation with another one's generation, never a generation *)
(* ahead of Pack, which max-only observation could not repair.             *)
(***************************************************************************)
StoredIsGenuine == stored # None => stored \in issued

(***************************************************************************)
(* No response, however late, rolls a stored generation back within its    *)
(* incarnation.                                                            *)
(***************************************************************************)
NoRollback ==
  [][ stored # None /\ stored'.link_incarnation_id = stored.link_incarnation_id
        => stored'.privacy_generation >= stored.privacy_generation ]_stored

(***************************************************************************)
(* A late identify may put a replaced incarnation back into the store, but *)
(* not for good: when Pack's pair has stopped changing, refusals and the   *)
(* recoveries they start bring the host to it.                             *)
(***************************************************************************)
Converges == <>[](stored = account)
=============================================================================
