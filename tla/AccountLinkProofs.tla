-------------------------- MODULE AccountLinkProofs -------------------------
(***************************************************************************)
(* What the operations of AccountLinkState return, and what AccountLink    *)
(* promises, for any set of incarnations and any bounds.                   *)
(***************************************************************************)
EXTENDS AccountLink, TLAPS

USE NoneIsNoPair, GenerationAssumption

-----------------------------------------------------------------------------
(***************************************************************************)
(* The order in which two observations of a generation reach a state does  *)
(* not matter, and observing one again changes nothing.                    *)
(***************************************************************************)
THEOREM ObservationsCommute ==
  ASSUME NEW s \in Pair, NEW g \in Generations, NEW h \in Generations
  PROVE  /\ ObserveGeneration(ObserveGeneration(s, g), h)
              = ObserveGeneration(ObserveGeneration(s, h), g)
         /\ ObserveGeneration(ObserveGeneration(s, g), g) = ObserveGeneration(s, g)
BY DEF ObserveGeneration, Pair, Generations

\* Observing a generation keeps the incarnation and never lowers it.
LEMMA Observed ==
  ASSUME NEW s \in Pair, NEW g \in Generations
  PROVE  /\ ObserveGeneration(s, g) \in Pair
         /\ ObserveGeneration(s, g).link_incarnation_id = s.link_incarnation_id
         /\ ObserveGeneration(s, g).privacy_generation >= s.privacy_generation
         /\ \/ ObserveGeneration(s, g) = s
            \/ ObserveGeneration(s, g) =
                 [link_incarnation_id |-> s.link_incarnation_id, privacy_generation |-> g]
BY DEF ObserveGeneration, Pair, Generations

\* A pair is its two fields, each of its type.
LEMMA PairOf ==
  ASSUME NEW p \in Pair
  PROVE  /\ p = [ link_incarnation_id |-> p.link_incarnation_id,
                  privacy_generation |-> p.privacy_generation ]
         /\ p.link_incarnation_id \in Incarnations
         /\ p.privacy_generation \in Generations
BY DEF Pair

\* Reconciling keeps one of the two pairs, and never lowers a generation.
LEMMA Reconciled ==
  ASSUME NEW s \in Pair, NEW r \in Pair
  PROVE  /\ ReconcileIdentify(s, r) \in {s, r}
         /\ ReconcileIdentify(s, r).link_incarnation_id = s.link_incarnation_id
              => ReconcileIdentify(s, r).privacy_generation >= s.privacy_generation
<1>1. FromIdentify(r) = r
  BY PairOf DEF FromIdentify
<1>2. CASE r.link_incarnation_id # s.link_incarnation_id
  BY <1>1, <1>2 DEF ReconcileIdentify
<1>3. CASE r.link_incarnation_id = s.link_incarnation_id
  <2>1. ReconcileIdentify(s, r) = ObserveGeneration(s, r.privacy_generation)
    BY <1>3 DEF ReconcileIdentify
  <2>2. r = [ link_incarnation_id |-> s.link_incarnation_id,
              privacy_generation |-> r.privacy_generation ]
    BY <1>3, PairOf
  <2>3. r.privacy_generation \in Generations
    BY PairOf
  <2> QED
    BY <2>1, <2>2, <2>3, Observed
<1> QED
  BY <1>2, <1>3

-----------------------------------------------------------------------------
(***************************************************************************)
(* The inductive invariant: every pair under way, and the one stored, has  *)
(* been issued, and nothing reaches a host that stores no pair but its     *)
(* first identify.                                                         *)
(***************************************************************************)
Outcome(m) ==
  [ link_incarnation_id |-> m.captured.link_incarnation_id,
    privacy_generation |-> m.privacy_generation ]

Genuine ==
  /\ TypeOK
  /\ account \in issued
  /\ events \subseteq issued
  /\ identifies \subseteq issued
  /\ \A m \in results : m.captured \in issued /\ Outcome(m) \in issued
  /\ stored = None => events = {} /\ results = {}
  /\ StoredIsGenuine

\* Initially every pair in the system was issued by Pack.
LEMMA GenuineInit == Init => Genuine
<1> SUFFICES ASSUME Init PROVE Genuine
  OBVIOUS
<1>1. account \in Pair
  BY DEF Init
<1>2. identifying \in BOOLEAN
  BY DEF Init
<1> QED
  BY <1>1, <1>2 DEF Init, Genuine, TypeOK, StoredIsGenuine

\* Persisting an observed result stores a pair Pack issued.
LEMMA PersistedGenuine ==
  ASSUME Genuine, NEW m \in results
  PROVE  /\ stored \in Pair /\ m \in Result
         /\ PersistMaxOnly(stored, ObserveResult(m.captured, m)) \in Pair \cap issued
         /\ PersistMaxOnly(stored, ObserveResult(m.captured, m)).link_incarnation_id
              = stored.link_incarnation_id
         /\ PersistMaxOnly(stored, ObserveResult(m.captured, m)).privacy_generation
              >= stored.privacy_generation
<1> DEFINE new == ObserveResult(m.captured, m)
<1>1. stored \in Pair /\ stored \in issued /\ m \in Result
  BY DEF Genuine, TypeOK, StoredIsGenuine
<1>2. /\ m.captured \in Pair /\ m.privacy_generation \in Generations
      /\ m.captured \in issued /\ Outcome(m) \in issued
  BY <1>1 DEF Result, Genuine
<1>3. /\ new \in Pair /\ new \in issued
      /\ new.privacy_generation \in Generations
  <2>1. new \in Pair /\ (new = m.captured \/ new = Outcome(m))
    BY <1>2, Observed DEF ObserveResult, Outcome
  <2> QED
    BY <2>1, <1>2, PairOf
<1>4. stored.privacy_generation \in Generations
  BY <1>1, PairOf
<1> HIDE DEF new
<1>5. CASE new.link_incarnation_id # stored.link_incarnation_id
  <2>1. PersistMaxOnly(stored, new) = stored
    BY <1>5 DEF PersistMaxOnly
  <2>2. stored.privacy_generation >= stored.privacy_generation
    BY <1>4 DEF Generations
  <2> QED
    BY <1>1, <2>1, <2>2 DEF new
<1>6. CASE new.link_incarnation_id = stored.link_incarnation_id
  <2>1. PersistMaxOnly(stored, new) = ObserveGeneration(stored, new.privacy_generation)
    BY <1>6 DEF PersistMaxOnly
  <2>2. new = [ link_incarnation_id |-> stored.link_incarnation_id,
                privacy_generation |-> new.privacy_generation ]
    BY <1>3, <1>6, PairOf
  <2> QED
    BY <1>1, <1>3, <2>1, <2>2, Observed DEF new
<1> QED
  BY <1>5, <1>6

\* Every step keeps every pair in the system one Pack issued.
LEMMA GenuineNext == Genuine /\ [Next]_vars => Genuine'
<1> SUFFICES ASSUME Genuine, [Next]_vars PROVE Genuine'
  OBVIOUS
<1> USE DEF Genuine, StoredIsGenuine
<1>1. ASSUME NEW i \in Incarnations, Replace(i) PROVE Genuine'
  <2>1. account' \in Pair
    BY <1>1 DEF Replace, Pair, Generations
  <2> QED
    BY <1>1, <2>1 DEF Replace, TypeOK
<1>2. ASSUME NEW e \in events, NEW g \in Generations, Apply(e, g) PROVE Genuine'
  <2> DEFINE m == [captured |-> e, privacy_generation |-> g]
  <2>1. e \in Pair /\ e \in issued /\ e = account /\ stored # None
    BY <1>2 DEF Apply, TypeOK
  <2>2. account' = Outcome(m) /\ account' \in Pair
    BY <1>2, <2>1, PairOf DEF Apply, Outcome, Pair
  <2>3. m \in Result
    BY <2>1 DEF Result
  <2>4. /\ results' = results \cup {m} /\ issued' = issued \cup {account'}
        /\ events' = events \ {e} /\ UNCHANGED << identifies, identifying, stored >>
    BY <1>2 DEF Apply
  <2>5. m.captured = e
    OBVIOUS
  <2> HIDE DEF m
  <2>6. TypeOK'
    BY <2>2, <2>3, <2>4 DEF TypeOK
  <2>7. \A n \in results' : n.captured \in issued' /\ Outcome(n)' \in issued'
    BY <2>1, <2>2, <2>4, <2>5 DEF Outcome
  <2> QED
    BY <2>1, <2>4, <2>6, <2>7 DEF Outcome
<1>3. ASSUME NEW e \in events, Refuse(e) PROVE Genuine'
  BY <1>3 DEF Refuse, TypeOK, Outcome
<1>4. CASE AnswerIdentify
  BY <1>4 DEF AnswerIdentify, TypeOK, Outcome
<1>5. CASE Create
  <2>1. SnapshotUser(stored) = stored /\ stored \in Pair /\ stored \in issued
    BY <1>5, PairOf DEF Create, SnapshotUser, TypeOK
  <2> QED
    BY <1>5, <2>1 DEF Create, TypeOK, Outcome
<1>6. ASSUME NEW r \in identifies, ReceiveIdentify(r) PROVE Genuine'
  <2>1. r \in Pair /\ r \in issued
    BY DEF TypeOK
  <2>2. stored' \in Pair /\ stored' \in issued
    <3>1. CASE stored = None
      BY <1>6, <2>1, <3>1, PairOf DEF ReceiveIdentify, FromIdentify
    <3>2. CASE stored # None
      BY <1>6, <2>1, <3>2, Reconciled DEF ReceiveIdentify, TypeOK
    <3> QED
      BY <3>1, <3>2
  <2> QED
    BY <1>6, <2>1, <2>2 DEF ReceiveIdentify, TypeOK, Outcome
<1>7. ASSUME NEW m \in results, ReceiveResult(m) PROVE Genuine'
  <2>1. stored' \in Pair /\ stored' \in issued
    BY <1>7, PersistedGenuine DEF ReceiveResult
  <2> QED
    BY <1>7, <2>1 DEF ReceiveResult, TypeOK, Outcome
<1>8. CASE UNCHANGED vars
  BY <1>8 DEF vars, TypeOK, Outcome
<1> QED
  BY <1>1, <1>2, <1>3, <1>4, <1>5, <1>6, <1>7, <1>8 DEF Next, PackStep, HostStep

\* Every pair in the system was issued by Pack, throughout.
LEMMA AlwaysGenuine == Spec => []Genuine
BY GenuineInit, GenuineNext, PTL DEF Spec

(***************************************************************************)
(* Type correctness for any incarnations and any bounds.                   *)
(***************************************************************************)
THEOREM LinkTypeCorrect == Spec => []TypeOK
BY AlwaysGenuine, PTL DEF Genuine

(***************************************************************************)
(* Whatever the order of responses, a stored pair is one the account was   *)
(* in.                                                                     *)
(***************************************************************************)
THEOREM OnlyGenuineStored == Spec => []StoredIsGenuine
BY AlwaysGenuine, PTL DEF Genuine

(***************************************************************************)
(* No response rolls a generation back within its incarnation.             *)
(***************************************************************************)
THEOREM NeverRolledBack == Spec => NoRollback
<1> DEFINE Kept == stored # None /\ stored'.link_incarnation_id = stored.link_incarnation_id
                     => stored'.privacy_generation >= stored.privacy_generation
<1>1. Genuine /\ [Next]_vars => Kept \/ UNCHANGED stored
  <2> SUFFICES ASSUME Genuine, [Next]_vars, stored # None,
                      stored'.link_incarnation_id = stored.link_incarnation_id,
                      stored' # stored
               PROVE  stored'.privacy_generation >= stored.privacy_generation
    OBVIOUS
  <2>1. ASSUME NEW r \in identifies, ReceiveIdentify(r)
        PROVE  stored'.privacy_generation >= stored.privacy_generation
    BY <2>1, Reconciled DEF ReceiveIdentify, Genuine, TypeOK
  <2>2. ASSUME NEW m \in results, ReceiveResult(m)
        PROVE  stored'.privacy_generation >= stored.privacy_generation
    BY <2>2, PersistedGenuine DEF ReceiveResult
  <2> QED
    BY <2>1, <2>2 DEF Next, PackStep, HostStep, vars, Replace, Apply, Refuse,
       AnswerIdentify, Create
<1> QED
  BY <1>1, AlwaysGenuine, PTL DEF Spec, NoRollback
=============================================================================
