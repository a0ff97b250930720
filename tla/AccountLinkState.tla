-------------------------- MODULE AccountLinkState --------------------------
(***************************************************************************)
(* AccountLinkState (privacy.py): the token pair of one app account, and   *)
(* the operations by which a host folds Pack's responses into it.          *)
(***************************************************************************)
EXTENDS Naturals

CONSTANTS
  Incarnations,      \* link incarnations Pack may ever create for the account
  GenerationLimit    \* bound on the generations Pack issues

ASSUME GenerationAssumption == GenerationLimit \in Nat

Generations == 0..GenerationLimit
Pair == [link_incarnation_id : Incarnations, privacy_generation : Generations]

-----------------------------------------------------------------------------
(***************************************************************************)
(* AccountLinkState.  An identify response and a state carry the same two  *)
(* fields; a mutation result carries a generation only.                    *)
(***************************************************************************)
FromIdentify(response) ==
  [ link_incarnation_id |-> response.link_incarnation_id,
    privacy_generation |-> response.privacy_generation ]

\* Seeded fault: the last response to arrive wins.
LastObserved(self, generation) == [self EXCEPT !.privacy_generation = generation]
\* Seeded fault: the host counts generations itself.
CountedLocally(self, generation) ==
  [self EXCEPT !.privacy_generation = self.privacy_generation + 1]
ObserveGeneration(self, generation) ==
  IF generation <= self.privacy_generation THEN self
  ELSE [self EXCEPT !.privacy_generation = generation]

ObserveResult(self, result) == ObserveGeneration(self, result.privacy_generation)

\* Seeded fault: the maximum is kept across a replacement of the account.
MaxAcrossReplacement(self, response) ==
  [ObserveGeneration(self, response.privacy_generation) EXCEPT
     !.link_incarnation_id = response.link_incarnation_id]
\* Seeded fault: a state never leaves its incarnation.
DeafToReplacement(self, response) ==
  IF response.link_incarnation_id # self.link_incarnation_id THEN self
  ELSE ObserveGeneration(self, response.privacy_generation)
ReconcileIdentify(self, response) ==
  IF response.link_incarnation_id # self.link_incarnation_id
  THEN FromIdentify(response)
  ELSE ObserveGeneration(self, response.privacy_generation)

(***************************************************************************)
(* External: a host's max-only persistence of the state it gets back.      *)
(***************************************************************************)
PersistMaxOnly(old, new) ==
  IF new.link_incarnation_id = old.link_incarnation_id
  THEN ObserveGeneration(old, new.privacy_generation)
  ELSE old

(***************************************************************************)
(* The tokens an event captures when it is created (snapshot_user).        *)
(***************************************************************************)
SnapshotUser(self) ==
  [ link_incarnation_id |-> self.link_incarnation_id,
    privacy_generation |-> self.privacy_generation ]
=============================================================================
