---------------------------- MODULE DurableEvent ----------------------------
(***************************************************************************)
(* Events and requests as objects: constructed once, their canonical bytes *)
(* captured, saved, restored in a later process and copied, possibly with  *)
(* updates (privacy.py, _CanonicalRequest and its subclasses; comment.py,  *)
(* CommentEvent).                                                          *)
(*                                                                         *)
(* A request is a function from the names of its fields to their values,   *)
(* and so are its bytes: canonical JSON, sorted and without white space,   *)
(* is fixed by its members.                                                *)
(***************************************************************************)
EXTENDS Naturals, FiniteSets

CONSTANTS
  UUIDs,        \* event ids that may be minted
  Payloads,     \* everything else a privacy, erasure or identify request says
  MemoryLimit,  \* bound on the objects a process holds
  SavedLimit    \* bound on the payloads in durable storage

ASSUME DurableEventAssumption == MemoryLimit \in Nat /\ SavedLimit \in Nat

VARIABLES
  minted,   \* the <<type, id>> pairs used by constructions (history)
  memory,   \* the objects of the running process
  saved     \* durable storage: types and exact bytes

vars == << minted, memory, saved >>

-----------------------------------------------------------------------------
(***************************************************************************)
(* The types.  Identify requests have no id.  A comment's snapshot matters *)
(* by its session: whether it has an id, and whether it has just started.  *)
(***************************************************************************)
EventTypes == {"comment", "privacy", "erasure"}

Comment ==
  [ client_event_id : UUIDs, event_type : {"session_started", "navigation"},
    session_id : BOOLEAN, session_started : BOOLEAN ]
Privacy == [client_privacy_event_id : UUIDs, payload : Payloads]
Erasure == [client_erasure_event_id : UUIDs, payload : Payloads]
Identify == [payload : Payloads, require_existing_link : BOOLEAN]

FieldsOf(type) ==
  CASE type = "comment" -> Comment
    [] type = "privacy" -> Privacy
    [] type = "erasure" -> Erasure
    [] type = "identify" -> Identify

Id(type, fields) ==
  CASE type = "comment" -> fields.client_event_id
    [] type = "privacy" -> fields.client_privacy_event_id
    [] type = "erasure" -> fields.client_erasure_event_id

\* _session_start_fact_is_coherent; the other types have no such relation.
Coherent(type, fields) ==
  type = "comment" =>
    /\ fields.event_type = "session_started" => fields.session_id /\ fields.session_started
    /\ fields.event_type # "session_started" => ~fields.session_started

(***************************************************************************)
(* model_post_init: the bytes.  An identify that may create leaves the     *)
(* member out that SDKs before 0.3.1 did not have.                         *)
(***************************************************************************)
Without(fields, name) == [n \in DOMAIN fields \ {name} |-> fields[n]]

\* Seeded fault: the new member is always sent.
WithNewMember(type, fields) == fields
RequestBytes(type, fields) ==
  IF type = "identify" /\ ~fields.require_existing_link
  THEN Without(fields, "require_existing_link") ELSE fields

(***************************************************************************)
(* Validation of decoded members, a missing one taking its default.        *)
(***************************************************************************)
WithDefaults(type, members) ==
  IF type = "identify" /\ "require_existing_link" \notin DOMAIN members
  THEN [payload |-> members.payload, require_existing_link |-> FALSE]
  ELSE members

Accepted(type, members) ==
  /\ WithDefaults(type, members) \in FieldsOf(type)
  /\ Coherent(type, WithDefaults(type, members))

Object(type, members) ==
  LET fields == WithDefaults(type, members)
  IN [type |-> type, fields |-> fields, bytes |-> RequestBytes(type, fields)]

-----------------------------------------------------------------------------
\* Bytes an SDK before 0.3.1 saved are still there.
OldIdentify(p) == [type |-> "identify", bytes |-> [payload |-> p]]

Init ==
  /\ minted = {}
  /\ memory = {}
  /\ saved \in {{}} \cup { {OldIdentify(p)} : p \in Payloads }

Hold(o) ==
  /\ Cardinality(memory) < MemoryLimit
  /\ memory' = memory \cup {o}

\* create(...): a new id, unless the request has none.
Construct(type, fields) ==
  /\ Accepted(type, fields)
  /\ IF type \in EventTypes
     THEN /\ <<type, Id(type, fields)>> \notin minted
          /\ minted' = minted \cup {<<type, Id(type, fields)>>}
     ELSE UNCHANGED minted
  /\ Hold(Object(type, fields))
  /\ UNCHANGED saved

Save(o) ==
  /\ Cardinality(saved) < SavedLimit
  /\ saved' = saved \cup {[type |-> o.type, bytes |-> o.bytes]}
  /\ UNCHANGED << minted, memory >>

Delete(s) == saved' = saved \ {s} /\ UNCHANGED << minted, memory >>

Restore(s) ==
  /\ Accepted(s.type, s.bytes)
  /\ Hold(Object(s.type, s.bytes))
  /\ UNCHANGED << minted, saved >>

(***************************************************************************)
(* model_copy: the bytes decoded, updated and validated again.  Privacy    *)
(* and erasure events refuse any update.                                   *)
(***************************************************************************)
\* Seeded fault: every request may be updated.
AnyUpdatable(type) == TRUE
Updatable(type) == type \in {"comment", "identify"}

Updated(members, update) ==
  [n \in DOMAIN members \cup DOMAIN update |->
     IF n \in DOMAIN update THEN update[n] ELSE members[n]]

\* Seeded fault: pydantic's own model_copy, which keeps private attributes.
ShallowCopy(o, update) == [o EXCEPT !.fields = Updated(o.fields, update)]
ModelCopy(o, update) == Object(o.type, Updated(o.bytes, update))

NoUpdate == [n \in {} |-> TRUE]
Updates(type) ==
  {NoUpdate} \cup
  UNION { { [n \in {name} |-> fields[name]] : name \in DOMAIN fields } :
            fields \in FieldsOf(type) }

Copy(o, update) ==
  /\ update # NoUpdate => Updatable(o.type)
  /\ Accepted(o.type, Updated(o.bytes, update))
  /\ Hold(ModelCopy(o, update))
  /\ UNCHANGED << minted, saved >>

\* The process ends; a host or a worker starts again with the saved bytes.
Restart == memory # {} /\ memory' = {} /\ UNCHANGED << minted, saved >>

Next ==
  \/ \E type \in EventTypes \cup {"identify"} :
       \E fields \in FieldsOf(type) : Construct(type, fields)
  \/ \E o \in memory :
       \/ Save(o)
       \/ \E update \in Updates(o.type) : Copy(o, update)
  \/ \E s \in saved : Restore(s) \/ Delete(s)
  \/ Restart

Spec == Init /\ [][Next]_vars

-----------------------------------------------------------------------------
(***************************************************************************)
(* What a host reads off an object is what the SDK signs and Pack acts on: *)
(* decoding the bytes gives the fields back, also after updates, so an     *)
(* existing-only identify never creates an account and a copied comment    *)
(* never describes one session and sends another.                          *)
(***************************************************************************)
BytesMatchFields ==
  \A o \in memory :
    /\ WithDefaults(o.type, o.bytes) = o.fields
    /\ Coherent(o.type, o.fields)

(***************************************************************************)
(* Whatever is in storage is restored to exactly the bytes it was saved    *)
(* as: the retry Pack sees after a restart or an upgrade from an SDK before*)
(* 0.3.1 is the same request, and is not refused as a changed payload.     *)
(***************************************************************************)
RestoreIsExact ==
  \A s \in saved : Accepted(s.type, s.bytes) /\ Object(s.type, s.bytes).bytes = s.bytes

(***************************************************************************)
(* One UUID names one privacy operation or erasure job, for ever: no copy, *)
(* in memory or restored, has the id of another payload.                   *)
(***************************************************************************)
Known == saved \cup { [type |-> o.type, bytes |-> o.bytes] : o \in memory }

OneNamePerJob ==
  \A a, b \in Known :
    /\ a.type = b.type
    /\ a.type \in {"privacy", "erasure"}
    /\ Id(a.type, a.bytes) = Id(b.type, b.bytes)
    => a = b
=============================================================================
