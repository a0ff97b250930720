-------------------------- MODULE DurableEventProofs ------------------------
(***************************************************************************)
(* What DurableEvent promises for any ids, payloads and bounds: an object's*)
(* bytes and fields agree, storage is restored exactly, and a UUID names   *)
(* one job.                                                                *)
(***************************************************************************)
EXTENDS DurableEvent, TLAPS

Types == EventTypes \cup {"identify"}

(***************************************************************************)
(* The inductive invariant: what is in memory or in storage comes from one *)
(* set of accepted fields, and the ids in use were minted for one payload. *)
(***************************************************************************)
Sound(type, fields, bytes) ==
  /\ type \in Types
  /\ fields \in FieldsOf(type)
  /\ Coherent(type, fields)
  /\ bytes = RequestBytes(type, fields)

Jobs == {"privacy", "erasure"}

Minted ==
  \A k \in Known : k.type \in Jobs => <<k.type, Id(k.type, k.bytes)>> \in minted

Inv ==
  /\ \A o \in memory : Sound(o.type, o.fields, o.bytes)
  /\ \A s \in saved :
       /\ s = [type |-> s.type, bytes |-> s.bytes]
       /\ \E fields \in FieldsOf(s.type) : Sound(s.type, fields, s.bytes)
  /\ Minted
  /\ OneNamePerJob

-----------------------------------------------------------------------------
\* Only an identify's bytes differ from its fields, by the member left out.
LEMMA BytesOf ==
  ASSUME NEW type \in Types, NEW fields \in FieldsOf(type)
  PROVE  /\ type # "identify" => RequestBytes(type, fields) = fields
         /\ type = "identify" /\ fields.require_existing_link =>
              RequestBytes(type, fields) = fields
         /\ type = "identify" /\ ~fields.require_existing_link =>
              /\ DOMAIN RequestBytes(type, fields) = {"payload"}
              /\ RequestBytes(type, fields).payload = fields.payload
<1>1. CASE type = "identify" /\ ~fields.require_existing_link
  <2>1. RequestBytes(type, fields)
          = [n \in DOMAIN fields \ {"require_existing_link"} |-> fields[n]]
    BY <1>1 DEF RequestBytes, Without
  <2>2. DOMAIN fields = {"payload", "require_existing_link"}
    BY <1>1 DEF FieldsOf, Identify
  <2>3. DOMAIN fields \ {"require_existing_link"} = {"payload"}
    BY <2>2
  <2> QED
    BY <1>1, <2>1, <2>3
<1>2. CASE ~(type = "identify" /\ ~fields.require_existing_link)
  BY <1>2 DEF RequestBytes
<1> QED
  BY <1>1, <1>2

\* Decoding an object's bytes gives its fields back.
LEMMA RoundTrip ==
  ASSUME NEW type \in Types, NEW fields \in FieldsOf(type)
  PROVE  WithDefaults(type, RequestBytes(type, fields)) = fields
<1> DEFINE b == RequestBytes(type, fields)
<1>1. CASE type # "identify"
  BY <1>1, BytesOf DEF WithDefaults
<1>2. CASE type = "identify"
  <2>1. fields \in Identify
    BY <1>2 DEF FieldsOf
  <2>2. CASE fields.require_existing_link
    <3>1. b = fields
      BY <1>2, <2>2, BytesOf
    <3>2. "require_existing_link" \in DOMAIN fields
      BY <2>1 DEF Identify
    <3> QED
      BY <3>1, <3>2 DEF WithDefaults
  <2>3. CASE ~fields.require_existing_link
    <3>1. DOMAIN b = {"payload"} /\ b.payload = fields.payload
      BY <1>2, <2>3, BytesOf
    <3> HIDE DEF b
    <3>2. WithDefaults(type, b) = [payload |-> b.payload, require_existing_link |-> FALSE]
      BY <1>2, <3>1 DEF WithDefaults
    <3>3. fields = [payload |-> fields.payload, require_existing_link |-> FALSE]
      BY <2>1, <2>3 DEF Identify
    <3> QED
      BY <3>1, <3>2, <3>3 DEF b
  <2> QED
    BY <2>2, <2>3
<1> QED
  BY <1>1, <1>2

\* An object made of accepted members is sound.
LEMMA ObjectSound ==
  ASSUME NEW type \in Types, NEW members, Accepted(type, members)
  PROVE  LET o == Object(type, members) IN
         o.type = type /\ Sound(o.type, o.fields, o.bytes)
BY DEF Accepted, Object, Sound

\* What is restored from sound bytes has these bytes, and is accepted.
LEMMA RestoredSound ==
  ASSUME NEW type, NEW bytes, NEW fields, Sound(type, fields, bytes)
  PROVE  Accepted(type, bytes) /\ Object(type, bytes).bytes = bytes
<1>1. WithDefaults(type, bytes) = fields
  BY RoundTrip DEF Sound
<1> QED
  BY <1>1 DEF Sound, Accepted, Object

\* Without an update the members of a request are its bytes.
LEMMA CopyOfBytes ==
  ASSUME NEW type \in Jobs, NEW fields, NEW bytes, Sound(type, fields, bytes)
  PROVE  Updated(bytes, NoUpdate) = bytes
<1>1. bytes = fields /\ fields \in FieldsOf(type)
  BY BytesOf DEF Sound, Jobs
<1>2. DOMAIN NoUpdate = {}
  BY DEF NoUpdate
<1>3. Updated(bytes, NoUpdate) = [n \in DOMAIN bytes |-> bytes[n]]
  BY <1>2 DEF Updated
<1>4. bytes = [n \in DOMAIN bytes |-> bytes[n]]
  BY <1>1 DEF Jobs, FieldsOf, Privacy, Erasure
<1> QED
  BY <1>3, <1>4

-----------------------------------------------------------------------------
\* An identify saved before 0.3.1 decodes to one that may create.
LEMMA OldIsSound ==
  ASSUME NEW p \in Payloads
  PROVE  LET s == OldIdentify(p) IN
         /\ s.type = "identify"
         /\ s = [type |-> s.type, bytes |-> s.bytes]
         /\ \E fields \in FieldsOf(s.type) : Sound(s.type, fields, s.bytes)
<1> DEFINE fields == [payload |-> p, require_existing_link |-> FALSE]
           s == OldIdentify(p)
<1>1. s.type = "identify" /\ s.bytes = [payload |-> p]
      /\ s = [type |-> s.type, bytes |-> s.bytes]
  BY DEF OldIdentify
<1>2. fields \in FieldsOf("identify") /\ Coherent("identify", fields)
  BY DEF FieldsOf, Identify, Coherent
<1>3. RequestBytes("identify", fields) = [payload |-> p]
  <2>1. DOMAIN fields \ {"require_existing_link"} = {"payload"}
    OBVIOUS
  <2>2. RequestBytes("identify", fields)
          = [n \in DOMAIN fields \ {"require_existing_link"} |-> fields[n]]
    BY DEF RequestBytes, Without
  <2>3. RequestBytes("identify", fields) = [n \in {"payload"} |-> p]
    BY <2>1, <2>2
  <2> QED
    BY <2>3
<1>4. Sound("identify", fields, s.bytes)
  BY <1>1, <1>2, <1>3 DEF Sound, Types
<1> QED
  BY <1>1, <1>2, <1>4

\* What is in use initially is old identifies, of which none names a job.
LEMMA InvInit == Init => Inv
<1> SUFFICES ASSUME Init PROVE Inv
  OBVIOUS
<1>1. memory = {} /\ \A s \in saved : \E p \in Payloads : s = OldIdentify(p)
  BY DEF Init
<1>2. \A s \in saved :
        /\ s.type = "identify"
        /\ s = [type |-> s.type, bytes |-> s.bytes]
        /\ \E fields \in FieldsOf(s.type) : Sound(s.type, fields, s.bytes)
  BY <1>1, OldIsSound
<1>3. \A k \in Known : k.type = "identify"
  BY <1>1, <1>2 DEF Known
<1>4. Minted /\ OneNamePerJob
  BY <1>3 DEF Minted, OneNamePerJob, Jobs
<1> QED
  BY <1>1, <1>2, <1>4 DEF Inv

\* One more payload in use names no job, a known one, or one newly minted.
LEMMA OneMore ==
  ASSUME Inv, NEW k, Known' \subseteq Known \cup {k}, minted \subseteq minted',
         k.type \in Jobs =>
           \/ k \in Known
           \/ /\ <<k.type, Id(k.type, k.bytes)>> \notin minted
              /\ <<k.type, Id(k.type, k.bytes)>> \in minted'
  PROVE  Minted' /\ OneNamePerJob'
<1>1. CASE k \in Known \/ k.type \notin Jobs
  <2>1. \A a \in Known' : a.type \in Jobs => a \in Known
    BY <1>1
  <2>2. Minted'
    BY <2>1 DEF Inv, Minted
  <2>3. OneNamePerJob'
    BY <2>1 DEF Inv, OneNamePerJob, Jobs
  <2> QED
    BY <2>2, <2>3
<1>2. CASE /\ <<k.type, Id(k.type, k.bytes)>> \notin minted
           /\ <<k.type, Id(k.type, k.bytes)>> \in minted'
  <2>1. Minted'
    BY <1>2 DEF Inv, Minted
  <2>2. \A a \in Known : a.type \in Jobs /\ a.type = k.type =>
          Id(a.type, a.bytes) # Id(k.type, k.bytes)
    BY <1>2 DEF Inv, Minted
  <2>3. OneNamePerJob'
    BY <2>2 DEF Inv, OneNamePerJob, Jobs
  <2> QED
    BY <2>1, <2>3
<1> QED
  BY <1>1, <1>2

\* A sound object that is taken up.
LEMMA HoldKeeps ==
  ASSUME Inv, NEW o, Hold(o), Sound(o.type, o.fields, o.bytes),
         minted \subseteq minted', saved' = saved,
         o.type \in Jobs =>
           \/ [type |-> o.type, bytes |-> o.bytes] \in Known
           \/ /\ <<o.type, Id(o.type, o.bytes)>> \notin minted
              /\ <<o.type, Id(o.type, o.bytes)>> \in minted'
  PROVE  Inv'
<1> DEFINE k == [type |-> o.type, bytes |-> o.bytes]
<1>1. memory' = memory \cup {o}
  BY DEF Hold
<1>2. Known' \subseteq Known \cup {k}
  BY <1>1 DEF Known
<1>3. k.type = o.type /\ k.bytes = o.bytes
  OBVIOUS
<1> HIDE DEF k
<1>4. Minted' /\ OneNamePerJob'
  <2>1. k.type \in Jobs =>
          \/ k \in Known
          \/ /\ <<k.type, Id(k.type, k.bytes)>> \notin minted
             /\ <<k.type, Id(k.type, k.bytes)>> \in minted'
    BY <1>3 DEF k
  <2> QED
    BY <1>2, <2>1, OneMore
<1> QED
  BY <1>1, <1>4 DEF Inv

\* Every step keeps the invariant.
LEMMA InvNext == Inv /\ [Next]_vars => Inv'
<1> SUFFICES ASSUME Inv, [Next]_vars PROVE Inv'
  OBVIOUS
<1>1. ASSUME NEW type \in Types, NEW fields \in FieldsOf(type), Construct(type, fields)
      PROVE  Inv'
  <2> DEFINE o == Object(type, fields)
  <2>1. /\ Hold(o) /\ saved' = saved /\ minted \subseteq minted'
        /\ type \in EventTypes => /\ <<type, Id(type, fields)>> \notin minted
                                  /\ <<type, Id(type, fields)>> \in minted'
    BY <1>1 DEF Construct
  <2>2. o.type = type /\ Sound(o.type, o.fields, o.bytes)
    BY <1>1, ObjectSound DEF Construct
  <2>3. type \in Jobs => o.bytes = fields
    BY DEF Jobs, Object, WithDefaults, RequestBytes
  <2>4. type \in Jobs => type \in EventTypes
    BY DEF Jobs, EventTypes
  <2> HIDE DEF o
  <2>5. o.type \in Jobs => /\ <<o.type, Id(o.type, o.bytes)>> \notin minted
                           /\ <<o.type, Id(o.type, o.bytes)>> \in minted'
    BY <2>1, <2>2, <2>3, <2>4
  <2> QED
    BY <2>1, <2>2, <2>5, HoldKeeps
<1>2. ASSUME NEW s \in saved, Restore(s) PROVE Inv'
  <2> DEFINE o == Object(s.type, s.bytes)
  <2>1. /\ s = [type |-> s.type, bytes |-> s.bytes]
        /\ \E fields \in FieldsOf(s.type) : Sound(s.type, fields, s.bytes)
    BY DEF Inv
  <2>2. /\ Accepted(s.type, s.bytes) /\ Hold(o) /\ UNCHANGED << minted, saved >>
    BY <1>2 DEF Restore
  <2>3. o.type = s.type /\ o.bytes = s.bytes
    BY <2>1, RestoredSound DEF Object
  <2>4. Sound(o.type, o.fields, o.bytes)
    BY <2>1, <2>2, ObjectSound DEF Sound
  <2> HIDE DEF o
  <2>5. [type |-> o.type, bytes |-> o.bytes] \in Known
    BY <2>1, <2>3 DEF Known
  <2> QED
    BY <2>2, <2>4, <2>5, HoldKeeps
<1>3. ASSUME NEW p \in memory, NEW update \in Updates(p.type), Copy(p, update) PROVE Inv'
  <2> DEFINE o == ModelCopy(p, update)
  <2>1. Sound(p.type, p.fields, p.bytes)
    BY DEF Inv
  <2>2. /\ update # NoUpdate => Updatable(p.type)
        /\ Accepted(p.type, Updated(p.bytes, update))
        /\ Hold(o) /\ UNCHANGED << minted, saved >>
    BY <1>3 DEF Copy
  <2>3. o.type = p.type /\ Sound(o.type, o.fields, o.bytes)
    BY <2>1, <2>2, ObjectSound DEF ModelCopy, Sound
  <2>4. p.type \in Jobs => o.bytes = p.bytes
    <3> SUFFICES ASSUME p.type \in Jobs PROVE o.bytes = p.bytes
      OBVIOUS
    <3>1. update = NoUpdate
      BY <2>2 DEF Jobs, Updatable
    <3>2. Updated(p.bytes, update) = p.bytes
      BY <2>1, <3>1, CopyOfBytes
    <3> QED
      BY <2>1, <3>2, RestoredSound DEF ModelCopy
  <2> HIDE DEF o
  <2>5. o.type \in Jobs => [type |-> o.type, bytes |-> o.bytes] \in Known
    BY <2>3, <2>4 DEF Known
  <2> QED
    BY <2>2, <2>3, <2>5, HoldKeeps
<1>4. ASSUME NEW o \in memory, Save(o) PROVE Inv'
  <2> DEFINE s == [type |-> o.type, bytes |-> o.bytes]
  <2>1. saved' = saved \cup {s} /\ UNCHANGED << minted, memory >>
    BY <1>4 DEF Save
  <2>2. Known' = Known
    BY <2>1 DEF Known
  <2>3. /\ s = [type |-> s.type, bytes |-> s.bytes]
        /\ \E fields \in FieldsOf(s.type) : Sound(s.type, fields, s.bytes)
    <3>1. Sound(o.type, o.fields, o.bytes) /\ o.fields \in FieldsOf(o.type)
      BY DEF Inv, Sound
    <3> QED
      BY <3>1
  <2> HIDE DEF s
  <2>4. Minted' /\ OneNamePerJob'
    BY <2>1, <2>2 DEF Inv, Minted, OneNamePerJob
  <2> QED
    BY <2>1, <2>3, <2>4 DEF Inv
<1>5. ASSUME \/ \E s \in saved : Delete(s)
             \/ Restart
             \/ UNCHANGED vars
      PROVE  Inv'
  <2>1. memory' \subseteq memory /\ saved' \subseteq saved /\ minted' = minted
    BY <1>5 DEF Delete, Restart, vars
  <2>2. Known' \subseteq Known
    BY <2>1 DEF Known
  <2>3. Minted' /\ OneNamePerJob'
    BY <2>1, <2>2 DEF Inv, Minted, OneNamePerJob
  <2> QED
    BY <2>1, <2>3 DEF Inv
<1> QED
  BY <1>1, <1>2, <1>3, <1>4, <1>5 DEF Next, Types

\* The invariant holds throughout.
LEMMA AlwaysInv == Spec => []Inv
BY InvInit, InvNext, PTL DEF Spec

-----------------------------------------------------------------------------
(***************************************************************************)
(* Decoding the bytes of an object gives its fields back, and the facts    *)
(* they state are coherent: after any copies, updates and restores.        *)
(***************************************************************************)
THEOREM FieldsAreBytes == Spec => []BytesMatchFields
<1>1. Inv => BytesMatchFields
  BY RoundTrip DEF Inv, Sound, BytesMatchFields
<1> QED
  BY <1>1, AlwaysInv, PTL

(***************************************************************************)
(* Whatever is in storage is restored to exactly the bytes it was saved as.*)
(***************************************************************************)
THEOREM RestoresExactly == Spec => []RestoreIsExact
<1>1. Inv => RestoreIsExact
  BY RestoredSound DEF Inv, RestoreIsExact
<1> QED
  BY <1>1, AlwaysInv, PTL

(***************************************************************************)
(* One UUID names one privacy operation or erasure job, for ever.          *)
(***************************************************************************)
THEOREM OneNameForEver == Spec => []OneNamePerJob
BY AlwaysInv, PTL DEF Inv
=============================================================================
