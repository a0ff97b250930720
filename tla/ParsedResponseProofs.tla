------------------------ MODULE ParsedResponseProofs ------------------------
(***************************************************************************)
(* What the client's validation of responses promises for any texts, types,*)
(* rosters and bounds.                                                     *)
(***************************************************************************)
EXTENDS ParsedResponse, TLAPS

-----------------------------------------------------------------------------
(***************************************************************************)
(* CommentResult, field by field.                                          *)
(***************************************************************************)
\* An expression, its blank speech taken out.
LEMMA EnvelopeFields ==
  ASSUME NEW x \in Expressions \cup {None}
  PROVE  /\ Envelope(x) \in Expressions \cup {None}
         /\ Envelope(x) = None <=> x = None
         /\ x # None =>
              /\ Envelope(x).response_mode = x.response_mode
              /\ Envelope(x).speech_text
                   = IF x.speech_text = "blank" THEN None ELSE x.speech_text
<1>1. CASE x = None
  BY <1>1 DEF Envelope
<1>2. CASE x \in Expressions /\ x # None
  <2>1. CASE x.speech_text = "blank"
    <3>1. Envelope(x) = [x EXCEPT !.speech_text = None]
      BY <1>2, <2>1 DEF Envelope
    <3>2. Envelope(x) \in Expressions
      BY <1>2, <3>1 DEF Expressions
    <3> QED
      BY <1>2, <2>1, <3>1, <3>2, CommentAssumption DEF Expressions
  <2>2. CASE x.speech_text # "blank"
    BY <1>2, <2>2 DEF Envelope
  <2> QED
    BY <2>1, <2>2
<1> QED
  BY <1>1, <1>2

\* What a comment says, where the top level says nothing.
Filled(value, comment, own) == IF comment = None THEN value ELSE First(value, own)

DerivedOutcome(d) ==
  First(d.outcome, IF d.comment # None THEN "delivered"
                   ELSE IF d.throttled THEN "throttled"
                   ELSE IF d.declined THEN "declined"
                   ELSE "no_opportunity")

\* The derivation, its three stages taken together.
LEMMA DerivedFields ==
  ASSUME NEW d \in Responses
  PROVE  /\ Derived(d).schema_version = d.schema_version
         /\ Derived(d).complete = d.complete
         /\ Derived(d).comment = d.comment
         /\ Derived(d).response_locale = d.response_locale
         /\ Derived(d).speech_locale = d.speech_locale
         /\ Derived(d).expression = Envelope(d.expression)
         /\ Derived(d).text = Filled(d.text, d.comment, d.comment.text)
         /\ Derived(d).opportunity_type
              = Filled(d.opportunity_type, d.comment, d.comment.opportunity_type)
         /\ Derived(d).decision_id = Filled(d.decision_id, d.comment, d.comment.id)
         /\ Derived(d).outcome = DerivedOutcome(d)
         /\ Derived(d).throttled = (d.throttled \/ DerivedOutcome(d) = "throttled")
         /\ Derived(d).declined = (d.declined \/ DerivedOutcome(d) = "declined")
         /\ Derived(d) \in Responses
<1> DEFINE e == [d EXCEPT !.expression = Envelope(d.expression)]
           f == FillFromComment(e)
           g == DeriveOutcome(f)
<1>1. e = [ complete |-> d.complete, schema_version |-> d.schema_version,
            decision_id |-> d.decision_id, outcome |-> d.outcome, text |-> d.text,
            opportunity_type |-> d.opportunity_type,
            expression |-> Envelope(d.expression),
            response_locale |-> d.response_locale, speech_locale |-> d.speech_locale,
            comment |-> d.comment, throttled |-> d.throttled, declined |-> d.declined ]
  BY DEF Responses
<1>2. f = [ complete |-> d.complete, schema_version |-> d.schema_version,
            decision_id |-> Filled(d.decision_id, d.comment, d.comment.id),
            outcome |-> d.outcome,
            text |-> Filled(d.text, d.comment, d.comment.text),
            opportunity_type |->
              Filled(d.opportunity_type, d.comment, d.comment.opportunity_type),
            expression |-> Envelope(d.expression),
            response_locale |-> d.response_locale, speech_locale |-> d.speech_locale,
            comment |-> d.comment, throttled |-> d.throttled, declined |-> d.declined ]
  <2> HIDE DEF e
  <2>1. CASE d.comment = None
    BY <1>1, <2>1 DEF FillFromComment, Filled
  <2>2. CASE d.comment # None
    BY <1>1, <2>2 DEF FillFromComment, Filled
  <2> QED
    BY <2>1, <2>2
<1> HIDE DEF f
<1>3. g = [f EXCEPT !.outcome = DerivedOutcome(d)]
  BY <1>2 DEF DeriveOutcome, DerivedOutcome
<1> HIDE DEF g
<1>4. Derived(d) = [g EXCEPT !.throttled = g.throttled \/ g.outcome = "throttled",
                             !.declined = g.declined \/ g.outcome = "declined"]
  BY DEF Derived, DeriveFlags, g, f, e
<1>5. Derived(d) =
        [ complete |-> d.complete, schema_version |-> d.schema_version,
          decision_id |-> Filled(d.decision_id, d.comment, d.comment.id),
          outcome |-> DerivedOutcome(d),
          text |-> Filled(d.text, d.comment, d.comment.text),
          opportunity_type |->
            Filled(d.opportunity_type, d.comment, d.comment.opportunity_type),
          expression |-> Envelope(d.expression),
          response_locale |-> d.response_locale, speech_locale |-> d.speech_locale,
          comment |-> d.comment,
          throttled |-> d.throttled \/ DerivedOutcome(d) = "throttled",
          declined |-> d.declined \/ DerivedOutcome(d) = "declined" ]
  BY <1>2, <1>3, <1>4
<1>6. /\ Envelope(d.expression) \in Expressions \cup {None}
      /\ DerivedOutcome(d) \in Outcomes
      /\ Filled(d.text, d.comment, d.comment.text) \in Texts \cup {None}
      /\ Filled(d.opportunity_type, d.comment, d.comment.opportunity_type)
           \in Types \cup {None}
      /\ Filled(d.decision_id, d.comment, d.comment.id) \in {"decision_id", "comment_id", None}
  <2>1. d.expression \in Expressions \cup {None}
    BY DEF Responses
  <2>2. DerivedOutcome(d) \in Outcomes
    BY DEF Responses, DerivedOutcome, First, Outcomes
  <2>3. d.comment # None => d.comment \in Comments
    BY DEF Responses
  <2> QED
    BY <2>1, <2>2, <2>3, EnvelopeFields DEF Responses, Comments, Filled, First
<1> HIDE DEF g
<1> QED
  BY <1>5, <1>6 DEF Responses

\* Which outcome is derived.
LEMMA DerivedSays ==
  ASSUME NEW d \in Responses, NEW o \in Outcomes
  PROVE  DerivedOutcome(d) = o <=> Says(d, o)
<1>1. CASE d.outcome = None
  BY <1>1, CommentAssumption DEF DerivedOutcome, First, Says, Outcomes
<1>2. CASE d.outcome # None
  BY <1>2 DEF DerivedOutcome, First, Says
<1> QED
  BY <1>1, <1>2

\* The checks on the expression, on what the response itself says.
LEMMA ExpressionFits ==
  ASSUME NEW d \in Responses, NEW r \in Responses,
         r.expression = Envelope(d.expression)
  PROVE  ValidEnvelope(r.expression) /\ (r.expression # None => FitsExpression(r))
         <=> /\ Mode(d) \in NoSpeechModes => Speech(d) = None
             /\ r.outcome = "delivered" => Mode(d) \in {None, "speak", "speak_and_act"}
             /\ r.outcome \in SilentOutcomes => Mode(d) \in {None, "silent"}
             /\ Mode(d) = "act_only" => r.outcome = "action_only"
             /\ Speech(d) \in {None, r.text}
<1>1. d.expression \in Expressions \cup {None}
  BY DEF Responses
<1>2. CASE d.expression = None
  <2>1. r.expression = None /\ Mode(d) = None /\ Speech(d) = None
    BY <1>2, EnvelopeFields DEF Mode, Speech
  <2> QED
    BY <2>1, CommentAssumption DEF ValidEnvelope, NoSpeechModes, Modes
<1>3. CASE d.expression # None
  <2>1. /\ r.expression # None
        /\ r.expression.response_mode = Mode(d)
        /\ r.expression.speech_text = Speech(d)
        /\ Mode(d) \in Modes
    BY <1>1, <1>3, EnvelopeFields DEF Mode, Speech, Expressions
  <2>2. Mode(d) # None
    BY <2>1, CommentAssumption
  <2> QED
    BY <2>1, <2>2 DEF ValidEnvelope, FitsExpression
<1> QED
  BY <1>2, <1>3

\* The checks accept what the table allows the derived outcome to carry.
LEMMA CheckedIsTable ==
  ASSUME NEW d \in Responses
  PROVE  ValidEnvelope(Derived(d).expression) /\ Validated(Derived(d))
         <=> /\ Carries(d, DerivedOutcome(d))
             /\ d.response_locale = "es" => d.speech_locale = "es-MX"
             /\ d.response_locale = "en" => d.speech_locale = "en-US"
<1> DEFINE o == DerivedOutcome(d)
           r == Derived(d)
           spoken == /\ r.expression # None
                     /\ r.expression.response_mode = "act_only"
           said == /\ Mode(d) \in NoSpeechModes => Speech(d) = None
                   /\ o = "delivered" => Mode(d) \in {None, "speak", "speak_and_act"}
                   /\ o \in SilentOutcomes => Mode(d) \in {None, "silent"}
                   /\ Mode(d) = "act_only" => o = "action_only"
                   /\ Speech(d) \in {None, r.text}
<1>1. o \in Outcomes /\ r \in Responses
  BY DerivedFields DEF Responses, DerivedOutcome, First, Outcomes
<1>2. /\ r.comment = d.comment /\ r.outcome = o
      /\ r.throttled = (d.throttled \/ o = "throttled")
      /\ r.declined = (d.declined \/ o = "declined")
      /\ r.response_locale = d.response_locale /\ r.speech_locale = d.speech_locale
  BY DerivedFields
<1>3. /\ d.comment # None => /\ r.text = First(d.text, d.comment.text)
                             /\ r.opportunity_type
                                  = First(d.opportunity_type, d.comment.opportunity_type)
                             /\ d.comment.text # None
      /\ d.comment = None => r.text = d.text
  BY DerivedFields, CommentAssumption DEF Filled, Responses, Comments
<1>4. ValidEnvelope(r.expression) /\ (r.expression # None => FitsExpression(r)) <=> said
  BY <1>1, <1>2, DerivedFields, ExpressionFits
<1>5. spoken <=> Mode(d) = "act_only"
  BY DerivedFields, EnvelopeFields, CommentAssumption DEF Mode, Responses, Modes
<1>6. d.throttled \in BOOLEAN /\ d.declined \in BOOLEAN
  BY DEF Responses
<1> HIDE DEF o, r, spoken
<1>7. CASE d.comment # None /\ o = "delivered"
  <2>1. ValidEnvelope(r.expression) /\ Validated(r)
        <=> /\ said
            /\ r.text = d.comment.text /\ r.opportunity_type = d.comment.opportunity_type
            /\ ~d.throttled /\ ~d.declined
            /\ d.response_locale = "es" => d.speech_locale = "es-MX"
            /\ d.response_locale = "en" => d.speech_locale = "en-US"
    BY <1>2, <1>4, <1>6, <1>7 DEF Validated
  <2>2. /\ r.text = d.comment.text <=> d.text \in {None, d.comment.text}
        /\ r.opportunity_type = d.comment.opportunity_type
             <=> d.opportunity_type \in {None, d.comment.opportunity_type}
    BY <1>3, <1>7 DEF First
  <2>3. Carries(d, o)
        <=> /\ d.text \in {None, d.comment.text}
            /\ d.opportunity_type \in {None, d.comment.opportunity_type}
            /\ ~d.throttled /\ ~d.declined
            /\ Mode(d) \in {None, "speak", "speak_and_act"}
            /\ Speech(d) \in {None, d.comment.text}
    BY <1>7 DEF Carries
  <2>4. Mode(d) \in {None, "speak", "speak_and_act"}
          => Mode(d) \notin NoSpeechModes /\ Mode(d) # "act_only"
    BY CommentAssumption DEF NoSpeechModes, Modes
  <2> QED
    BY <1>7, <2>1, <2>2, <2>3, <2>4 DEF SilentOutcomes, o, r
<1>8. CASE ~(d.comment # None <=> o = "delivered")
  <2>1. ~Validated(r)
    BY <1>2, <1>8 DEF Validated
  <2>2. ~Carries(d, o)
    BY <1>8 DEF Carries
  <2> QED
    BY <2>1, <2>2 DEF o, r
<1>9. CASE d.comment = None /\ o # "delivered"
  <2>1. ValidEnvelope(r.expression) /\ Validated(r)
        <=> /\ said
            /\ o = "action_only" => Mode(d) = "act_only"
            /\ d.throttled => o = "throttled"
            /\ d.declined => o = "declined"
            /\ d.text = None
            /\ d.response_locale = "es" => d.speech_locale = "es-MX"
            /\ d.response_locale = "en" => d.speech_locale = "en-US"
    <3>1. Validated(r)
          <=> /\ o = "action_only" => spoken
              /\ d.throttled => o = "throttled"
              /\ d.declined => o = "declined"
              /\ d.text = None
              /\ r.expression # None => FitsExpression(r)
              /\ d.response_locale = "es" => d.speech_locale = "es-MX"
              /\ d.response_locale = "en" => d.speech_locale = "en-US"
      BY <1>2, <1>3, <1>6, <1>9 DEF Validated, spoken
    <3> QED
      BY <3>1, <1>4, <1>5
  <2>2. Carries(d, o)
        <=> /\ d.text = None /\ Speech(d) = None
            /\ d.throttled => o = "throttled"
            /\ d.declined => o = "declined"
            /\ IF o = "action_only" THEN Mode(d) = "act_only" ELSE Mode(d) \in {None, "silent"}
    BY <1>9 DEF Carries
  <2>3. d.text = None =>
          (said <=> /\ Speech(d) = None
                    /\ IF o = "action_only" THEN TRUE ELSE Mode(d) \in {None, "silent"})
    <3>1. "act_only" # None
      BY CommentAssumption DEF Modes
    <3> QED
      BY <1>1, <1>3, <1>9, <3>1 DEF Outcomes, SilentOutcomes
  <2> QED
    BY <2>1, <2>2, <2>3 DEF o, r
<1> QED
  BY <1>7, <1>8, <1>9

(***************************************************************************)
(* CommentResult, with its derivation and the order of its checks          *)
(* (comment.py 338-404), reads outcome o in exactly those responses that   *)
(* the table has under o, whatever the texts and types are.                *)
(***************************************************************************)
THEOREM DerivationIsTable ==
  ASSUME NEW d \in Responses, NEW o \in Outcomes
  PROVE  /\ ParseCommentResult(d) \in Responses \cup {Invalid}
         /\ ParseCommentResult(d) \in Responses /\ ParseCommentResult(d).outcome = o
            <=> Contract(d) /\ Says(d, o) /\ Carries(d, o)
<1> DEFINE r == Derived(d)
           accepted == /\ d.schema_version = "v1"
                       /\ ValidEnvelope(r.expression)
                       /\ Validated(r)
<1>1. ParseCommentResult(d) = IF accepted THEN r ELSE Invalid
  BY DEF ParseCommentResult
<1>2. r \in Responses /\ r.outcome = DerivedOutcome(d)
  BY DerivedFields
<1>3. accepted <=> Contract(d) /\ Carries(d, DerivedOutcome(d))
  <2>1. d.response_locale \in {"en", "es"} /\ d.speech_locale \in {"en-US", "es-MX"}
    BY DEF Responses
  <2>2. Contract(d) <=> /\ d.schema_version = "v1"
                        /\ d.response_locale = "es" => d.speech_locale = "es-MX"
                        /\ d.response_locale = "en" => d.speech_locale = "en-US"
    BY <2>1 DEF Contract
  <2> QED
    BY <2>2, CheckedIsTable
<1>4. DerivedOutcome(d) = o <=> Says(d, o)
  BY DerivedSays
<1>5. Invalid \notin Responses
  BY ResultAssumption
<1> HIDE DEF r, accepted
<1> QED
  BY <1>1, <1>2, <1>3, <1>4, <1>5

-----------------------------------------------------------------------------
(***************************************************************************)
(* The specification: a result is what the method's parser makes of the    *)
(* response it was called with.                                            *)
(***************************************************************************)
Inv ==
  /\ IsComment => data \in Responses
  /\ result = None \/ result = Parsed(method, data)

\* The invariant is established and kept.
LEMMA Invariant == Spec => []Inv
<1>1. Init => Inv
  BY DEF Init, Inv, IsComment
<1>2. Inv /\ [Next]_vars => Inv'
  <2> SUFFICES ASSUME Inv, [Next]_vars PROVE Inv'
    OBVIOUS
  <2>1. CASE Parse
    BY <2>1 DEF Parse, Inv, IsComment
  <2>2. CASE UNCHANGED vars
    BY <2>2 DEF vars, Inv, IsComment
  <2> QED
    BY <2>1, <2>2 DEF Next
<1> QED
  BY <1>1, <1>2, PTL DEF Spec

\* What is returned on the comment paths comes from CommentResult.
LEMMA ReturnedComment ==
  ASSUME Inv, IsComment, result # None
  PROVE  /\ data \in Responses
         /\ Returned <=> /\ ParseCommentResult(data) \in Responses
                         /\ method = "typed" => RequireV1Decision(data)
         /\ Returned => result = ParseCommentResult(data) /\ result = Derived(data)
<1>1. data \in Responses /\ result = Parsed(method, data)
  BY DEF Inv
<1>2. /\ method = "typed" => result = IF RequireV1Decision(data)
                                      THEN ParseCommentResult(data) ELSE Invalid
      /\ method = "legacy" => result = ParseCommentResult(data)
  BY <1>1 DEF Parsed
<1>3. /\ ParseCommentResult(data) \in Responses \cup {Invalid}
      /\ ParseCommentResult(data) \in {Derived(data), Invalid}
  BY <1>1, DerivationIsTable DEF ParseCommentResult, Outcomes
<1>4. None \notin Responses /\ Invalid \notin Responses
  BY ResultAssumption
<1> QED
  BY <1>1, <1>2, <1>3, <1>4 DEF Returned, IsComment

(***************************************************************************)
(* get_comment_event and get_legacy_comment accept exactly the responses   *)
(* the table has an outcome for, and give the host that outcome.           *)
(***************************************************************************)
THEOREM ParserIsTheTable == Spec => []AcceptsTheTable
<1>1. Inv => AcceptsTheTable
  <2> SUFFICES ASSUME Inv, IsComment, result # None, NEW o \in Outcomes
               PROVE  Returned /\ result.outcome = o
                      <=> /\ method = "typed" => /\ data.complete
                                                 /\ data.decision_id # None
                                                 /\ data.outcome # None
                          /\ Contract(data) /\ Says(data, o) /\ Carries(data, o)
    BY DEF AcceptsTheTable
  <2>1. /\ ParseCommentResult(data) \in Responses /\ ParseCommentResult(data).outcome = o
        <=> Contract(data) /\ Says(data, o) /\ Carries(data, o)
    BY ReturnedComment, DerivationIsTable
  <2>2. Contract(data) => data.schema_version = "v1"
    BY DEF Contract
  <2> QED
    BY <2>1, <2>2, ReturnedComment DEF RequireV1Decision
<1> QED
  BY <1>1, Invariant, PTL

(***************************************************************************)
(* A result speaks or is silent on purpose, never both, and says one text  *)
(* wherever it says it.                                                    *)
(***************************************************************************)
THEOREM ResultHasOneReading == Spec => []OneReading
<1>1. Inv => OneReading
  <2> SUFFICES ASSUME Inv, IsComment, Returned
               PROVE  /\ Speaks(result) # DeliberatelySilent(result)
                      /\ Speaks(result) => /\ result.text = result.comment.text
                                           /\ Speech(result) \in {None, result.text}
                      /\ DeliberatelySilent(result) =>
                           /\ result.text = None /\ result.comment = None
                           /\ Speech(result) = None
    BY DEF OneReading
  <2>1. /\ data \in Responses /\ result = Derived(data)
        /\ ParseCommentResult(data) \in Responses
    BY ReturnedComment DEF Returned
  <2>2. Validated(result)
    BY <2>1, ResultAssumption DEF ParseCommentResult
  <2>3. result \in Responses /\ result.outcome \in Outcomes
    BY <2>1, DerivedFields DEF DerivedOutcome, First, Responses, Outcomes
  <2>4. Speech(result) \in {None, result.text}
    BY <2>2 DEF Validated, FitsExpression, Speech
  <2>5. CASE result.outcome = "delivered"
    <3>1. result.comment # None /\ result.text = result.comment.text
      BY <2>2, <2>5 DEF Validated
    <3>2. result.text # None
      BY <2>3, <3>1, CommentAssumption DEF Responses, Comments
    <3> QED
      BY <2>4, <2>5, <3>1, <3>2 DEF Speaks, DeliberatelySilent
  <2>6. CASE result.outcome # "delivered"
    <3>1. result.comment = None /\ result.text = None
      BY <2>2, <2>6 DEF Validated
    <3> QED
      BY <2>3, <2>4, <2>6, <3>1 DEF Speaks, DeliberatelySilent, Outcomes
  <2> QED
    BY <2>5, <2>6
<1> QED
  BY <1>1, Invariant, PTL

(***************************************************************************)
(* What a typed comment is recorded under is what the service decided.     *)
(***************************************************************************)
THEOREM TypedDecisionIsTheServices == Spec => []TypedInventsNothing
<1>1. Inv => TypedInventsNothing
  <2> SUFFICES ASSUME Inv, method = "typed", Returned
               PROVE  /\ result.outcome = data.outcome
                      /\ result.decision_id = data.decision_id
    BY DEF TypedInventsNothing
  <2>1. /\ data \in Responses /\ result = Derived(data)
        /\ data.outcome # None /\ data.decision_id # None
    BY ReturnedComment DEF Returned, IsComment, RequireV1Decision
  <2> QED
    BY <2>1, DerivedFields DEF DerivedOutcome, Filled, First
<1> QED
  BY <1>1, Invariant, PTL

-----------------------------------------------------------------------------
\* A model whose only parser is _parse_model is the response it accepted.
LEMMA ReturnedModel ==
  ASSUME Inv, Returned
  PROVE  /\ method = "manifest" => result = data /\ AppManifestResponse(result)
         /\ method = "catalog" => result = data /\ RuntimeCatalogDiscoveryResponse(result)
BY DEF Inv, Returned, Parsed, ParseModel

(***************************************************************************)
(* A catalog a host sees is a one-to-one roster with exact addresses,      *)
(* whatever companions a service lists and however many.                   *)
(***************************************************************************)
THEOREM CatalogsAreRosters == Spec => []CatalogIsARoster
<1>1. Inv => CatalogIsARoster
  <2> SUFFICES ASSUME Inv, method = "catalog", Returned
               PROVE  CatalogIsARoster
    BY DEF CatalogIsARoster
  <2> DEFINE roster == result.companions
  <2>1. RuntimeCatalogDiscoveryResponse(result)
    BY ReturnedModel
  <2>2. \A i \in DOMAIN roster :
          /\ AvailabilityAndIdentityAreExact(roster[i])
          /\ roster[i].pointer # None => UrlIsExactContentAddress(roster[i].pointer)
    BY <2>1 DEF RuntimeCatalogDiscoveryResponse
  <2>3. \A i, j \in DOMAIN roster :
          i # j => /\ roster[i].character_id # roster[j].character_id
                   /\ roster[i].species_id # roster[j].species_id
    BY <2>1 DEF RuntimeCatalogDiscoveryResponse, RosterIdentitiesAreUnique, Distinct, Column
  <2> SUFFICES ASSUME NEW i \in DOMAIN roster, NEW j \in DOMAIN roster
               PROVE  /\ i = j <=> roster[i].character_id = roster[j].character_id
                      /\ i = j <=> roster[i].species_id = roster[j].species_id
                      /\ roster[i].character_id = "byte" /\ roster[j].species_id = "puppy"
                           => i = j
                      /\ (roster[i].pointer = None) # (roster[i].unavailable_reason = None)
                      /\ roster[i].pointer # None /\ roster[j].pointer # None =>
                           (roster[i].pointer.url = roster[j].pointer.url
                              <=> roster[i].pointer.sha256 = roster[j].pointer.sha256)
    BY DEF CatalogIsARoster
  <2>4. /\ i = j <=> roster[i].character_id = roster[j].character_id
        /\ i = j <=> roster[i].species_id = roster[j].species_id
    BY <2>3
  <2>5. roster[i].character_id = "byte" /\ roster[j].species_id = "puppy" => i = j
    BY <2>2, <2>4 DEF AvailabilityAndIdentityAreExact
  <2>6. (roster[i].pointer = None) # (roster[i].unavailable_reason = None)
    BY <2>2 DEF AvailabilityAndIdentityAreExact
  <2>7. roster[i].pointer # None /\ roster[j].pointer # None =>
          (roster[i].pointer.url = roster[j].pointer.url
             <=> roster[i].pointer.sha256 = roster[j].pointer.sha256)
    BY <2>2 DEF UrlIsExactContentAddress, Address
  <2> QED
    BY <2>4, <2>5, <2>6, <2>7
<1> QED
  BY <1>1, Invariant, PTL

(***************************************************************************)
(* A manifest a host sees names the paths the client calls.                *)
(***************************************************************************)
THEOREM ManifestsNameTheCalls == Spec => []ManifestNamesTheCalls
<1>1. Inv => ManifestNamesTheCalls
  <2> SUFFICES ASSUME Inv, method = "manifest", Returned, NEW field \in DOMAIN ClientPaths
               PROVE  /\ field \in DOMAIN result.endpoints
                      /\ result.endpoints[field] = ClientPaths[field]
    BY DEF ManifestNamesTheCalls
  <2>1. PathsMatchPlatformV2(result.endpoints)
    BY ReturnedModel DEF AppManifestResponse
  <2>2. field \in DOMAIN ExpectedPaths /\ ExpectedPaths[field] = ClientPaths[field]
    BY DEF ExpectedPaths, ClientPaths
  <2> QED
    BY <2>1, <2>2 DEF PathsMatchPlatformV2
<1> QED
  BY <1>1, Invariant, PTL
=============================================================================
