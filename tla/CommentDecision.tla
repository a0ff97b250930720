--------------------------- MODULE CommentDecision --------------------------
(***************************************************************************)
(* How a comment response becomes a CommentResult (comment.py), or a       *)
(* CompanionsProtocolError, on the typed and on the legacy path of the     *)
(* client: fields an old service left out are derived one after another,   *)
(* and the whole is then validated.  A table says, without any order, what *)
(* each outcome may carry.                                                 *)
(***************************************************************************)
EXTENDS ResponseData

CONSTANTS
  Texts,    \* screened comment texts
  Types     \* opportunity types

Outcomes == {"delivered", "action_only", "throttled", "declined", "no_opportunity"}
SilentOutcomes == {"throttled", "declined", "no_opportunity"}
Modes == {"speak", "silent", "act_only", "speak_and_act"}
NoSpeechModes == {"silent", "act_only"}

-----------------------------------------------------------------------------
(***************************************************************************)
(* Responses: every field within its own bounds; complete says whether all *)
(* the fields of the v1 contract are there, if only as null.               *)
(***************************************************************************)
Comments == [id : {"comment_id"}, text : Texts, opportunity_type : Types]
Expressions == [response_mode : Modes, speech_text : Texts \cup {"blank", None}]

ASSUME CommentAssumption ==
  /\ None \notin Outcomes \cup Modes \cup Texts \cup Types
  /\ None \notin {"blank", "decision_id", "comment_id"} \cup Comments \cup Expressions
  /\ "blank" \notin Texts

Responses ==
  [ complete : BOOLEAN, schema_version : {"v1", "v2"},
    decision_id : {"decision_id", "comment_id", None}, outcome : Outcomes \cup {None},
    text : Texts \cup {None}, opportunity_type : Types \cup {None},
    expression : Expressions \cup {None},
    response_locale : {"en", "es"}, speech_locale : {"en-US", "es-MX"},
    comment : Comments \cup {None}, throttled : BOOLEAN, declined : BOOLEAN ]

-----------------------------------------------------------------------------
(***************************************************************************)
(* SemanticExpressionEnvelope: blank speech is no speech, and a mode       *)
(* without speech cannot carry any.                                        *)
(***************************************************************************)
Envelope(x) ==
  IF x # None /\ x.speech_text = "blank" THEN [x EXCEPT !.speech_text = None] ELSE x

ValidEnvelope(x) ==
  x # None /\ x.response_mode \in NoSpeechModes => x.speech_text = None

(***************************************************************************)
(* CommentResult: what the comment says fills what the top level leaves    *)
(* out; then a missing outcome is derived; then its flags are.             *)
(***************************************************************************)
First(value, default) == IF value = None THEN default ELSE value

FillFromComment(d) ==
  IF d.comment = None THEN d
  ELSE [d EXCEPT !.text = First(d.text, d.comment.text),
                 !.opportunity_type = First(d.opportunity_type, d.comment.opportunity_type),
                 !.decision_id = First(d.decision_id, d.comment.id)]

\* Seeded fault: a refusal to speak is not told from a lack of opportunity.
ForgetsDeclined(d) ==
  [d EXCEPT !.outcome =
     First(d.outcome, IF d.comment # None THEN "delivered"
                      ELSE IF d.throttled THEN "throttled"
                      ELSE "no_opportunity")]
DeriveOutcome(d) ==
  [d EXCEPT !.outcome =
     First(d.outcome, IF d.comment # None THEN "delivered"
                      ELSE IF d.throttled THEN "throttled"
                      ELSE IF d.declined THEN "declined"
                      ELSE "no_opportunity")]

DeriveFlags(d) ==
  [d EXCEPT !.throttled = d.throttled \/ d.outcome = "throttled",
            !.declined = d.declined \/ d.outcome = "declined"]

Derived(d) ==
  DeriveFlags(DeriveOutcome(FillFromComment([d EXCEPT !.expression = Envelope(d.expression)])))

\* Seeded fault: the expression's speech is not compared with the text.
ModeOnly(d) ==
  LET mode == d.expression.response_mode IN
  /\ d.outcome = "delivered" => mode \in {"speak", "speak_and_act"}
  /\ d.outcome \in SilentOutcomes => mode = "silent"
  /\ mode = "act_only" => d.outcome = "action_only"
\* The expression against the outcome and the text.
FitsExpression(d) ==
  LET mode == d.expression.response_mode IN
  /\ d.outcome = "delivered" => mode \in {"speak", "speak_and_act"}
  /\ d.outcome \in SilentOutcomes => mode = "silent"
  /\ mode = "act_only" => d.outcome = "action_only"
  /\ d.expression.speech_text \in {None, d.text}

\* The checks of _derive_and_validate_decision, on the derived fields.
Validated(d) ==
  /\ d.comment # None =>
       d.text = d.comment.text /\ d.opportunity_type = d.comment.opportunity_type
  /\ d.outcome = "delivered" <=> d.comment # None
  /\ d.outcome = "action_only" =>
       d.expression # None /\ d.expression.response_mode = "act_only"
  /\ d.throttled => d.outcome = "throttled"
  /\ d.declined => d.outcome = "declined"
  /\ d.text # None => d.comment # None
  /\ d.expression # None => FitsExpression(d)
  /\ d.response_locale = "es" => d.speech_locale = "es-MX"
  /\ d.response_locale = "en" => d.speech_locale = "en-US"

ParseCommentResult(d) ==
  LET r == Derived(d) IN
  IF /\ d.schema_version = "v1"
     /\ ValidEnvelope(r.expression)
     /\ Validated(r)
  THEN r ELSE Invalid

\* Seeded fault: a typed response need only have the fields.
FieldsOnly(d) == d.complete /\ d.schema_version = "v1"
RequireV1Decision(d) ==
  /\ d.complete
  /\ d.schema_version = "v1"
  /\ d.decision_id # None
  /\ d.outcome # None

-----------------------------------------------------------------------------
\* CommentResult.speaks and CommentResult.deliberately_silent
Speaks(r) == r.outcome = "delivered" /\ r.text # None
DeliberatelySilent(r) ==
  r.outcome \in {"action_only", "declined", "no_opportunity", "throttled"}

-----------------------------------------------------------------------------
(***************************************************************************)
(* The table: what a response may carry for the host to read outcome o in  *)
(* it.  A service may leave its outcome, its flags and the copies of a     *)
(* comment's fields out; it may not contradict itself.                     *)
(***************************************************************************)
Says(d, o) ==
  d.outcome = o \/
    /\ d.outcome = None
    /\ \/ o = "delivered" /\ d.comment # None
       \/ o = "throttled" /\ d.comment = None /\ d.throttled
       \/ o = "declined" /\ d.comment = None /\ ~d.throttled /\ d.declined
       \/ o = "no_opportunity" /\ d.comment = None /\ ~d.throttled /\ ~d.declined

Speech(d) ==
  IF d.expression = None \/ d.expression.speech_text = "blank" THEN None
  ELSE d.expression.speech_text

Mode(d) == IF d.expression = None THEN None ELSE d.expression.response_mode

Carries(d, o) ==
  \/ /\ o = "delivered"
     /\ d.comment # None
     /\ d.text \in {None, d.comment.text}
     /\ d.opportunity_type \in {None, d.comment.opportunity_type}
     /\ ~d.throttled /\ ~d.declined
     /\ Mode(d) \in {None, "speak", "speak_and_act"}
     /\ Speech(d) \in {None, d.comment.text}
  \/ /\ o # "delivered"
     /\ d.comment = None /\ d.text = None /\ Speech(d) = None
     /\ d.throttled => o = "throttled"
     /\ d.declined => o = "declined"
     /\ IF o = "action_only" THEN Mode(d) = "act_only" ELSE Mode(d) \in {None, "silent"}

Contract(d) ==
  /\ d.schema_version = "v1"
  /\ <<d.response_locale, d.speech_locale>> \in {<<"en", "en-US">>, <<"es", "es-MX">>}
=============================================================================
