--------------------------- MODULE ParsedResponse ---------------------------
(***************************************************************************)
(* The last step of the client's calls that return a model: the decoded    *)
(* body of a 2xx response is validated and, for a comment, completed       *)
(* (CommentDecision, Discovery); the host gets a model or a                *)
(* CompanionsProtocolError.                                                *)
(***************************************************************************)
EXTENDS CommentDecision, Discovery

CONSTANT
  Methods    \* the methods called, of those in Parsed

ASSUME MethodsAssumption == Methods \subseteq {"typed", "legacy", "manifest", "catalog"}

VARIABLES
  method,   \* "typed" is get_comment_event, "legacy" get_legacy_comment,
            \* "manifest" get_app_manifest, "catalog" get_runtime_catalog
  data,     \* the decoded response
  result    \* None, Invalid, or the model returned

vars == << method, data, result >>

ASSUME ResultAssumption == {None, Invalid} \cap Responses = {}

-----------------------------------------------------------------------------
\* _parse_model: the response itself, if its schema's validators accept it.
ParseModel(d, valid) == IF valid THEN d ELSE Invalid

Parsed(m, d) ==
  CASE m = "typed" -> IF RequireV1Decision(d) THEN ParseCommentResult(d) ELSE Invalid
    [] m = "legacy" -> ParseCommentResult(d)
    [] m = "manifest" -> ParseModel(d, AppManifestResponse(d))
    [] m = "catalog" -> ParseModel(d, RuntimeCatalogDiscoveryResponse(d))

Init ==
  /\ method \in Methods
  /\ \/ method = "typed" /\ data \in Responses
     \/ method = "legacy" /\ data \in Responses
     \/ method = "manifest" /\ data \in Manifests
     \/ method = "catalog" /\ data \in Catalogs
  /\ result = None

Parse ==
  /\ result = None
  /\ result' = Parsed(method, data)
  /\ UNCHANGED << method, data >>

Next == Parse
Spec == Init /\ [][Next]_vars

Returned == result \notin {None, Invalid}
IsComment == method \in {"typed", "legacy"}

-----------------------------------------------------------------------------
(***************************************************************************)
(* The derivation and the order of the checks accept exactly the responses *)
(* the table has an outcome for, and give the host that outcome.           *)
(***************************************************************************)
AcceptsTheTable ==
  IsComment /\ result # None =>
    \A o \in Outcomes :
      (Returned /\ result.outcome = o) <=>
        /\ method = "typed" => /\ data.complete
                               /\ data.decision_id # None /\ data.outcome # None
        /\ Contract(data)
        /\ Says(data, o)
        /\ Carries(data, o)

(***************************************************************************)
(* A host never has to choose: a result either speaks or is deliberately   *)
(* silent; what it says is the one screened text wherever it says it; and  *)
(* a silent one carries no words at all.                                   *)
(***************************************************************************)
OneReading ==
  IsComment /\ Returned =>
    /\ Speaks(result) # DeliberatelySilent(result)
    /\ Speaks(result) => /\ result.text = result.comment.text
                         /\ Speech(result) \in {None, result.text}
    /\ DeliberatelySilent(result) =>
         result.text = None /\ result.comment = None /\ Speech(result) = None

(***************************************************************************)
(* On the typed path nothing durable is invented: the outcome and the      *)
(* decision_id a host keys its presentation by are the service's own.      *)
(***************************************************************************)
TypedInventsNothing ==
  method = "typed" /\ Returned =>
    result.outcome = data.outcome /\ result.decision_id = data.decision_id

(***************************************************************************)
(* A catalog a host sees pairs characters and species one to one, Byte     *)
(* with the puppy and only with it; each companion has either one address  *)
(* or one reason, and equal addresses are equal catalogs.                  *)
(***************************************************************************)
CatalogIsARoster ==
  method = "catalog" /\ Returned =>
    LET roster == result.companions IN
    \A i, j \in DOMAIN roster :
      /\ i = j <=> roster[i].character_id = roster[j].character_id
      /\ i = j <=> roster[i].species_id = roster[j].species_id
      /\ roster[i].character_id = "byte" /\ roster[j].species_id = "puppy" => i = j
      /\ (roster[i].pointer = None) # (roster[i].unavailable_reason = None)
      /\ roster[i].pointer # None /\ roster[j].pointer # None =>
           (roster[i].pointer.url = roster[j].pointer.url
              <=> roster[i].pointer.sha256 = roster[j].pointer.sha256)

(***************************************************************************)
(* The client signs its requests for fixed paths and the host is given the *)
(* manifest's: a manifest it sees names, for every endpoint the client     *)
(* calls, the very path the client calls.                                  *)
(***************************************************************************)
ManifestNamesTheCalls ==
  method = "manifest" /\ Returned =>
    \A field \in DOMAIN ClientPaths :
      /\ field \in DOMAIN result.endpoints
      /\ result.endpoints[field] = ClientPaths[field]
=============================================================================
