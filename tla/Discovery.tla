------------------------------ MODULE Discovery -----------------------------
(***************************************************************************)
(* The two discovery responses, the app manifest (manifest.py) and the     *)
(* runtime catalog (runtime_catalog.py): the validators that decide which  *)
(* of them a host ever sees.  Fields without a relation to another field   *)
(* are taken to be within their own bounds.                                *)
(***************************************************************************)
EXTENDS ResponseData, Naturals, Sequences

CONSTANTS
  Digests,          \* SHA-256 digests of catalogs
  Items,            \* runtime availabilities a service may list
  Postures,         \* posture lists: per field a sequence of values
  CompanionLimit    \* the 64 of both responses

ASSUME DiscoveryAssumption == CompanionLimit \in Nat

-----------------------------------------------------------------------------
(***************************************************************************)
(* The endpoints of platform v2 (EXPECTED_PATHS), and the paths the client *)
(* signs its requests for.                                                 *)
(***************************************************************************)
ClientPaths ==
  [ comment |-> "/v1/comment",
    identify |-> "/v1/identity/identify",
    connected_apps_status |-> "/v1/identity/connected-apps/status",
    erase_for_app |-> "/v1/identity/erase-for-app",
    memory_exclude |-> "/v1/memory/exclude",
    forget |-> "/v1/memory/forget",
    delete_chat_history |-> "/v1/memory/delete-chat-history",
    observation_delete |-> "/v1/memory/observations/delete",
    share_memory_set |-> "/v1/user-settings/share-memory-across-apps/set",
    perception_consent |-> "/v1/companion/perception/consent",
    link_status |-> "/v1/identity/link-status",
    runtime_catalog |-> "/v1/runtime-catalog" ]

ExpectedPaths ==
  [ comment |-> "/v1/comment",
    chat |-> "/v1/companion/chat",
    chat_stream |-> "/v1/companion/chat/stream",
    history |-> "/v1/companion/chat/history",
    unread |-> "/v1/companion/chat/unread",
    mood |-> "/v1/companion/chat/mood",
    impulse |-> "/v1/companion/chat/impulse",
    perceive |-> "/v1/companion/perceive",
    perception_consent |-> "/v1/companion/perception/consent",
    memory_facts |-> "/v1/memory/facts",
    memory_exclude |-> "/v1/memory/exclude",
    forget |-> "/v1/memory/forget",
    delete_chat_history |-> "/v1/memory/delete-chat-history",
    observation_delete |-> "/v1/memory/observations/delete",
    share_memory_set |-> "/v1/user-settings/share-memory-across-apps/set",
    identify |-> "/v1/identity/identify",
    link_status |-> "/v1/identity/link-status",
    connected_apps_status |-> "/v1/identity/connected-apps/status",
    erase_for_app |-> "/v1/identity/erase-for-app",
    letters |-> "/v1/companion/letters",
    letters_ack |-> "/v1/companion/letters/ack",
    companion_picker |-> "/v1/companions/picker",
    runtime_catalog |-> "/v1/runtime-catalog" ]

Distinct(s) == \A i, j \in DOMAIN s : i # j => s[i] # s[j]
Column(s, field) == [i \in DOMAIN s |-> s[i][field]]

\* Seeded fault: a service may move its endpoints.
AnyPaths(endpoints) == DOMAIN endpoints = DOMAIN ExpectedPaths
PathsMatchPlatformV2(endpoints) ==
  /\ DOMAIN endpoints = DOMAIN ExpectedPaths
  /\ \A field \in DOMAIN ExpectedPaths : endpoints[field] = ExpectedPaths[field]

AppManifestResponse(m) ==
  /\ \A list \in DOMAIN m.posture : Distinct(m.posture[list])
  /\ Len(m.companions) <= CompanionLimit
  /\ Distinct(Column(m.companions, "id"))
  /\ PathsMatchPlatformV2(m.endpoints)
  /\ m.platform_major = 2

-----------------------------------------------------------------------------
(***************************************************************************)
(* The runtime catalog.  A pointer's url is the address of some digest.    *)
(***************************************************************************)
Address(sha256) == << "https://companion-frames.getpacked.ai/runtime/v1/catalogs/", sha256 >>

UrlIsExactContentAddress(pointer) == pointer.url = Address(pointer.sha256)

AvailabilityAndIdentityAreExact(item) ==
  /\ IF item.availability = "available"
     THEN item.pointer # None /\ item.unavailable_reason = None
     ELSE item.pointer = None /\ item.unavailable_reason # None
  /\ item.character_id = "byte" <=> item.species_id = "puppy"

\* Seeded fault: only the characters are compared.
CharactersOnly(companions) ==
  /\ Len(companions) <= CompanionLimit
  /\ Distinct(Column(companions, "character_id"))
RosterIdentitiesAreUnique(companions) ==
  /\ Len(companions) <= CompanionLimit
  /\ Distinct(Column(companions, "character_id"))
  /\ Distinct(Column(companions, "species_id"))

RuntimeCatalogDiscoveryResponse(d) ==
  /\ d.quarantined_asset_prefixes = << "byte" >>
  /\ \A i \in DOMAIN d.companions :
       /\ AvailabilityAndIdentityAreExact(d.companions[i])
       /\ d.companions[i].pointer # None =>
            UrlIsExactContentAddress(d.companions[i].pointer)
  /\ RosterIdentitiesAreUnique(d.companions)

-----------------------------------------------------------------------------
UpTo(S, n) == UNION { [1..k -> S] : k \in 0..n }

\* A service may serve platform v2, move an endpoint, or swap two.
Endpoints ==
  {ExpectedPaths}
    \cup { [ExpectedPaths EXCEPT ![field] = "/v2/moved"] : field \in DOMAIN ExpectedPaths }
    \cup { [ExpectedPaths EXCEPT ![f] = ExpectedPaths[g], ![g] = ExpectedPaths[f]] :
             f, g \in DOMAIN ExpectedPaths }

Manifests ==
  [ posture : Postures,
    companions : UpTo([id : {"byte", "chip"}], CompanionLimit + 1),
    endpoints : Endpoints, platform_major : {1, 2, 20} ]

Catalogs ==
  [ quarantined_asset_prefixes : UpTo({"byte"}, 2),
    companions : UpTo(Items, CompanionLimit + 1) ]
=============================================================================
