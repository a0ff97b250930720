---------------------------- MODULE MC_Discovery ----------------------------
(***************************************************************************)
(* Small responses: two digests, two companions at most, and companions of *)
(* every shape, Byte and the puppy among them.                             *)
(***************************************************************************)
EXTENDS ParsedResponse

CONSTANTS s1, s2

MCPointers ==
  { [sha256 |-> s, url |-> Address(s)] : s \in Digests }
    \cup { [sha256 |-> s1, url |-> Address(s2)] }

MCItems ==
  [ character_id : {"byte", "chip", "nova"}, species_id : {"puppy", "cat"},
    availability : {"available", "unavailable"}, pointer : MCPointers \cup {None},
    unavailable_reason : {"runtime_pack_not_published", None} ]

MCPostures ==
  [ capabilities : UpTo({"perception", "web_lookup"}, 2),
    allowed_context : UpTo({"page_path", "problem"}, 2) ]
=============================================================================
