--------------------------- MODULE MC_QueuedCall ----------------------------
(***************************************************************************)
(* QueuedCall with the responses of MC_SignedRequest whose status and code *)
(* do not contradict each other.                                           *)
(***************************************************************************)
EXTENDS QueuedCall, MC_SignedRequest

QueuedReplies ==
  MCReplies \cup { Coded(429, "privacy_operation_limit_exceeded"), Plain(502) }

ASSUME \A r \in QueuedReplies : Consistent(r)
=============================================================================
