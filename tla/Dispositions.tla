---------------------------- MODULE Dispositions ----------------------------
(***************************************************************************)
(* What a durable worker may do with a queued event after Pack refused it: *)
(* the disposition of a machine code (privacy.py) and, when no allowlisted *)
(* code came with the refusal, of its HTTP status (client.py).             *)
(***************************************************************************)
EXTENDS Naturals

CONSTANT None   \* Python's None: no code, no status, no value

RetryCodes ==
  { "privacy_operation_in_progress", "privacy_operation_limit_exceeded",
    "privacy_generation_inconsistent", "privacy_receipt_key_unavailable",
    "privacy_receipt_key_unattested" }

NewReadCodes ==
  { "privacy_operation_superseded", "privacy_receipt_expired",
    "privacy_receipt_schema_unsupported", "stale_account_incarnation",
    "stale_privacy_generation" }

PrivacyOperationErrorCode ==
  RetryCodes \cup NewReadCodes \cup { "privacy_event_conflict" }

PrivacyErrorDisposition == { "retry_same_event", "discard_event", "start_new_read" }

ASSUME NoneIsNoValue ==
  None \notin PrivacyOperationErrorCode \cup PrivacyErrorDisposition \cup Nat

\* Seeded fault: a busy service's refusal is taken for a final one.
BusyIsFinal(code) ==
  IF code \in NewReadCodes THEN "start_new_read" ELSE "discard_event"
\* Seeded fault: a stale event is sent again.
StaleIsRetried(code) ==
  IF code = "privacy_event_conflict" THEN "discard_event" ELSE "retry_same_event"
CodeDisposition(code) ==
  IF code \in RetryCodes THEN "retry_same_event"
  ELSE IF code \in NewReadCodes THEN "start_new_read"
  ELSE "discard_event"

\* Seeded fault: an off-by-one at the boundary of the server errors.
StrictlyAbove500(status) == status \in {408, 425, 429} \/ status > 500
TransientStatus(status) == status \in {408, 425, 429} \/ status >= 500

DefaultDisposition(status) ==
  IF TransientStatus(status) THEN "retry_same_event" ELSE "discard_event"

Disposition(status, code) ==
  IF code # None THEN CodeDisposition(code) ELSE DefaultDisposition(status)
=============================================================================
