-------------------------- MODULE MC_SignedRequest --------------------------
(***************************************************************************)
(* SignedRequest with a small but discriminating set of responses.         *)
(***************************************************************************)
EXTENDS SignedRequest

MCMaxRetryAfter == 1   \* the code's bound is 3600: 1 keeps one delay below it

Plain(status) ==
  [ status |-> status, retry_after |-> None, form |-> "garbage", code |-> None,
    completed |-> None, valid |-> FALSE, is_new |-> FALSE ]
Coded(status, code) ==
  [Plain(status) EXCEPT !.form = "object", !.code = code]
Success(is_new) ==
  [Plain(200) EXCEPT !.form = "object", !.valid = TRUE, !.is_new = is_new]

MCReplies ==
  { Success(TRUE), Success(FALSE), [Success(FALSE) EXCEPT !.status = 202],
    [Success(FALSE) EXCEPT !.valid = FALSE], Plain(200),
    [Plain(200) EXCEPT !.form = "unreadable"],
    Plain(302), Plain(401), Plain(404), Plain(409),
    [Coded(409, "privacy_operation_in_progress") EXCEPT !.form = "unreadable"],
    Coded(404, LinkRequiredCode), Coded(410, "privacy_receipt_expired"),
    Coded(409, "privacy_event_conflict"), Coded(429, "privacy_operation_limit_exceeded"),
    Coded(409, "privacy_generation_inconsistent"),
    [Coded(409, "privacy_operation_in_progress") EXCEPT
       !.retry_after = 1, !.completed = TRUE],
    [Plain(429) EXCEPT !.retry_after = 1], [Plain(429) EXCEPT !.retry_after = 2],
    Plain(500), Plain(503), [Plain(503) EXCEPT !.retry_after = 0] }
=============================================================================
