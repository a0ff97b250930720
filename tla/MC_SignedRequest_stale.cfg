SPECIFICATION Spec
CONSTANTS
  None = None
  CommentMaxAttempts = 2
  PrivacyMaxAttempts = 2
  MaxRetryAfter <- MCMaxRetryAfter
  Replies <- MCReplies
INVARIANTS
  DropMeansRefused
CHECK_DEADLOCK FALSE
