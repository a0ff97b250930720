SPECIFICATION QueuedSpec
CONSTANTS
  None = None
  CommentMaxAttempts = 2
  PrivacyMaxAttempts = 3
  MaxRetryAfter <- MCMaxRetryAfter
  Replies <- QueuedReplies
  QueuedMethod = "privacy"
PROPERTIES
  ImplementsQueuedCall
CHECK_DEADLOCK FALSE
