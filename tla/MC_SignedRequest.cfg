SPECIFICATION Spec
CONSTANTS
  None = None
  CommentMaxAttempts = 2
  PrivacyMaxAttempts = 3
  MaxRetryAfter <- MCMaxRetryAfter
  Replies <- MCReplies
INVARIANTS
  TypeOK
  BoundedTransmissions
  RetryOnlyAmbiguous
  ErrorFromOneAnswer
  DropOnlyIfRefused
  KeptIfAsked
  ResultOnlyIfAccepted
  AcceptedIsNotRefused
  LinkRequiredExact
PROPERTIES
  ImplementsContract
CHECK_DEADLOCK FALSE
