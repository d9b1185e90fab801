SPECIFICATION FairSpec
CONSTANTS
  Hosts = 4
  MaxHosts = 3
  Skip = {2}
  Retries = 2
  HasTimeout = TRUE
  Replies <- MCReplies
  NoReply = NoReply
  NoResult = NoResult
INVARIANTS
  ProbesExplained
  RetriesExhausted
  VerdictHasEvidence
  SafeMeansProbed
  OneHostSpeaks
  OwnSession
PROPERTY
  Terminates
CHECK_DEADLOCK FALSE
