SPECIFICATION MCSpec
CONSTANTS
  Requests = 2
  Slots = 1
  Queue = 2
  Processes = {p1, p2}
  Domains <- MCDomains
  Cycle = 2
  SubmitWorkers = 1
  RejectLimit = 1
  MaxUnread = 1
  CreateTries = 2
  MintTries = 2
  SolveTries = 2
INVARIANTS ServiceSafe SsoOutlivesFailure
CHECK_DEADLOCK FALSE
PROPERTIES MailboxesShared EverythingEnds
