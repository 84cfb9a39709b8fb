SPECIFICATION FairSpec
CONSTANTS
  Submitters = {s1, s2}
  Workers = {w1, w2}
  kMailboxCapacity = 2
  kPriorityMailboxCapacity = 1
  kMaxCommandsPerDrain = 1
  kHeadPublicationRetries = 1
  MaxSubmits = 2
  None = None
INVARIANTS
  SingleConsumer
  HandledInOrder
  IdleExact
PROPERTIES
  SchedulerLive
