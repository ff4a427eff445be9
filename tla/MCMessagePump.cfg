SPECIFICATION FairSpec
CONSTANTS
  NumClients = 2
  Quota <- OneAndTwo
  Window = 1
  Leavers = {2}
  Slow = {1}
  Instant <- IMFromTwo
INVARIANTS
  NoLostWakeup
  PerSenderOrder
  OneConversation
  WrittenOnce
PROPERTIES
  SentIsHandled
  LeaverIsReaped
  ImplementsMailbox
CHECK_DEADLOCK FALSE
