CONSTANTS
  service = service
  manual = manual
  Pollers <- MCPollers
  Service = service
  N = 5
  Kind <- MCKind
  Limit = 2
  Attempts = 3
  ManualOffsets <- Back
SPECIFICATION FairSpec
INVARIANTS OffsetIsSafe PollInv
PROPERTIES ImplementsInbox TextsAreTaken
