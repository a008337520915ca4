CONSTANTS
  NStreams = 3
  MaxStrings = 5
  BlockThreads = 2
  Entries = 3
SPECIFICATION FairSpec
CHECK_DEADLOCK FALSE
INVARIANTS TypeOK BatchFaithful OneTimePerBatch NoWriteAfterDrop NothingStaysPinned
PROPERTY Ends
