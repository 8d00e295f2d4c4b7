CONSTANTS
    Thread = {1, 2, 3, 4}
SPECIFICATION FairSpec
INVARIANT TypeOK
INVARIANT OneRuns
INVARIANT EventSeen
PROPERTY EventuallySeen
CHECK_DEADLOCK FALSE
