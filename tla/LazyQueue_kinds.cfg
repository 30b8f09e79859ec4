SPECIFICATION FairSpec
CONSTANTS
    Kinds = {"cards", "resize", "search"}
    MaxPush = 4
CHECK_DEADLOCK FALSE
INVARIANT TypeOK
INVARIANT NeverStranded
INVARIANT NothingLost
INVARIANT ServedInOrder
INVARIANT EndMeansQuiet
PROPERTY EventuallyServed
