\* Every world: patient and slow keyboards, typing early, both builds.
SPECIFICATION FairSpec
CONSTANTS
    MaxTyped = 2
    Patience = {TRUE, FALSE}
    Fingers = {TRUE, FALSE}
    Decrements = {"one", "two"}
CHECK_DEADLOCK FALSE
INVARIANTS NoByteReadTwice UsesSet2
PROPERTIES KeysAreRead
