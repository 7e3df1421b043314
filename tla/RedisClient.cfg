SPECIFICATION FairSpec
CONSTANTS
    Commands <- MCFour
INVARIANTS
EachOwnReply
PROPERTIES
EveryCallSettles
CHECK_DEADLOCK FALSE
