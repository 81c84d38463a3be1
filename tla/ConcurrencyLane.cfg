SPECIFICATION FairSpec
CONSTANTS
    Tasks = {d1, d2, d3}
    Limits = {0, 1, 2}
INVARIANT SlotAccounting
PROPERTIES AdmissionInOrder WaitersServed
