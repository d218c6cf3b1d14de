SPECIFICATION FairSpec
CONSTANTS
    Shells = {s1, s2, by_hand}
    Standing = {by_hand}
    LastPort = 2
    Others = {1}
    Differs = {s2}
    MayDie = {s2}
    MayHang = {s1}
    s1 = s1
    s2 = s2
    by_hand = by_hand
INVARIANT Agreed
PROPERTIES SweepsOnlyUnreached LaunchEnds
CHECK_DEADLOCK FALSE
