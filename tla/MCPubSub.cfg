\* Two tabs of one account and a stream of another one, with two faults.
CONSTANTS
    s1 = s1
    s2 = s2
    s3 = s3
    mine = mine
    other = other
    broadcast = broadcast
    Streams = {s1, s2, s3}
    Channels = {mine, other, broadcast}
    ChannelsOf <- MCChannelsOf
    MaxFaults = 2
    NoSet = NoSet
SPECIFICATION FairSpec
CHECK_DEADLOCK FALSE
INVARIANTS NoGhostHandler RoutedIsSubscribed
PROPERTY GoneStreamCloses
