\* The same streams, without any fault.
CONSTANTS
    s1 = s1
    s2 = s2
    s3 = s3
    mine = mine
    other = other
    broadcast = broadcast
    Streams = {s1, s2, s3}
    Channels = {mine, other, broadcast}
    ChannelsOf <- MCChannelsOf
    MaxFaults = 0
    NoSet = NoSet
SPECIFICATION Spec
CHECK_DEADLOCK FALSE
INVARIANT OpenStreamIsRouted
