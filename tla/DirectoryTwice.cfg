SPECIFICATION Spec
CONSTANTS
    p1 = p1
    p2 = p2
    c1 = c1
    c2 = c2
    m1 = m1
    m2 = m2
    id1 = id1
    id2 = id2
    NoServerID = NoServerID
    Process = {p1, p2}
    ChannelID = {c1}
    Hidden = {}
    Message = {m1, m2}
    ServerID = {id1, id2}
    MaxFiles = 2
    MaxAcked = 2
    Faults = {}
INVARIANT
    OffsetsIncrease
