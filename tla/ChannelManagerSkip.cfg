\* A single client sends a run of workDuration messages followed by another
\* message: is every message it wrote handed to its session?
CONSTANTS
    c1 = c1  c2 = c2  c3 = c3  s1 = s1  s2 = s2
    Clients <- MCOneClient
    Uid <- MCOneUid
    Sessions = {s1}
    BadClients = {}
    Tags = {"hint", "workDuration"}
    MaxChannels = 1
    QueueSize = 2
    MaxGroupId = 0
    MaxSends = 2
    Empty = Empty
    NoChannel = NoChannel
    NoGroup = NoGroup
    NoUid = NoUid
SPECIFICATION Spec
INVARIANT DeliveredAsRead
