\* Two misbehaving clients, one per group (one slot per group): can the two
\* dispatch threads modify the shared static blocklist at the same time?
CONSTANTS
    c1 = c1  c2 = c2  c3 = c3  s1 = s1  s2 = s2
    Clients <- MCTwoClients
    Uid <- MCTwoUid
    Sessions = {s1}
    BadClients = {c1, c2}
    Tags = {"hint"}
    MaxChannels = 1
    QueueSize = 1
    MaxGroupId = 1
    MaxSends = 1
    Empty = Empty
    NoChannel = NoChannel
    NoGroup = NoGroup
    NoUid = NoUid
SPECIFICATION Spec
INVARIANT BlocklistWritesExclusive
