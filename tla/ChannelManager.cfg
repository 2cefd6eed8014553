\* Channel placement, group lifecycle and message reading, with one
\* misbehaving client whose uid is shared by a well-behaved one. The
\* properties do not look at message contents, so one message kind is enough.
CONSTANTS
    c1 = c1  c2 = c2  c3 = c3  s1 = s1  s2 = s2
    Clients <- MCClients
    Uid <- MCUid
    Sessions = {s1}
    BadClients = {c3}
    Tags = {"workDuration"}
    MaxChannels = 2
    QueueSize = 2
    MaxGroupId = 1
    MaxSends = 1
    Empty = Empty
    NoChannel = NoChannel
    NoGroup = NoGroup
    NoUid = NoUid
SPECIFICATION Spec
INVARIANT TypeOK
INVARIANT ChannelDirectoryConsistent
INVARIANT JoinCanReturn
PROPERTY MessagesEventuallyRead
