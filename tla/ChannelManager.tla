--------------------------- MODULE ChannelManager ---------------------------
(***************************************************************************)
(* The ADPF fast-message-queue transport of the power HAL:                 *)
(*   - ChannelManager (mChannelMap, mChannelGroups, one manager mutex)     *)
(*     places a (tgid,uid) client in the first ChannelGroup with a free    *)
(*     slot and destroys a group when its last channel is closed;          *)
(*   - ChannelGroup owns kMaxChannels SessionChannel slots, one event-flag *)
(*     word and one dispatch thread (runChannelGroup);                     *)
(*   - clients write ChannelMessages into their channel's queue and set    *)
(*     their write bit in the group's event flag.                          *)
(* A client is one (tgid,uid) key; Uid maps it to its uid, the key of the  *)
(* process-wide blocklist.                                                 *)
(***************************************************************************)
EXTENDS Naturals, Sequences, FiniteSets

CONSTANTS
    Clients,      \* (tgid,uid) identities asking for a channel
    Uid,          \* Uid[c]: the uid of client c
    BadClients,   \* clients that may corrupt their queue so read() fails
    Sessions,     \* session ids carried by messages
    Tags,         \* message kinds: "hint", "targetDuration", "workDuration", "mode"
    MaxChannels,  \* kMaxChannels: slots per group (16 in the code)
    QueueSize,    \* kFMQQueueSize: capacity of a channel queue (32 in the code)
    MaxGroupId,   \* bound on group ids handed out (ids grow while a group lives)
    MaxSends,     \* bound on messages a client writes in one behaviour
    Empty,        \* an empty slot of mChannels
    NoChannel,    \* no entry in mChannelMap
    NoGroup,      \* the manager mutex is not held across a join
    NoUid         \* no blocklist insertion in progress

ASSUME /\ BadClients \subseteq Clients
       /\ DOMAIN Uid = Clients
       /\ MaxChannels \in Nat \ {0} /\ QueueSize \in Nat \ {0}
       /\ MaxGroupId \in Nat /\ MaxSends \in Nat

Slots == 0 .. MaxChannels - 1
GroupIds == 0 .. MaxGroupId
Uids == {Uid[c] : c \in Clients}
Message == [tag : Tags, sid : Sessions]

VARIABLES
    chanMap,      \* ChannelManager::mChannelMap: client -> <<groupId, offset>>
    groups,       \* keys of ChannelManager::mChannelGroups
    slots,        \* ChannelGroup::mChannels: group -> slot -> client
    live,         \* ChannelGroup::mLiveChannels
    destructing,  \* ChannelGroup::mDestructing
    flagWord,     \* write bits set in the group's EventFlag word
    thread,       \* program counter of the group's dispatch thread
    pending,      \* runChannelGroup's local flagState
    blocklist,    \* the static blocklist of runChannelGroup (one per process)
    inserting,    \* group -> uid whose blocklist insertion is in progress
    queue,        \* client -> messages in its SessionChannel queue
    sent,         \* client -> messages written so far (bounded by MaxSends)
    consumed,     \* client -> messages read out of its queue by a dispatch thread
    delivered,    \* client -> messages handed to a session, in call order
    joining       \* group whose thread the manager is joining (mutex held)

vars == <<chanMap, groups, slots, live, destructing, flagWord, thread, pending,
          blocklist, inserting, queue, sent, consumed, delivered, joining>>

-----------------------------------------------------------------------------
(* Helpers.                                                                *)

MinOf(S) == CHOOSE x \in S : \A y \in S : x <= y
MaxOf(S) == CHOOSE x \in S : \A y \in S : x >= y

\* The group mutex is held by the dispatch thread while it scans channels.
GroupLockFree(g) == thread[g] \notin {"scan", "insert"}

\* The manager mutex is free unless a closeChannel is joining a thread.
ManagerFree == joining = NoGroup

\* The index after the run of workDuration messages for session sid that
\* starts at i (the inner for loop of the workDuration case).
RECURSIVE RunEnd(_, _, _)
RunEnd(msgs, i, sid) ==
    IF i <= Len(msgs) /\ msgs[i].tag = "workDuration" /\ msgs[i].sid = sid
    THEN RunEnd(msgs, i + 1, sid)
    ELSE i

\* The session calls made for messages[i..] by the message loop of
\* runChannelGroup: a run of workDuration messages of one session becomes
\* one reportActualWorkDuration call carrying the whole run; every other
\* tag is one call. After the run the inner loop has left messageIndex on
\* the first message past it, and the outer loop's ++messageIndex follows.
RECURSIVE DispatchFrom(_, _)
DispatchFrom(msgs, i) ==
    IF i > Len(msgs) THEN <<>>
    ELSE IF msgs[i].tag = "workDuration"
         THEN LET j == RunEnd(msgs, i, msgs[i].sid)
              IN SubSeq(msgs, i, j - 1) \o DispatchFrom(msgs, j + 1)
         ELSE <<msgs[i]>> \o DispatchFrom(msgs, i + 1)

Dispatch(msgs) == DispatchFrom(msgs, 1)

-----------------------------------------------------------------------------
Init ==
    /\ chanMap = [c \in Clients |-> NoChannel]
    /\ groups = {}
    /\ slots = [g \in GroupIds |-> [s \in Slots |-> Empty]]
    /\ live = [g \in GroupIds |-> 0]
    /\ destructing = [g \in GroupIds |-> FALSE]
    /\ flagWord = [g \in GroupIds |-> {}]
    /\ thread = [g \in GroupIds |-> "none"]
    /\ pending = [g \in GroupIds |-> {}]
    /\ blocklist = {}
    /\ inserting = [g \in GroupIds |-> NoUid]
    /\ queue = [c \in Clients |-> <<>>]
    /\ sent = [c \in Clients |-> 0]
    /\ consumed = [c \in Clients |-> <<>>]
    /\ delivered = [c \in Clients |-> <<>>]
    /\ joining = NoGroup

-----------------------------------------------------------------------------
(* ChannelManager::getChannelConfig for a client without a channel:        *)
(* getOrCreateChannel scans mChannelGroups in id order for a group with    *)
(* fewer than kMaxChannels live channels, else emplaces a group with id 0  *)
(* (no group) or the largest id + 1, whose constructor starts the dispatch *)
(* thread; then ChannelGroup::createChannel takes the group mutex and      *)
(* fills the first empty slot with a fresh SessionChannel. For a client    *)
(* that already has one, getChannel returns it and nothing changes.        *)
\* Groups getOrCreateChannel may place a new channel in.
OpenGroups == {g \in groups : live[g] < MaxChannels}

\* The first open group in id order, else the id of a new group.
PlacementGroup ==
    IF OpenGroups # {} THEN MinOf(OpenGroups)
    ELSE IF groups = {} THEN 0 ELSE MaxOf(groups) + 1

\* createChannel: the lowest empty slot of group g.
FirstEmptySlot(g) == MinOf({x \in Slots : slots[g][x] = Empty})

GetChannelConfig(c) ==
    LET g == PlacementGroup
        isNew == OpenGroups = {}
        s == FirstEmptySlot(g)
    IN /\ ManagerFree
       /\ chanMap[c] = NoChannel
       /\ g \in GroupIds
       /\ \/ isNew
          \/ GroupLockFree(g)
       /\ groups' = groups \cup {g}
       /\ thread' = IF isNew THEN [thread EXCEPT ![g] = "head"] ELSE thread
       /\ destructing' = IF isNew THEN [destructing EXCEPT ![g] = FALSE] ELSE destructing
       /\ flagWord' = IF isNew THEN [flagWord EXCEPT ![g] = {}] ELSE flagWord
       /\ pending' = IF isNew THEN [pending EXCEPT ![g] = {}] ELSE pending
       /\ slots' = [slots EXCEPT ![g][s] = c]
       /\ live' = [live EXCEPT ![g] = @ + 1]
       /\ chanMap' = [chanMap EXCEPT ![c] = <<g, s>>]
       /\ queue' = [queue EXCEPT ![c] = <<>>]
       /\ UNCHANGED <<blocklist, inserting, sent, consumed, delivered, joining>>

\* A removeChannel that forgets to decrement mLiveChannels.
CloseChannelKeepCount(c) ==
    /\ ManagerFree
    /\ chanMap[c] # NoChannel
    /\ LET g == chanMap[c][1]
           s == chanMap[c][2]
       IN /\ g \in groups
          /\ GroupLockFree(g)
          /\ slots[g][s] # Empty
          /\ slots' = [slots EXCEPT ![g][s] = Empty]
          /\ queue' = [queue EXCEPT ![c] = <<>>]
          /\ chanMap' = [chanMap EXCEPT ![c] = NoChannel]
    /\ UNCHANGED <<groups, live, thread, pending, blocklist, inserting, sent,
                   consumed, delivered, destructing, flagWord, joining>>

\* A destructor that sets mDestructing but does not wake the flag word.
CloseChannelNoWake(c) ==
    /\ ManagerFree
    /\ chanMap[c] # NoChannel
    /\ LET g == chanMap[c][1]
           s == chanMap[c][2]
       IN /\ g \in groups
          /\ GroupLockFree(g)
          /\ slots[g][s] # Empty
          /\ slots' = [slots EXCEPT ![g][s] = Empty]
          /\ live' = [live EXCEPT ![g] = @ - 1]
          /\ queue' = [queue EXCEPT ![c] = <<>>]
          /\ IF live[g] - 1 = 0
             THEN /\ destructing' = [destructing EXCEPT ![g] = TRUE]
                  /\ joining' = g
                  /\ UNCHANGED <<chanMap, flagWord>>
             ELSE /\ chanMap' = [chanMap EXCEPT ![c] = NoChannel]
                  /\ UNCHANGED <<destructing, flagWord, joining>>
    /\ UNCHANGED <<groups, thread, pending, blocklist, inserting, sent,
                   consumed, delivered>>

(* ChannelManager::closeChannel: ChannelGroup::removeChannel under the     *)
(* group mutex empties the slot (destroying the channel and its queue) and *)
(* decrements mLiveChannels. If that was the last channel the group is     *)
(* erased: ~ChannelGroup sets mDestructing, wakes every bit of the flag    *)
(* word and joins the thread, still holding the manager mutex; the map     *)
(* entry is erased after that (JoinGroup).                                 *)
CloseChannel(c) ==
    /\ ManagerFree
    /\ chanMap[c] # NoChannel
    /\ LET g == chanMap[c][1]
           s == chanMap[c][2]
       IN /\ g \in groups
          /\ GroupLockFree(g)
          /\ slots[g][s] # Empty
          /\ slots' = [slots EXCEPT ![g][s] = Empty]
          /\ live' = [live EXCEPT ![g] = @ - 1]
          /\ queue' = [queue EXCEPT ![c] = <<>>]
          /\ IF live[g] - 1 = 0
             THEN /\ destructing' = [destructing EXCEPT ![g] = TRUE]
                  /\ flagWord' = [flagWord EXCEPT ![g] = Slots]
                  /\ joining' = g
                  /\ UNCHANGED chanMap
             ELSE /\ chanMap' = [chanMap EXCEPT ![c] = NoChannel]
                  /\ UNCHANGED <<destructing, flagWord, joining>>
    /\ UNCHANGED <<groups, thread, pending, blocklist, inserting, sent,
                   consumed, delivered>>

(* mGroupThread.join() returns once runChannelGroup has returned; the      *)
(* group leaves mChannelGroups and closeChannel erases the map entry.      *)
JoinGroup ==
    /\ joining # NoGroup
    /\ thread[joining] = "exited"
    /\ groups' = groups \ {joining}
    /\ thread' = [thread EXCEPT ![joining] = "none"]
    /\ chanMap' = [x \in Clients |->
                     IF chanMap[x] # NoChannel /\ chanMap[x][1] = joining
                     THEN NoChannel ELSE chanMap[x]]
    /\ joining' = NoGroup
    /\ UNCHANGED <<slots, live, destructing, flagWord, pending, blocklist,
                   inserting, queue, sent, consumed, delivered>>

\* A writer that sets its read bit (getReadBitmask) instead of its write bit.
ClientWriteReadBit(c, m) ==
    /\ chanMap[c] # NoChannel
    /\ LET g == chanMap[c][1]
           s == chanMap[c][2]
       IN /\ slots[g][s] = c
          /\ Len(queue[c]) < QueueSize
          /\ sent[c] < MaxSends
          /\ queue' = [queue EXCEPT ![c] = Append(@, m)]
          /\ sent' = [sent EXCEPT ![c] = @ + 1]
          /\ flagWord' = [flagWord EXCEPT ![g] = @ \cup {s + 16}]
    /\ UNCHANGED <<chanMap, groups, slots, live, destructing, thread, pending,
                   blocklist, inserting, consumed, delivered, joining>>

(* A client's writeBlocking: the message is appended to its queue and its  *)
(* write bit (1 << offset) is set in the group's event flag. A full queue  *)
(* blocks the writer until the dispatch thread has read it.                *)
ClientWrite(c, m) ==
    /\ chanMap[c] # NoChannel
    /\ LET g == chanMap[c][1]
           s == chanMap[c][2]
       IN /\ slots[g][s] = c
          /\ Len(queue[c]) < QueueSize
          /\ sent[c] < MaxSends
          /\ queue' = [queue EXCEPT ![c] = Append(@, m)]
          /\ sent' = [sent EXCEPT ![c] = @ + 1]
          /\ flagWord' = [flagWord EXCEPT ![g] = @ \cup {s}]
    /\ UNCHANGED <<chanMap, groups, slots, live, destructing, thread, pending,
                   blocklist, inserting, consumed, delivered, joining>>

-----------------------------------------------------------------------------
(* ChannelGroup::runChannelGroup, one dispatch thread per group.           *)

\* while (!mDestructing): the loop condition.
LoopHead(g) ==
    /\ thread[g] = "head"
    /\ thread' = [thread EXCEPT ![g] = IF destructing[g] THEN "exited" ELSE "wait"]
    /\ UNCHANGED <<chanMap, groups, slots, live, destructing, flagWord, pending,
                   blocklist, inserting, queue, sent, consumed, delivered, joining>>

\* A wait whose caller keeps only the lowest returned bit of flagState.
WaitLowestBitOnly(g) ==
    /\ thread[g] = "wait"
    /\ flagWord[g] # {}
    /\ pending' = [pending EXCEPT ![g] = {MinOf(flagWord[g])}]
    /\ flagWord' = [flagWord EXCEPT ![g] = {}]
    /\ thread' = [thread EXCEPT ![g] = IF destructing[g] THEN "exited" ELSE "lock"]
    /\ UNCHANGED <<chanMap, groups, slots, live, destructing, blocklist,
                   inserting, queue, sent, consumed, delivered, joining>>

\* flag->wait(kWriteBits, &flagState): blocks until a write bit is set and
\* clears the bits it returns; then "if (mDestructing) return;".
Wait(g) ==
    /\ thread[g] = "wait"
    /\ flagWord[g] # {}
    /\ pending' = [pending EXCEPT ![g] = flagWord[g]]
    /\ flagWord' = [flagWord EXCEPT ![g] = {}]
    /\ thread' = [thread EXCEPT ![g] = IF destructing[g] THEN "exited" ELSE "lock"]
    /\ UNCHANGED <<chanMap, groups, slots, live, destructing, blocklist,
                   inserting, queue, sent, consumed, delivered, joining>>

\* std::scoped_lock lock(mGroupMutex) before the scan.
Lock(g) ==
    /\ thread[g] = "lock"
    /\ thread' = [thread EXCEPT ![g] = "scan"]
    /\ UNCHANGED <<chanMap, groups, slots, live, destructing, flagWord, pending,
                   blocklist, inserting, queue, sent, consumed, delivered, joining>>

(* One iteration of the scan: take the lowest pending bit; skip an empty   *)
(* slot, a blocklisted uid or an empty queue; a failing read() starts the  *)
(* blocklist insertion; otherwise the whole queue is read, the read bit is *)
(* woken and the messages are dispatched to their sessions.                *)
ScanChannel(g) ==
    /\ thread[g] = "scan"
    /\ pending[g] # {}
    /\ ~destructing[g]
    /\ LET n == MinOf(pending[g])
           c == slots[g][n]
       IN /\ pending' = [pending EXCEPT ![g] = @ \ {n}]
          /\ IF c = Empty \/ Uid[c] \in blocklist \/ queue[c] = <<>>
             THEN UNCHANGED <<thread, inserting, queue, consumed, delivered>>
             ELSE \/ /\ c \in BadClients
                     /\ thread' = [thread EXCEPT ![g] = "insert"]
                     /\ inserting' = [inserting EXCEPT ![g] = Uid[c]]
                     /\ UNCHANGED <<queue, consumed, delivered>>
                  \/ /\ queue' = [queue EXCEPT ![c] = <<>>]
                     /\ consumed' = [consumed EXCEPT ![c] = @ \o queue[c]]
                     /\ delivered' = [delivered EXCEPT ![c] = @ \o Dispatch(queue[c])]
                     /\ UNCHANGED <<thread, inserting>>
    /\ UNCHANGED <<chanMap, groups, slots, live, destructing, flagWord,
                   blocklist, sent, joining>>

\* blocklist.insert(channel->getUid()) completes.
EndInsert(g) ==
    /\ thread[g] = "insert"
    /\ blocklist' = blocklist \cup {inserting[g]}
    /\ inserting' = [inserting EXCEPT ![g] = NoUid]
    /\ thread' = [thread EXCEPT ![g] = "scan"]
    /\ UNCHANGED <<chanMap, groups, slots, live, destructing, flagWord, pending,
                   queue, sent, consumed, delivered, joining>>

\* The scan loop ends (no pending bit, or mDestructing) and the mutex is released.
ScanEnd(g) ==
    /\ thread[g] = "scan"
    /\ pending[g] = {} \/ destructing[g]
    /\ thread' = [thread EXCEPT ![g] = "head"]
    /\ UNCHANGED <<chanMap, groups, slots, live, destructing, flagWord, pending,
                   blocklist, inserting, queue, sent, consumed, delivered, joining>>

DispatchStep(g) ==
    LoopHead(g) \/ Wait(g) \/ Lock(g) \/ ScanChannel(g) \/ EndInsert(g) \/ ScanEnd(g)

Next ==
    \/ \E c \in Clients : GetChannelConfig(c) \/ CloseChannel(c)
    \/ \E c \in Clients, m \in Message : ClientWrite(c, m)
    \/ JoinGroup
    \/ \E g \in GroupIds : DispatchStep(g)

(* Each dispatch thread is a dedicated OS thread, and the manager thread   *)
(* blocked in join() resumes once the thread has returned: both are weakly *)
(* fair. Clients and binder callers of the manager may stop at any time.   *)
Fairness ==
    /\ WF_vars(JoinGroup)
    /\ \A g \in GroupIds : WF_vars(DispatchStep(g))

Spec == Init /\ [][Next]_vars /\ Fairness

-----------------------------------------------------------------------------
TypeOK ==
    /\ chanMap \in [Clients -> (GroupIds \X Slots) \cup {NoChannel}]
    /\ groups \subseteq GroupIds
    /\ slots \in [GroupIds -> [Slots -> Clients \cup {Empty}]]
    /\ live \in [GroupIds -> 0 .. MaxChannels]
    /\ destructing \in [GroupIds -> BOOLEAN]
    /\ flagWord \in [GroupIds -> SUBSET Slots]
    /\ thread \in [GroupIds -> {"none", "head", "wait", "lock", "scan", "insert", "exited"}]
    /\ pending \in [GroupIds -> SUBSET Slots]
    /\ blocklist \subseteq Uids
    /\ inserting \in [GroupIds -> Uids \cup {NoUid}]
    /\ queue \in [Clients -> Seq(Message)]
    /\ sent \in [Clients -> 0 .. MaxSends]
    /\ joining \in GroupIds \cup {NoGroup}

(* The directory mChannelMap and the groups' slot arrays describe the same *)
(* channels: a client's entry names a live group and a slot holding that  *)
(* client, every occupied slot is named by its client's entry, each        *)
(* group's mLiveChannels is its number of occupied slots, and no group     *)
(* outlives its last channel except while the manager joins its thread.   *)
(* Together they keep createChannel's LOG_ALWAYS_FATAL unreachable and     *)
(* the placement scan of getOrCreateChannel honest.                        *)
ChannelDirectoryConsistent ==
    /\ \A c \in Clients : chanMap[c] # NoChannel /\ joining = NoGroup =>
          /\ chanMap[c][1] \in groups
          /\ slots[chanMap[c][1]][chanMap[c][2]] = c
    /\ \A g \in groups, s \in Slots : slots[g][s] # Empty =>
          chanMap[slots[g][s]] = <<g, s>>
    /\ \A g \in groups :
          /\ live[g] = Cardinality({s \in Slots : slots[g][s] # Empty})
          /\ g # joining => live[g] > 0

(* A message written by a client is eventually read out of its queue by   *)
(* the group's dispatch thread, unless the channel is closed first or the *)
(* client's uid is blocklisted: the write bit survives until the thread's *)
(* wait returns it, and the thread reads the whole queue for every bit.   *)
MessagesEventuallyRead ==
    \A c \in Clients :
        queue[c] # <<>> ~> (queue[c] = <<>> \/ Uid[c] \in blocklist)

(* closeChannel joins the group's thread while holding the manager mutex, *)
(* so every manager call waits until runChannelGroup returns. While a join *)
(* is in progress the group is destructing and its thread is never parked *)
(* in flag->wait() with no bit to return: ~ChannelGroup's wake of every   *)
(* bit, made before the join, lets the wait return and see mDestructing.  *)
JoinCanReturn ==
    joining # NoGroup =>
        /\ destructing[joining]
        /\ thread[joining] = "wait" => flagWord[joining] # {}

(* Every message read out of a queue reaches its session, in order: the   *)
(* dispatch loop's calls carry exactly the messages it read.               *)
DeliveredAsRead ==
    \A c \in Clients : delivered[c] = consumed[c]

(* The process-wide blocklist (a static std::set) is never modified by two *)
(* dispatch threads at once: each thread holds only its own group mutex.   *)
BlocklistWritesExclusive ==
    Cardinality({g \in GroupIds : inserting[g] # NoUid}) <= 1
=============================================================================
