-------------------------- MODULE NetworkDBTables ---------------------------
(***************************************************************************)
(* The table entries of one network of networkdb.  The entries of          *)
(* different networks only share the Lamport clock.                        *)
(*                                                                         *)
(* Attachments are abstracted to what the table code reads of them:        *)
(* epoch[y] counts the joins (odd) and leaves (even) of node y and stands  *)
(* for the time of its last network event, and att[x][y] is the newest of  *)
(* these that x has heard.  NetworkDBCluster models how they get there.    *)
(*                                                                         *)
(* A handler of table events checks the attachments under the read lock,   *)
(* applies the event under the lock, and tells the watchers after that:    *)
(* three steps.  One goroutine of a node handles what is gossiped, one     *)
(* goroutine per connection what is bulk synced, event after event.        *)
(* Gossiped events are delivered straight out of the queue of the sender,  *)
(* any number of times or never; a local operation and the queueing of its *)
(* event are therefore one step.                                           *)
(***************************************************************************)
EXTENDS Integers, FiniteSets

CONSTANTS
    Node,           \* node IDs
    Key,            \* keys of all tables of the network
    Writer,         \* Writer[k]: the nodes whose callers operate on key k
    Conn,           \* connections of a node that carry a bulk sync
    MaxEpoch,       \* bound on the joins and leaves of a node
    MaxTime,        \* bound on the Lamport clock of table events
    EntryReap,      \* reapEntryInterval, in runs of reapState
    NetworkReap     \* reapNetworkInterval, in runs of reapState

ASSUME TablesAssumption ==
    /\ IsFiniteSet(Key)
    /\ Writer \in [Key -> SUBSET Node]
    /\ MaxEpoch \in Nat
    /\ MaxTime \in Nat
    /\ EntryReap \in Nat \ {0}
    /\ NetworkReap \in Nat \ {0}
    /\ EntryReap <= NetworkReap

VARIABLES
    epoch,          \* joins and leaves of a node so far
    att,            \* att[x][y]: the attachment of y as known by x
    inSync,         \* inSync of the local attachment
    entriesNumber,  \* entriesNumber of the local attachment
    tableClock,     \* Lamport clock of table events
    table,          \* table[x][k]: the entry of k in both indexes of x
    tableQ,         \* tableBroadcasts of the local attachment
    conn,           \* conn[x][c]: the bulk sync message that c carries to x,
                    \* with the events that are still to be handled
    handlers,       \* handlers[x][h]: the table event that h is handling
    view            \* view[x]: the keys that the watchers of x believe present

tableVars == <<epoch, att, inSync, entriesNumber, tableClock, table, tableQ,
               conn, handlers, view>>

Handler == {"udp"} \cup Conn

Time == 0..(MaxTime + 1)

Attachment == [epoch: 0..MaxEpoch, reap: 0..NetworkReap]
Entry == [present: BOOLEAN, ltime: Time, node: Node, deleting: BOOLEAN,
          reap: 0..EntryReap]
TableEvent == [deleting: BOOLEAN, ltime: Time, node: Node, key: Key,
               reap: 0..EntryReap]
BulkSyncMessage == [from: Node, unsolicited: BOOLEAN, ltime: 0..MaxTime,
                    events: SUBSET TableEvent]

NoAttachment == [epoch |-> 0, reap |-> 0]

Attached(x) == att[x][x].epoch # 0
In(x, y) == att[x][y].epoch % 2 = 1
NetworkNodes(x) == {y \in Node : In(x, y)}

(***************************************************************************)
(* Lamport clock.  Witness saturates at MaxTime, where no new time is      *)
(* taken any more.                                                         *)
(***************************************************************************)
Tick(x) == tableClock[x] < MaxTime
WitnessTime(c, t) == IF t < c THEN c ELSE IF t < MaxTime THEN t + 1 ELSE MaxTime

(***************************************************************************)
(* Entries and events.  A tombstone is an entry that is deleting.          *)
(***************************************************************************)
NewEntry(ltime, node) ==
    [present |-> TRUE, ltime |-> ltime, node |-> node, deleting |-> FALSE, reap |-> 0]
Tombstone(ltime, node) ==
    [present |-> TRUE, ltime |-> ltime, node |-> node, deleting |-> TRUE,
     reap |-> EntryReap]
NoEntry(x) ==
    [present |-> FALSE, ltime |-> 0, node |-> x, deleting |-> FALSE, reap |-> 0]

EventOf(k, e) ==
    [deleting |-> e.deleting, ltime |-> e.ltime, node |-> e.node, key |-> k,
     reap |-> e.reap]

EntryOf(ev) ==
    [present |-> TRUE, ltime |-> ev.ltime, node |-> ev.node,
     deleting |-> ev.deleting,
     reap |-> IF ev.deleting /\ ev.reap = 0 THEN EntryReap ELSE ev.reap]

Live(e) == e.present /\ ~e.deleting

Idle == [pc |-> "idle"]
Handling(pc, ev, sync) == [pc |-> pc, ev |-> ev, sync |-> sync]

Init ==
    /\ epoch = [x \in Node |-> 0]
    /\ att = [x \in Node |-> [y \in Node |-> NoAttachment]]
    /\ inSync = [x \in Node |-> FALSE]
    /\ entriesNumber = [x \in Node |-> 0]
    /\ tableClock = [x \in Node |-> 0]
    /\ table = [x \in Node |-> [k \in Key |-> NoEntry(x)]]
    /\ tableQ = [x \in Node |-> {}]
    /\ conn = [x \in Node |-> [c \in Conn |-> {}]]
    /\ handlers = [x \in Node |-> [h \in Handler |-> Idle]]
    /\ view = [x \in Node |-> {}]

(***************************************************************************)
(* A change of the entries of x, with the counter that createOrUpdateEntry *)
(* and deleteEntry keep when the local attachment exists.                  *)
(***************************************************************************)
Present(t) == {k \in Key : t[k].present}

SetTable(x, t) ==
    /\ table' = [table EXCEPT ![x] = t]
    /\ entriesNumber' = [entriesNumber EXCEPT ![x] =
           IF Attached(x)
           THEN @ + Cardinality(Present(t)) - Cardinality(Present(table[x])) ELSE @]

LiveKeys(x, node) == {k \in Key : Live(table[x][k]) /\ table[x][k].node = node}

(***************************************************************************)
(* CreateEntry, UpdateEntry and DeleteEntry.  Callers operate on networks  *)
(* that their node has joined.  A queued event replaces older ones of the  *)
(* same key.                                                               *)
(***************************************************************************)
Queued(q, ev) == {m \in q : m.key # ev.key} \cup {ev}

\* Faulty variant: the clock is read, not incremented.
LocalOperationNoTick(x, k, e) ==
    /\ x \in Writer[k] /\ In(x, x) /\ Tick(x)
    /\ SetTable(x, [table[x] EXCEPT ![k] = e])
    /\ tableQ' = [tableQ EXCEPT ![x] = Queued(@, EventOf(k, e))]
    /\ UNCHANGED <<epoch, att, inSync, tableClock, conn, handlers, view>>

LocalOperation(x, k, e) ==
    /\ x \in Writer[k] /\ In(x, x) /\ Tick(x)
    /\ tableClock' = [tableClock EXCEPT ![x] = @ + 1]
    /\ SetTable(x, [table[x] EXCEPT ![k] = e])
    /\ tableQ' = [tableQ EXCEPT ![x] = Queued(@, EventOf(k, e))]
    /\ UNCHANGED <<epoch, att, inSync, conn, handlers, view>>

CreateEntry(x, k) ==
    /\ ~table[x][k].present
    /\ LocalOperation(x, k, NewEntry(tableClock[x] + 1, x))

UpdateEntry(x, k) ==
    /\ table[x][k].present
    /\ LocalOperation(x, k, NewEntry(tableClock[x] + 1, x))

DeleteEntry(x, k) ==
    /\ Live(table[x][k])
    /\ LocalOperation(x, k, Tombstone(tableClock[x] + 1, x))

(***************************************************************************)
(* The local attachment.  A join starts a new queue; a leave marks the own *)
(* entries as deleted, one time later, and forgets those of other nodes.   *)
(***************************************************************************)
\* Faulty variant: a new attachment starts to count at zero.
JoinNetworkUncounted(x) ==
    /\ ~In(x, x) /\ epoch[x] < MaxEpoch
    /\ epoch' = [epoch EXCEPT ![x] = @ + 1]
    /\ att' = [att EXCEPT ![x][x] = [epoch |-> epoch[x] + 1, reap |-> 0]]
    /\ inSync' = [inSync EXCEPT ![x] = FALSE]
    /\ entriesNumber' = [entriesNumber EXCEPT ![x] = 0]
    /\ tableQ' = [tableQ EXCEPT ![x] = {}]
    /\ UNCHANGED <<tableClock, table, conn, handlers, view>>

JoinNetwork(x) ==
    /\ ~In(x, x) /\ epoch[x] < MaxEpoch
    /\ epoch' = [epoch EXCEPT ![x] = @ + 1]
    /\ att' = [att EXCEPT ![x][x] = [epoch |-> epoch[x] + 1, reap |-> 0]]
    /\ inSync' = [inSync EXCEPT ![x] = FALSE]
    /\ tableQ' = [tableQ EXCEPT ![x] = {}]
    /\ UNCHANGED <<entriesNumber, tableClock, table, conn, handlers, view>>

JoinNetworkSynced(x) ==
    /\ In(x, x) /\ ~inSync[x]
    /\ inSync' = [inSync EXCEPT ![x] = TRUE]
    /\ UNCHANGED <<epoch, att, entriesNumber, tableClock, table, tableQ,
                   conn, handlers, view>>

LeftEntry(x, e) ==
    CASE e.present /\ e.node = x /\ ~e.deleting -> Tombstone(e.ltime + 1, x)
      [] e.present /\ e.node # x -> NoEntry(x)
      [] OTHER -> e

LeaveNetwork(x) ==
    /\ In(x, x) /\ epoch[x] < MaxEpoch
    /\ epoch' = [epoch EXCEPT ![x] = @ + 1]
    /\ SetTable(x, [k \in Key |-> LeftEntry(x, table[x][k])])
    /\ view' = [view EXCEPT ![x] = @ \ {k \in Key : Live(table[x][k])}]
    /\ att' = [att EXCEPT ![x][x] = [epoch |-> epoch[x] + 1, reap |-> NetworkReap]]
    /\ UNCHANGED <<inSync, tableClock, tableQ, conn, handlers>>

(***************************************************************************)
(* The attachments of other nodes: x hears of a join or of a leave of y,   *)
(* newer than what it knows, or takes y for failed or left.                *)
(***************************************************************************)
HearJoin(x, y, e) ==
    /\ x # y /\ e <= epoch[y] /\ e % 2 = 1 /\ att[x][y].epoch < e
    /\ att' = [att EXCEPT ![x][y] = [epoch |-> e, reap |-> 0]]
    /\ UNCHANGED <<epoch, inSync, entriesNumber, tableClock, table,
                   tableQ, conn, handlers, view>>

\* Faulty variant: the watchers are not told.
HearLeaveSilent(x, y, e) ==
    /\ x # y /\ e <= epoch[y] /\ e % 2 = 0 /\ att[x][y].epoch < e
    /\ att[x][y] # NoAttachment
    /\ SetTable(x, [k \in Key |-> IF k \in LiveKeys(x, y)
                                  THEN Tombstone(table[x][k].ltime, y)
                                  ELSE table[x][k]])
    /\ att' = [att EXCEPT ![x][y] = [epoch |-> e, reap |-> NetworkReap]]
    /\ UNCHANGED <<epoch, inSync, tableClock, tableQ, conn, handlers, view>>

HearLeave(x, y, e) ==
    /\ x # y /\ e <= epoch[y] /\ e % 2 = 0 /\ att[x][y].epoch < e
    /\ att[x][y] # NoAttachment
    /\ SetTable(x, [k \in Key |-> IF k \in LiveKeys(x, y)
                                  THEN Tombstone(table[x][k].ltime, y)
                                  ELSE table[x][k]])
    /\ view' = [view EXCEPT ![x] = @ \ LiveKeys(x, y)]
    /\ att' = [att EXCEPT ![x][y] = [epoch |-> e, reap |-> NetworkReap]]
    /\ UNCHANGED <<epoch, inSync, tableClock, tableQ, conn, handlers>>

\* Faulty variant: the entries of the node stay.
NodeGoneOnly(x, y) ==
    /\ x # y
    /\ att[x][y] # NoAttachment \/ \E k \in Key : table[x][k].node = y
    /\ att' = [att EXCEPT ![x][y] = NoAttachment]
    /\ UNCHANGED <<epoch, inSync, entriesNumber, tableClock, table, tableQ, conn,
                   handlers, view>>

NodeGone(x, y) ==
    /\ x # y
    /\ att[x][y] # NoAttachment \/ \E k \in Key : table[x][k].node = y
    /\ att' = [att EXCEPT ![x][y] = NoAttachment]
    /\ SetTable(x, [k \in Key |-> IF table[x][k].node = y THEN NoEntry(x)
                                  ELSE table[x][k]])
    /\ view' = [view EXCEPT ![x] = @ \ LiveKeys(x, y)]
    /\ UNCHANGED <<epoch, inSync, tableClock, tableQ, conn, handlers>>

(***************************************************************************)
(* handleTableEvent by goroutine h of y, in three steps.  The owner of the *)
(* entry is looked up in the list of the network's nodes, under the read   *)
(* lock only.  With too many events queued, what came by bulk sync is not  *)
(* sent on.                                                                *)
(***************************************************************************)
Check(y, h, ev) ==
    handlers' = [handlers EXCEPT ![y][h] =
        IF In(y, y) /\ ev.node \in NetworkNodes(y)
        THEN Handling("apply", ev, inSync[y]) ELSE Idle]

\* Faulty variant: what is bulk synced is taken for the latest state.
IgnoresGossipOnly(e, ev, bulk) ==
    ~bulk /\ (IF e.present THEN e.ltime >= ev.ltime ELSE ev.deleting)

Ignores(e, ev, bulk) ==
    IF e.present THEN e.ltime >= ev.ltime ELSE ev.deleting /\ ~bulk

Apply(y, h) ==
    /\ handlers[y][h].pc = "apply"
    /\ LET ev == handlers[y][h].ev
           e == table[y][ev.key]
       IN  IF Ignores(e, ev, h \in Conn)
           THEN /\ handlers' = [handlers EXCEPT ![y][h] = Idle]
                /\ UNCHANGED <<table, entriesNumber>>
           ELSE /\ SetTable(y, [table[y] EXCEPT ![ev.key] = EntryOf(ev)])
                /\ handlers' = [handlers EXCEPT ![y][h] = Handling(
                       IF ~e.present /\ ev.deleting THEN "forward" ELSE "notify",
                       ev, handlers[y][h].sync)]
    /\ UNCHANGED <<epoch, att, inSync, tableClock, tableQ, conn, view>>

Told(v, r) ==
    CASE r.pc = "forward" -> v
      [] r.pc = "notify" /\ r.ev.deleting -> v \ {r.ev.key}
      [] OTHER -> v \cup {r.ev.key}

Rebroadcast(y, r) ==
    /\ In(y, y)
    /\ r.sync \/ inSync[y]
    /\ r.pc = "forward" => 6 * EntryOf(r.ev).reap > EntryReap

Notify(y, h) ==
    /\ handlers[y][h].pc \in {"notify", "forward"}
    /\ view' = [view EXCEPT ![y] = Told(@, handlers[y][h])]
    /\ \/ /\ Rebroadcast(y, handlers[y][h])
          /\ tableQ' = [tableQ EXCEPT ![y] = Queued(@, handlers[y][h].ev)]
       \/ /\ Rebroadcast(y, handlers[y][h]) => h \in Conn
          /\ UNCHANGED tableQ
    /\ handlers' = [handlers EXCEPT ![y][h] = Idle]
    /\ UNCHANGED <<epoch, att, inSync, entriesNumber, tableClock, table, conn>>

(***************************************************************************)
(* A gossiped event arrives.                                               *)
(***************************************************************************)
Gossip(x, y, ev) ==
    /\ x # y /\ Attached(x) /\ In(x, y) /\ ev \in tableQ[x] /\ ev.node # y
    /\ handlers[y]["udp"] = Idle
    /\ tableClock' = [tableClock EXCEPT ![y] = WitnessTime(@, ev.ltime)]
    /\ Check(y, "udp", ev)
    /\ UNCHANGED <<epoch, att, inSync, entriesNumber, table, tableQ, conn, view>>

(***************************************************************************)
(* Bulk sync: x sends all its entries to y, in one message, and y answers  *)
(* with its own.  The exchange covers all the networks that x has in       *)
(* common with y, those that x is leaving included.  The answer may fail.  *)
(***************************************************************************)
\* Faulty variant: tombstones are not synced.
SnapshotLive(x) == {EventOf(k, table[x][k]) : k \in {j \in Key : Live(table[x][j])}}

Snapshot(x) == {EventOf(k, table[x][k]) : k \in Present(table[x])}

Message(x, unsolicited) ==
    [from |-> x, unsolicited |-> unsolicited, ltime |-> tableClock[x],
     events |-> Snapshot(x)]

BulkSync(x, y, c) ==
    /\ x # y /\ Attached(x) /\ In(x, y) /\ conn[y][c] = {}
    /\ conn' = [conn EXCEPT ![y][c] = {Message(x, TRUE)}]
    /\ UNCHANGED <<epoch, att, inSync, entriesNumber, tableClock, table, tableQ,
                   handlers, view>>

SyncTime(c, m) == IF m.ltime > 0 THEN WitnessTime(c, m.ltime) ELSE c

HandleBulkEvent(y, c, m, ev) ==
    /\ m \in conn[y][c] /\ ev \in m.events /\ handlers[y][c] = Idle
    /\ conn' = [conn EXCEPT ![y][c] = {[m EXCEPT !.events = @ \ {ev}]}]
    /\ IF ev.node = y
       THEN /\ tableClock' = [tableClock EXCEPT ![y] = SyncTime(@, m)]
            /\ UNCHANGED handlers
       ELSE /\ tableClock' = [tableClock EXCEPT
                   ![y] = WitnessTime(SyncTime(@, m), ev.ltime)]
            /\ Check(y, c, ev)
    /\ UNCHANGED <<epoch, att, inSync, entriesNumber, table, tableQ, view>>

HandledBulkSync(y, c, m) ==
    /\ m \in conn[y][c] /\ m.events = {} /\ handlers[y][c] = Idle
    /\ tableClock' = [tableClock EXCEPT ![y] = SyncTime(@, m)]
    /\ \/ conn' = [conn EXCEPT ![y][c] = {}]
       \/ \E d \in Conn :
             /\ m.unsolicited /\ conn[m.from][d] = {}
             /\ conn' = [conn EXCEPT ![y][c] = {}, ![m.from][d] = {Message(y, FALSE)}]
    /\ UNCHANGED <<epoch, att, inSync, entriesNumber, table, tableQ, handlers, view>>

(***************************************************************************)
(* reapState: the tombstones of a network go while the local attachment is *)
(* still there, then the attachments that were left.                       *)
(***************************************************************************)
\* Faulty variant: the time left is decremented first.
ReapedEntryLate(x, e) ==
    CASE e.deleting /\ e.reap >= 0 -> [e EXCEPT !.reap = @ - 1]
      [] e.deleting /\ e.reap < 0 -> NoEntry(x)
      [] OTHER -> e

ReapedEntry(x, e) ==
    CASE e.deleting /\ e.reap > 1 -> [e EXCEPT !.reap = @ - 1]
      [] e.deleting /\ e.reap <= 1 -> NoEntry(x)
      [] OTHER -> e

Leaving(r) == r.epoch # 0 /\ r.epoch % 2 = 0

ReapedAttachment(r) ==
    CASE Leaving(r) /\ r.reap <= 0 -> NoAttachment
      [] Leaving(r) /\ r.reap > 0 -> [r EXCEPT !.reap = @ - 1]
      [] OTHER -> r

ReapState(x) ==
    /\ \/ Attached(x) /\ \E k \in Key : table[x][k].deleting
       \/ \E y \in Node : Leaving(att[x][y])
    /\ IF Attached(x)
       THEN table' = [table EXCEPT ![x] =
                [k \in Key |-> ReapedEntry(x, table[x][k])]]
       ELSE UNCHANGED table
    /\ att' = [att EXCEPT ![x] = [y \in Node |-> ReapedAttachment(@[y])]]
    /\ entriesNumber' = [entriesNumber EXCEPT ![x] =
           IF Leaving(att[x][x]) /\ att[x][x].reap <= 0 THEN 0
           ELSE @ + Cardinality(Present(table'[x])) - Cardinality(Present(table[x]))]
    /\ inSync' = [inSync EXCEPT ![x] = @ /\ att'[x][x] # NoAttachment]
    /\ tableQ' = [tableQ EXCEPT ![x] = IF att'[x][x] = NoAttachment THEN {} ELSE @]
    /\ UNCHANGED <<epoch, tableClock, conn, handlers, view>>

Operate ==
    \E x \in Node, k \in Key :
        CreateEntry(x, k) \/ UpdateEntry(x, k) \/ DeleteEntry(x, k)

Attach ==
    \E x \in Node :
        \/ JoinNetwork(x) \/ JoinNetworkSynced(x) \/ LeaveNetwork(x)
        \/ \E y \in Node : NodeGone(x, y)
        \/ \E y \in Node, e \in 1..MaxEpoch : HearJoin(x, y, e) \/ HearLeave(x, y, e)

Receive ==
    \E x, y \in Node : \E ev \in tableQ[x] : Gossip(x, y, ev)

Sync ==
    \/ \E x, y \in Node, c \in Conn : BulkSync(x, y, c)
    \/ \E y \in Node, c \in Conn : \E m \in conn[y][c] :
          HandledBulkSync(y, c, m) \/ \E ev \in m.events : HandleBulkEvent(y, c, m, ev)

Handle == \E y \in Node, h \in Handler : Apply(y, h) \/ Notify(y, h)

Reap == \E x \in Node : ReapState(x)

Next == Operate \/ Attach \/ Receive \/ Sync \/ Handle \/ Reap

Spec == Init /\ [][Next]_tableVars

(***************************************************************************)
(* Type invariant: the fields of NetworkDB that hold the tables            *)
(* (networkdb.go:29) and the messages have their shape.                    *)
(***************************************************************************)
HandlerState ==
    {Idle} \cup [pc: {"apply", "notify", "forward"}, ev: TableEvent, sync: BOOLEAN]

TypeOK ==
    /\ epoch \in [Node -> 0..MaxEpoch]
    /\ att \in [Node -> [Node -> Attachment]]
    /\ inSync \in [Node -> BOOLEAN]
    /\ entriesNumber \in [Node -> Int]
    /\ tableClock \in [Node -> 0..MaxTime]
    /\ table \in [Node -> [Key -> Entry]]
    /\ tableQ \in [Node -> SUBSET TableEvent]
    /\ conn \in [Node -> [Conn -> SUBSET BulkSyncMessage]]
    /\ handlers \in [Node -> [Handler -> HandlerState]]
    /\ view \in [Node -> SUBSET Key]

(***************************************************************************)
(* An entry never goes back in time while it exists: a stale event, by     *)
(* gossip or by bulk sync, is ignored (delegate.go:174), and a local       *)
(* operation takes a time that is not older.                               *)
(***************************************************************************)
EntryTimeMonotone ==
    [][\A x \in Node, k \in Key : table[x][k].present /\ table'[x][k].present
          => table[x][k].ltime <= table'[x][k].ltime]_tableVars

(***************************************************************************)
(* Nobody is ahead of the owner of an entry: a live copy, in a table, a    *)
(* queue or a message, has a time that the clock of its owner has reached, *)
(* a tombstone is at most one ahead (deleteNodeNetworkEntries adds one to  *)
(* the entry's own time, networkdb.go:527, and leaves the clock alone).    *)
(***************************************************************************)
NotAhead(e) == e.ltime <= tableClock[e.node] + (IF e.deleting THEN 1 ELSE 0)

CopiesNotAhead ==
    \A x \in Node :
        /\ \A k \in Key : NotAhead(table[x][k])
        /\ \A ev \in tableQ[x] : NotAhead(ev)
        /\ \A c \in Conn : \A m \in conn[x][c] : \A ev \in m.events : NotAhead(ev)
        /\ \A h \in Handler : handlers[x][h] # Idle => NotAhead(handlers[x][h].ev)

(***************************************************************************)
(* CreateEntry: "It is an error to create an entry for the same tuple for  *)
(* which there is already an existing entry unless the current entry is    *)
(* deleting state" (networkdb.go:351).                                     *)
(***************************************************************************)
DeletedCreatable ==
    \A k \in Key : \A x \in Writer[k] :
        table[x][k].deleting /\ In(x, x) /\ Tick(x) => ENABLED CreateEntry(x, k)

(***************************************************************************)
(* entriesNumber: "the sum of all the entries of all the tables of a       *)
(* specific network" (networkdb.go:150).                                   *)
(***************************************************************************)
EntriesCounted ==
    \A x \in Node : Attached(x) => entriesNumber[x] = Cardinality(Present(table[x]))

(***************************************************************************)
(* What a handler of table events relies on and does not lock for.  It     *)
(* checks that its node and the owner of the event are in the network      *)
(* under the read lock, and applies the event under the lock: the check    *)
(* holds until then, or it does not.  It tells the watchers after it has   *)
(* given up the lock: what it tells them is still so, or it is not.        *)
(***************************************************************************)
ChecksHold ==
    \A y \in Node, h \in Handler :
        handlers[y][h].pc = "apply" => In(y, y) /\ In(y, handlers[y][h].ev.node)

\* The live entries of other nodes.
Shown(x) == {k \in Key : Live(table[x][k]) /\ table[x][k].node # x}

TellsHold ==
    \A y \in Node, h \in Handler :
        handlers[y][h].pc = "notify" =>
            (handlers[y][h].ev.key \in Shown(y) <=> ~handlers[y][h].ev.deleting)

(***************************************************************************)
(* An entry that is not deleted belongs to a node of the network: "When a  *)
(* node hears that another node is leaving a network, it deletes all table *)
(* entries belonging to the leaving node" (docs/networkdb.md:55).          *)
(***************************************************************************)
OwnersInNetwork ==
    \A x \in Node, k \in Key : Live(table[x][k]) => In(x, table[x][k].node)

(***************************************************************************)
(* Between two events, the watchers of x know the live entries of the      *)
(* other nodes.                                                            *)
(***************************************************************************)
WatchersAgree ==
    \A x \in Node : (\A h \in Handler : handlers[x][h] = Idle) => view[x] = Shown(x)
=============================================================================
