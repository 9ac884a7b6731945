---------------------- MODULE NetworkDBTablesAgreement ----------------------
(***************************************************************************)
(* What the tables of a node agree with: the attachments of the owners of  *)
(* the entries, the counter of the local attachment and the watchers.      *)
(*                                                                         *)
(* None of this holds of the code as it is, because a handler of table     *)
(* events checks, applies and tells in three steps.  The theorems here say *)
(* that nothing else can break it: as long as no check goes stale, entries *)
(* belong to nodes of the network and are counted, and as long as nothing  *)
(* told to the watchers is stale, the watchers know the live entries, for  *)
(* any interleaving of local operations, attachments, gossip, bulk syncs   *)
(* and the reaper.                                                         *)
(***************************************************************************)
EXTENDS NetworkDBTablesProofs

\* The tables of a node that rewrites its own.
LEMMA Rewritten ==
    ASSUME TypeOK, NEW x \in Node, NEW t, table' = [table EXCEPT ![x] = t]
    PROVE  table'[x] = t /\ \A y \in Node : y # x => table'[y] = table[y]
BY DEF TypeOK

\* The entries of a node after each of the steps that change its table.
LEMMA OperateEntries ==
    ASSUME TypeOK, NEW x \in Node, NEW k \in Key,
           CreateEntry(x, k) \/ UpdateEntry(x, k) \/ DeleteEntry(x, k)
    PROVE  \E e \in Entry :
               /\ e.present /\ e.node = x /\ x \in Writer[k] /\ In(x, x)
               /\ LocalOperation(x, k, e)
               /\ table' = [table EXCEPT ![x] = [table[x] EXCEPT ![k] = e]]
               /\ UNCHANGED <<epoch, att, conn, handlers, view>>
<1>1. tableClock[x] \in 0..MaxTime  BY DEF TypeOK
<1>2. tableClock[x] + 1 \in Time  BY <1>1, TablesAssumption DEF Time
<1>3. PICK e \in Entry : /\ LocalOperation(x, k, e)
                         /\ e = NewEntry(tableClock[x] + 1, x) \/ e = Tombstone(tableClock[x] + 1, x)
  BY <1>2, EntryTypes DEF CreateEntry, UpdateEntry, DeleteEntry
<1>4. e.present /\ e.node = x  BY <1>3 DEF NewEntry, Tombstone
<1>5. /\ x \in Writer[k] /\ In(x, x)
      /\ table' = [table EXCEPT ![x] = [table[x] EXCEPT ![k] = e]]
      /\ UNCHANGED <<epoch, att, conn, handlers, view>>
  BY <1>3 DEF LocalOperation, SetTable
<1> QED  BY <1>3, <1>4, <1>5, Zenon

\* An event that is applied becomes the entry of its key.
LEMMA ApplyEntries ==
    ASSUME TypeOK, NEW y \in Node, NEW h \in Handler, Apply(y, h)
    PROVE  \E ev \in TableEvent :
               /\ handlers[y][h].pc = "apply" /\ handlers[y][h].ev = ev
               /\ \/ UNCHANGED <<table, entriesNumber>>
                  \/ /\ SetTable(y, [table[y] EXCEPT ![ev.key] = EntryOf(ev)])
                     /\ table' = [table EXCEPT ![y] = [table[y] EXCEPT ![ev.key] = EntryOf(ev)]]
               /\ UNCHANGED <<epoch, att, inSync, view>>
<1>1. handlers[y][h].pc = "apply" /\ UNCHANGED <<epoch, att, inSync, view>>  BY DEF Apply
<1>2. handlers[y][h] \in HandlerState  BY DEF TypeOK
<1>3. PICK ev \in TableEvent : handlers[y][h].ev = ev
  BY <1>1, <1>2 DEF HandlerState, Idle
<1>4. \/ UNCHANGED <<table, entriesNumber>>
      \/ SetTable(y, [table[y] EXCEPT ![ev.key] = EntryOf(ev)])
  BY <1>3 DEF Apply
<1> QED  BY <1>1, <1>3, <1>4, Zenon DEF SetTable

\* An entry that the reaper leaves is as live as it was, and belongs to the same node.
LEMMA ReapedFacts ==
    ASSUME TypeOK, NEW x \in Node, NEW k \in Key
    PROVE  /\ ReapedEntry(x, table[x][k]).present =>
                 table[x][k].present /\ ReapedEntry(x, table[x][k]).node = table[x][k].node
           /\ Live(ReapedEntry(x, table[x][k])) <=> Live(table[x][k])
<1>1. PICK e \in Entry : e = table[x][k]  BY DEF TypeOK
<1>2. e.reap \in Nat /\ e.deleting \in BOOLEAN  BY TablesAssumption DEF Entry
<1>3. CASE e.deleting /\ e.reap > 1
  <2>1. ReapedEntry(x, e) = [e EXCEPT !.reap = @ - 1]  BY <1>2, <1>3 DEF ReapedEntry
  <2>2. PICK f : f = ReapedEntry(x, e)  OBVIOUS
  <2>3. f.present = e.present /\ f.deleting = e.deleting /\ f.node = e.node
    BY <2>1, <2>2 DEF Entry
  <2> QED  BY <1>1, <2>2, <2>3 DEF Live
<1>4. CASE e.deleting /\ e.reap <= 1
  <2>1. ReapedEntry(x, e) = NoEntry(x)  BY <1>2, <1>4 DEF ReapedEntry
  <2>2. ~NoEntry(x).present  BY DEF NoEntry
  <2> QED  BY <1>1, <1>4, <2>1, <2>2 DEF Live
<1>5. CASE ~e.deleting
  <2>1. ReapedEntry(x, e) = e  BY <1>5 DEF ReapedEntry
  <2> QED  BY <1>1, <2>1
<1> QED  BY <1>2, <1>3, <1>4, <1>5

\* Bulk sync messages come and go.
LEMMA SyncFrame ==
    ASSUME Sync
    PROVE  UNCHANGED <<epoch, att, inSync, entriesNumber, table, tableQ, view>>
<1>1. \A x, y \in Node, c \in Conn :
         BulkSync(x, y, c) => UNCHANGED <<epoch, att, inSync, entriesNumber, table, tableQ, view>>
  BY DEF BulkSync
<1>2. \A y \in Node, c \in Conn : \A m \in conn[y][c] :
         HandledBulkSync(y, c, m)
         => UNCHANGED <<epoch, att, inSync, entriesNumber, table, tableQ, view>>
  BY DEF HandledBulkSync
<1>3. \A y \in Node, c \in Conn : \A m \in conn[y][c] : \A ev \in m.events :
         HandleBulkEvent(y, c, m, ev)
         => UNCHANGED <<epoch, att, inSync, entriesNumber, table, tableQ, view>>
  BY DEF HandleBulkEvent
<1> QED  BY <1>1, <1>2, <1>3, Zenon DEF Sync

(***************************************************************************)
(* The owners of live entries are in the network.                          *)
(***************************************************************************)
\* What leaves the tables and the attachments alone keeps it.
LEMMA OwnersFrame ==
    ASSUME OwnersInNetwork, UNCHANGED <<table, att>>
    PROVE  OwnersInNetwork'
BY DEF OwnersInNetwork, Live, In

LEMMA OwnersOperate ==
    ASSUME TypeOK, OwnersInNetwork, NEW x \in Node, NEW k \in Key,
           CreateEntry(x, k) \/ UpdateEntry(x, k) \/ DeleteEntry(x, k)
    PROVE  OwnersInNetwork'
<1>1. PICK e \in Entry :
         /\ e.present /\ e.node = x /\ x \in Writer[k] /\ In(x, x)
         /\ LocalOperation(x, k, e)
         /\ table' = [table EXCEPT ![x] = [table[x] EXCEPT ![k] = e]]
         /\ UNCHANGED <<epoch, att, conn, handlers, view>>
  BY OperateEntries
<1> SUFFICES ASSUME NEW y \in Node, NEW j \in Key, Live(table'[y][j])
             PROVE  In(y, table'[y][j].node)
  BY <1>1, Zenon DEF OwnersInNetwork, In, Live
<1>2. CASE y = x /\ j = k
  <2>1. table'[y][j] = e  BY <1>1, <1>2 DEF TypeOK
  <2> QED  BY <1>1, <1>2, <2>1
<1>3. CASE ~(y = x /\ j = k)
  <2>1. table'[y][j] = table[y][j]  BY <1>1, <1>3 DEF TypeOK
  <2> QED  BY <2>1 DEF OwnersInNetwork
<1> QED  BY <1>2, <1>3

LEMMA OwnersApply ==
    ASSUME TypeOK, ChecksHold, OwnersInNetwork, NEW y \in Node, NEW h \in Handler, Apply(y, h)
    PROVE  OwnersInNetwork'
<1>1. PICK ev \in TableEvent :
         /\ handlers[y][h].pc = "apply" /\ handlers[y][h].ev = ev
         /\ \/ UNCHANGED <<table, entriesNumber>>
            \/ /\ SetTable(y, [table[y] EXCEPT ![ev.key] = EntryOf(ev)])
               /\ table' = [table EXCEPT ![y] = [table[y] EXCEPT ![ev.key] = EntryOf(ev)]]
         /\ UNCHANGED <<epoch, att, inSync, view>>
  BY ApplyEntries, Zenon
<1>2. In(y, ev.node)  BY <1>1 DEF ChecksHold
<1>3. CASE UNCHANGED table  BY <1>1, <1>3, OwnersFrame
<1>4. CASE table' = [table EXCEPT ![y] = [table[y] EXCEPT ![ev.key] = EntryOf(ev)]]
  <2> SUFFICES ASSUME NEW x \in Node, NEW j \in Key, Live(table'[x][j])
               PROVE  In(x, table'[x][j].node)
    BY <1>1 DEF OwnersInNetwork, In, Live
  <2>1. ev.key \in Key /\ EntryOf(ev).node = ev.node  BY DEF TableEvent, EntryOf
  <2>2. CASE x = y /\ j = ev.key
    <3>1. table'[x][j] = EntryOf(ev)  BY <1>4, <2>1, <2>2 DEF TypeOK
    <3> QED  BY <1>2, <2>1, <2>2, <3>1
  <2>3. CASE ~(x = y /\ j = ev.key)
    <3>1. table'[x][j] = table[x][j]  BY <1>4, <2>3 DEF TypeOK
    <3> QED  BY <3>1 DEF OwnersInNetwork
  <2> QED  BY <2>2, <2>3
<1> QED  BY <1>1, <1>3, <1>4

\* The attachment of one node as known by another changes, or its own: the others do not.
LEMMA AttachmentSet ==
    ASSUME TypeOK, NEW x \in Node, NEW y \in Node, NEW r, att' = [att EXCEPT ![x][y] = r]
    PROVE  /\ att'[x][y] = r
           /\ \A w \in Node, z \in Node : ~(w = x /\ z = y) => att'[w][z] = att[w][z]
BY DEF TypeOK

LEMMA OwnersJoin ==
    ASSUME TypeOK, OwnersInNetwork, NEW x \in Node, JoinNetwork(x) \/ JoinNetworkSynced(x)
    PROVE  OwnersInNetwork'
<1>1. CASE JoinNetworkSynced(x)
  <2>1. UNCHANGED <<table, att>>  BY <1>1 DEF JoinNetworkSynced
  <2> QED  BY <2>1, OwnersFrame
<1>2. CASE JoinNetwork(x)
  <2>1. /\ ~In(x, x) /\ UNCHANGED table
        /\ att' = [att EXCEPT ![x][x] = [epoch |-> epoch[x] + 1, reap |-> 0]]
    BY <1>2 DEF JoinNetwork
  <2>2. \A w \in Node, z \in Node : ~(w = x /\ z = x) => att'[w][z] = att[w][z]
    BY <2>1, AttachmentSet
  <2> SUFFICES ASSUME NEW w \in Node, NEW k \in Key, Live(table[w][k])
               PROVE  In(w, table[w][k].node)'
    BY <2>1, Zenon DEF OwnersInNetwork, Live, In
  <2>3. In(w, table[w][k].node)  BY DEF OwnersInNetwork
  <2>4. PICK z \in Node : z = table[w][k].node  BY DEF TypeOK, Entry
  <2>5. ~(w = x /\ z = x)  BY <2>1, <2>3, <2>4
  <2>6. att'[w][z] = att[w][z]  BY <2>2, <2>5
  <2> QED  BY <2>1, <2>3, <2>4, <2>6, Zenon DEF In
<1> QED  BY <1>1, <1>2

LEMMA OwnersLeave ==
    ASSUME TypeOK, OwnersInNetwork, NEW x \in Node, LeaveNetwork(x)
    PROVE  OwnersInNetwork'
<1> DEFINE t == [k \in Key |-> LeftEntry(x, table[x][k])]
<1>1. /\ table' = [table EXCEPT ![x] = t]
      /\ att' = [att EXCEPT ![x][x] = [epoch |-> epoch[x] + 1, reap |-> NetworkReap]]
  BY DEF LeaveNetwork, SetTable
<1>2. \A w \in Node, z \in Node : ~(w = x /\ z = x) => att'[w][z] = att[w][z]
  BY <1>1, AttachmentSet
<1>3. table'[x] = t /\ \A y \in Node : y # x => table'[y] = table[y]
  BY <1>1, Rewritten, Zenon
<1> HIDE DEF t
<1> SUFFICES ASSUME NEW w \in Node, NEW k \in Key, Live(table'[w][k])
             PROVE  att'[w][table'[w][k].node].epoch % 2 = 1
  BY DEF OwnersInNetwork, Live, In
<1>4. CASE w = x
  <2>1. table[x][k] \in Entry  BY DEF TypeOK
  <2>2. PICK e \in Entry : e = table[x][k]  BY <2>1
  <2>3. t[k] = LeftEntry(x, e)  BY <2>2 DEF t
  <2>4. ~Live(LeftEntry(x, e))  BY DEF LeftEntry, Live, Tombstone, NoEntry, Entry
  <2> QED  BY <1>3, <1>4, <2>3, <2>4
<1>5. CASE w # x
  <2>1. table'[w][k] = table[w][k] /\ table[w][k].node \in Node  BY <1>3, <1>5 DEF TypeOK, Entry
  <2>2. In(w, table[w][k].node)  BY <2>1 DEF OwnersInNetwork
  <2> QED  BY <1>2, <1>5, <2>1, <2>2 DEF In
<1> QED  BY <1>4, <1>5

LEMMA OwnersHear ==
    ASSUME TypeOK, OwnersInNetwork, NEW x \in Node, NEW y \in Node, NEW e \in 1..MaxEpoch,
           HearJoin(x, y, e) \/ HearLeave(x, y, e)
    PROVE  OwnersInNetwork'
<1>1. PICK r : att' = [att EXCEPT ![x][y] = r] /\ (HearJoin(x, y, e) => r.epoch % 2 = 1)
  <2>1. HearJoin(x, y, e) => [epoch |-> e, reap |-> 0].epoch % 2 = 1
    BY DEF HearJoin
  <2>2. CASE HearJoin(x, y, e)
    <3>1. att' = [att EXCEPT ![x][y] = [epoch |-> e, reap |-> 0]]  BY <2>2 DEF HearJoin
    <3> QED  BY <2>1, <3>1, Zenon
  <2>3. CASE HearLeave(x, y, e) /\ ~HearJoin(x, y, e)
    BY <2>3, Zenon DEF HearLeave
  <2> QED  BY <2>2, <2>3
<1>2. /\ att'[x][y] = r
      /\ \A w \in Node, z \in Node : ~(w = x /\ z = y) => att'[w][z] = att[w][z]
  <2>1. att' = [att EXCEPT ![x][y] = r]  BY <1>1
  <2> QED  BY <2>1 DEF TypeOK
<1> SUFFICES ASSUME NEW w \in Node, NEW k \in Key, Live(table'[w][k])
             PROVE  att'[w][table'[w][k].node].epoch % 2 = 1
  BY DEF OwnersInNetwork, Live, In
<1>3. table[w][k].node \in Node  BY DEF TypeOK, Entry
<1>4. CASE HearJoin(x, y, e)
  <2>1. table' = table  BY <1>4 DEF HearJoin
  <2>2. In(w, table[w][k].node)  BY <2>1 DEF OwnersInNetwork
  <2>3. PICK z \in Node : z = table[w][k].node  BY <1>3
  <2>4. CASE w = x /\ z = y  BY <1>1, <1>2, <1>4, <2>1, <2>3, <2>4
  <2>5. CASE ~(w = x /\ z = y)
    <3>1. att'[w][z] = att[w][z]  BY <1>2, <2>5
    <3> QED  BY <2>1, <2>2, <2>3, <3>1, Zenon DEF In
  <2> QED  BY <2>4, <2>5
<1>5. CASE HearLeave(x, y, e)
  <2> DEFINE t == [j \in Key |-> IF j \in LiveKeys(x, y)
                                 THEN Tombstone(table[x][j].ltime, y) ELSE table[x][j]]
  <2>1. table' = [table EXCEPT ![x] = t]  BY <1>5 DEF HearLeave, SetTable
  <2>2. table'[x] = t /\ \A z \in Node : z # x => table'[z] = table[z]
    BY <2>1, Rewritten, Zenon
  <2>3. \A j \in LiveKeys(x, y) : ~Live(t[j])  BY DEF LiveKeys, Tombstone, Live
  <2>4. \A j \in Key \ LiveKeys(x, y) : t[j] = table[x][j]  OBVIOUS
  <2> HIDE DEF t
  <2>5. /\ table'[w][k] = table[w][k] /\ Live(table[w][k])
        /\ w = x => table[w][k].node # y
    <3>1. CASE w = x
      BY <2>2, <2>3, <2>4, <3>1 DEF LiveKeys
    <3>2. CASE w # x  BY <2>2, <3>2
    <3> QED  BY <3>1, <3>2
  <2>6. In(w, table[w][k].node)  BY <2>5 DEF OwnersInNetwork
  <2> QED  BY <1>2, <1>3, <2>5, <2>6, Zenon DEF In
<1> QED  BY <1>4, <1>5

LEMMA OwnersGone ==
    ASSUME TypeOK, OwnersInNetwork, NEW x \in Node, NEW y \in Node, NodeGone(x, y)
    PROVE  OwnersInNetwork'
<1> DEFINE t == [j \in Key |-> IF table[x][j].node = y THEN NoEntry(x) ELSE table[x][j]]
<1>1. table' = [table EXCEPT ![x] = t] /\ att' = [att EXCEPT ![x][y] = NoAttachment]
  BY DEF NodeGone, SetTable
<1>2. \A w \in Node, z \in Node : ~(w = x /\ z = y) => att'[w][z] = att[w][z]
  BY <1>1, AttachmentSet
<1>3. table'[x] = t /\ \A z \in Node : z # x => table'[z] = table[z]
  BY <1>1, Rewritten, Zenon
<1>4. \A j \in Key : Live(t[j]) => t[j] = table[x][j] /\ table[x][j].node # y
  BY DEF NoEntry, Live
<1> HIDE DEF t
<1> SUFFICES ASSUME NEW w \in Node, NEW k \in Key, Live(table'[w][k])
             PROVE  att'[w][table'[w][k].node].epoch % 2 = 1
  BY Zenon DEF OwnersInNetwork, Live, In
<1>5. /\ table'[w][k] = table[w][k] /\ Live(table[w][k])
      /\ w = x => table[w][k].node # y
  <2>1. CASE w = x  BY <1>3, <1>4, <2>1
  <2>2. CASE w # x  BY <1>3, <2>2
  <2> QED  BY <2>1, <2>2
<1>6. In(w, table[w][k].node) /\ table[w][k].node \in Node
  BY <1>5 DEF OwnersInNetwork, TypeOK, Entry
<1> QED  BY <1>2, <1>5, <1>6 DEF In

\* The reaper takes tombstones, and the attachments of nodes that have left.
LEMMA OwnersReap ==
    ASSUME TypeOK, OwnersInNetwork, NEW x \in Node, ReapState(x)
    PROVE  OwnersInNetwork'
<1>1. att' = [att EXCEPT ![x] = [y \in Node |-> ReapedAttachment(att[x][y])]]
  BY DEF ReapState
<1>2. \A w \in Node, z \in Node : In(w, z) => In(w, z)'
  <2> SUFFICES ASSUME NEW w \in Node, NEW z \in Node, In(w, z) PROVE In(w, z)'
    OBVIOUS
  <2>1. CASE w = x
    <3>1. att'[w][z] = ReapedAttachment(att[w][z])  BY <1>1, <2>1 DEF TypeOK
    <3>2. ReapedAttachment(att[w][z]) = att[w][z]  BY DEF ReapedAttachment, Leaving, In
    <3> QED  BY <3>1, <3>2 DEF In
  <2>2. CASE w # x
    <3>1. att'[w] = att[w]  BY <1>1, <2>2 DEF TypeOK
    <3> QED  BY <3>1 DEF In
  <2> QED  BY <2>1, <2>2
<1> SUFFICES ASSUME NEW w \in Node, NEW k \in Key, Live(table'[w][k])
             PROVE  att'[w][table'[w][k].node].epoch % 2 = 1
  BY DEF OwnersInNetwork, Live, In
<1>3. table'[w][k] = table[w][k]
  <2>1. CASE UNCHANGED table  BY <2>1
  <2>2. CASE table' = [table EXCEPT ![x] = [j \in Key |-> ReapedEntry(x, table[x][j])]]
    <3>1. CASE w = x
      <4>1. table'[w][k] = ReapedEntry(x, table[x][k])  BY <2>2, <3>1 DEF TypeOK
      <4>2. PICK e \in Entry : e = table[x][k]  BY DEF TypeOK
      <4>3. e.reap \in Nat /\ e.deleting \in BOOLEAN  BY TablesAssumption DEF Entry
      <4>4. ReapedEntry(x, e) = e \/ ~Live(ReapedEntry(x, e))
        BY <4>3 DEF ReapedEntry, NoEntry, Live, Entry
      <4> QED  BY <3>1, <4>1, <4>2, <4>4
    <3>2. CASE w # x  BY <2>2, <3>2 DEF TypeOK
    <3> QED  BY <3>1, <3>2
  <2> QED  BY <2>1, <2>2 DEF ReapState
<1>4. In(w, table[w][k].node) /\ table[w][k].node \in Node
  BY <1>3 DEF OwnersInNetwork, TypeOK, Entry
<1> QED  BY <1>2, <1>3, <1>4 DEF In

LEMMA OwnersStep ==
    ASSUME TypeOK, ChecksHold, OwnersInNetwork, [Next]_tableVars
    PROVE  OwnersInNetwork'
<1>1. CASE Operate  BY <1>1, OwnersOperate DEF Operate
<1>2. CASE Attach
  BY <1>2, OwnersJoin, OwnersLeave, OwnersGone, OwnersHear DEF Attach
<1>3. CASE Receive \/ Sync \/ UNCHANGED tableVars
  <2>1. UNCHANGED <<table, att>>
    <3>1. CASE Receive  BY <3>1 DEF Receive, Gossip
    <3>2. CASE Sync  BY <3>2, SyncFrame
    <3>3. CASE UNCHANGED tableVars  BY <3>3 DEF tableVars
    <3> QED  BY <1>3, <3>1, <3>2, <3>3
  <2> QED  BY <2>1, OwnersFrame
<1>4. CASE Handle
  <2>1. ASSUME NEW y \in Node, NEW h \in Handler, Notify(y, h) PROVE OwnersInNetwork'
    BY <2>1, OwnersFrame DEF Notify
  <2> QED  BY <1>4, <2>1, OwnersApply DEF Handle
<1>5. CASE Reap  BY <1>5, OwnersReap DEF Reap
<1> QED  BY <1>1, <1>2, <1>3, <1>4, <1>5 DEF Next

(***************************************************************************)
(* A live entry belongs to a node of the network, whatever the order in    *)
(* which a node hears of leaves, failures and entries, as long as the      *)
(* attachments a handler has checked are still there when it applies the   *)
(* event: the gap between its two locks is the only way to the entries of  *)
(* nodes that have left.                                                   *)
(***************************************************************************)
THEOREM OwnersStayInNetwork == Spec /\ []ChecksHold => []OwnersInNetwork
<1>1. Init => OwnersInNetwork  BY DEF Init, OwnersInNetwork, NoEntry, Live
<1>2. TypeOK /\ ChecksHold /\ OwnersInNetwork /\ [Next]_tableVars => OwnersInNetwork'
  BY OwnersStep
<1> QED  BY <1>1, <1>2, TablesTypeCorrect, PTL DEF Spec

(***************************************************************************)
(* The counter.  A local attachment that was reaped starts to count at     *)
(* zero again, so the table must be empty by then: an attachment outlives  *)
(* the tombstones that the leave made, and those that were there before.   *)
(***************************************************************************)
Counted(x) ==
    /\ Attached(x) => entriesNumber[x] = Cardinality(Present(table[x]))
    /\ ~Attached(x) => entriesNumber[x] = 0 /\ Present(table[x]) = {}

Outlived(x) ==
    Leaving(att[x][x]) =>
        \A k \in Key : table[x][k].present =>
            table[x][k].deleting /\ table[x][k].reap <= att[x][x].reap + 1

\* The local attachment has the time of the last join or leave, or was reaped.
OwnEpoch(x) ==
    att[x][x].epoch = epoch[x] \/ (att[x][x].epoch = 0 /\ epoch[x] % 2 = 0)

CountInv == \A x \in Node : Counted(x) /\ Outlived(x) /\ OwnEpoch(x)

\* What leaves the attachment, the table and the counter of x alone.
LEMMA CountFrame ==
    ASSUME CountInv, NEW x \in Node, att'[x][x] = att[x][x], table'[x] = table[x],
           entriesNumber'[x] = entriesNumber[x], epoch'[x] = epoch[x]
    PROVE  Counted(x)' /\ Outlived(x)' /\ OwnEpoch(x)'
BY DEF CountInv, Counted, Outlived, OwnEpoch, Attached, Present

\* A change of the table of x is counted.
LEMMA CountSet ==
    ASSUME TypeOK, CountInv, NEW x \in Node, NEW t, SetTable(x, t),
           (att'[x][x].epoch # 0) <=> Attached(x), ~Attached(x) => Present(t) = {}
    PROVE  /\ Counted(x)' /\ table'[x] = t
           /\ \A y \in Node : y # x => /\ table'[y] = table[y]
                                       /\ entriesNumber'[y] = entriesNumber[y]
<1>1. table'[x] = t /\ \A y \in Node : y # x => table'[y] = table[y]
  BY Rewritten, Zenon DEF SetTable
<1>2. PICK n \in Nat : n = Cardinality(Present(t))  BY CountType
<1>3. PICK o \in Nat : o = Cardinality(Present(table[x]))  BY CountType
<1>4. entriesNumber' = [entriesNumber EXCEPT ![x] = IF Attached(x) THEN @ + n - o ELSE @]
  BY <1>2, <1>3 DEF SetTable
<1>5. entriesNumber \in [Node -> Int]  BY DEF TypeOK
<1>6. \A y \in Node : y # x => entriesNumber'[y] = entriesNumber[y]  BY <1>4, <1>5
<1>7. entriesNumber'[x] = IF Attached(x) THEN entriesNumber[x] + n - o ELSE entriesNumber[x]
  BY <1>4, <1>5
<1>8. CASE Attached(x)
  <2>1. entriesNumber[x] = o  BY <1>3, <1>8 DEF CountInv, Counted
  <2>2. entriesNumber'[x] = n  BY <1>7, <1>8, <2>1
  <2>3. Counted(x)'  BY <1>1, <1>2, <1>8, <2>2 DEF Counted, Attached, Present
  <2> QED  BY <1>1, <1>6, <2>3
<1>9. CASE ~Attached(x)
  <2>1. entriesNumber'[x] = 0  BY <1>7, <1>9 DEF CountInv, Counted
  <2>2. Counted(x)'  BY <1>1, <1>9, <2>1 DEF Counted, Attached, Present
  <2> QED  BY <1>1, <1>6, <2>2
<1> QED  BY <1>8, <1>9

\* While its node is in the network, an attachment is not being left.
LEMMA InNotLeaving ==
    ASSUME TypeOK, NEW x \in Node, In(x, x)
    PROVE  Attached(x) /\ ~Leaving(att[x][x])
<1>1. 0 % 2 = 0  OBVIOUS
<1> QED  BY <1>1 DEF In, Attached, Leaving

LEMMA CountInside ==
    ASSUME TypeOK, CountInv, NEW x \in Node, NEW t, In(x, x), SetTable(x, t),
           UNCHANGED <<att, epoch>>
    PROVE  CountInv'
<1>1. Attached(x) /\ ~Leaving(att[x][x])  BY InNotLeaving
<1>2. /\ Counted(x)' /\ table'[x] = t
      /\ \A y \in Node : y # x => /\ table'[y] = table[y]
                                  /\ entriesNumber'[y] = entriesNumber[y]
  BY <1>1, CountSet DEF Attached
<1> SUFFICES ASSUME NEW y \in Node PROVE Counted(y)' /\ Outlived(y)' /\ OwnEpoch(y)'
  BY DEF CountInv
<1>3. CASE y = x
  <2>1. Outlived(x)'  BY <1>1 DEF Outlived
  <2>2. OwnEpoch(x)'  BY DEF CountInv, OwnEpoch
  <2> QED  BY <1>2, <1>3, <2>1, <2>2
<1>4. CASE y # x  BY <1>2, <1>4, CountFrame
<1> QED  BY <1>3, <1>4

LEMMA CountOperate ==
    ASSUME TypeOK, CountInv, NEW x \in Node, NEW k \in Key,
           CreateEntry(x, k) \/ UpdateEntry(x, k) \/ DeleteEntry(x, k)
    PROVE  CountInv'
<1>1. PICK e \in Entry :
         /\ e.present /\ e.node = x /\ x \in Writer[k] /\ In(x, x)
         /\ LocalOperation(x, k, e)
         /\ table' = [table EXCEPT ![x] = [table[x] EXCEPT ![k] = e]]
         /\ UNCHANGED <<epoch, att, conn, handlers, view>>
  BY OperateEntries
<1>2. SetTable(x, [table[x] EXCEPT ![k] = e])  BY <1>1 DEF LocalOperation
<1> QED  BY <1>1, <1>2, CountInside, Zenon

LEMMA CountApply ==
    ASSUME TypeOK, ChecksHold, CountInv, NEW y \in Node, NEW h \in Handler, Apply(y, h)
    PROVE  CountInv'
<1>1. PICK ev \in TableEvent :
         /\ handlers[y][h].pc = "apply" /\ handlers[y][h].ev = ev
         /\ \/ UNCHANGED <<table, entriesNumber>>
            \/ /\ SetTable(y, [table[y] EXCEPT ![ev.key] = EntryOf(ev)])
               /\ table' = [table EXCEPT ![y] = [table[y] EXCEPT ![ev.key] = EntryOf(ev)]]
         /\ UNCHANGED <<epoch, att, inSync, view>>
  BY ApplyEntries, Zenon
<1>2. In(y, y) /\ UNCHANGED <<epoch, att>>  BY <1>1 DEF ChecksHold
<1>3. CASE UNCHANGED <<table, entriesNumber>>
  BY <1>2, <1>3, CountFrame DEF CountInv
<1>4. CASE SetTable(y, [table[y] EXCEPT ![ev.key] = EntryOf(ev)])
  BY <1>2, <1>4, CountInside, Zenon
<1> QED  BY <1>1, <1>3, <1>4, Zenon

LEMMA CountJoin ==
    ASSUME TypeOK, CountInv, NEW x \in Node, JoinNetwork(x)
    PROVE  CountInv'
<1>1. /\ ~In(x, x) /\ epoch' = [epoch EXCEPT ![x] = @ + 1]
      /\ att' = [att EXCEPT ![x][x] = [epoch |-> epoch[x] + 1, reap |-> 0]]
      /\ UNCHANGED <<entriesNumber, table>>
  BY DEF JoinNetwork
<1>2. /\ att'[x][x] = [epoch |-> epoch[x] + 1, reap |-> 0]
      /\ \A w \in Node, z \in Node : ~(w = x /\ z = x) => att'[w][z] = att[w][z]
  BY <1>1 DEF TypeOK
<1>3. epoch[x] \in Nat /\ epoch'[x] = epoch[x] + 1
      /\ \A w \in Node : w # x => epoch'[w] = epoch[w]
  BY <1>1, TablesAssumption DEF TypeOK
<1>4. att'[x][x].epoch = epoch[x] + 1  BY <1>2
<1>5. epoch[x] % 2 = 0
  BY <1>1, <1>3 DEF CountInv, OwnEpoch, In
<1>6. (epoch[x] + 1) % 2 = 1 /\ epoch[x] + 1 # 0  BY <1>3, <1>5
<1> SUFFICES ASSUME NEW y \in Node PROVE Counted(y)' /\ Outlived(y)' /\ OwnEpoch(y)'
  BY DEF CountInv
<1>7. CASE y = x
  <2>1. entriesNumber[x] = Cardinality(Present(table[x]))
    BY FS_EmptySet DEF CountInv, Counted
  <2>2. Counted(x)'  BY <1>1, <1>4, <1>6, <2>1 DEF Counted, Attached, Present
  <2>3. Outlived(x)' /\ OwnEpoch(x)'  BY <1>3, <1>4, <1>6 DEF Outlived, Leaving, OwnEpoch
  <2> QED  BY <1>7, <2>2, <2>3
<1>8. CASE y # x  BY <1>1, <1>2, <1>3, <1>8, CountFrame
<1> QED  BY <1>7, <1>8

LEMMA CountLeave ==
    ASSUME TypeOK, CountInv, NEW x \in Node, LeaveNetwork(x)
    PROVE  CountInv'
<1> DEFINE t == [k \in Key |-> LeftEntry(x, table[x][k])]
<1>1. /\ In(x, x) /\ epoch' = [epoch EXCEPT ![x] = @ + 1] /\ SetTable(x, t)
      /\ att' = [att EXCEPT ![x][x] = [epoch |-> epoch[x] + 1, reap |-> NetworkReap]]
  BY DEF LeaveNetwork
<1>2. /\ att'[x][x] = [epoch |-> epoch[x] + 1, reap |-> NetworkReap]
      /\ \A w \in Node, z \in Node : ~(w = x /\ z = x) => att'[w][z] = att[w][z]
  BY <1>1 DEF TypeOK
<1>3. epoch[x] \in Nat /\ epoch'[x] = epoch[x] + 1
      /\ \A w \in Node : w # x => epoch'[w] = epoch[w]
  BY <1>1, TablesAssumption DEF TypeOK
<1>4. att'[x][x].epoch = epoch[x] + 1 /\ att'[x][x].reap = NetworkReap  BY <1>2
<1>5. Attached(x)  BY <1>1, InNotLeaving
<1>6. \A k \in Key : t[k].present => t[k].deleting /\ t[k].reap <= NetworkReap + 1
  <2> SUFFICES ASSUME NEW k \in Key, t[k].present
               PROVE  t[k].deleting /\ t[k].reap <= NetworkReap + 1
    OBVIOUS
  <2>1. PICK e \in Entry : e = table[x][k]  BY DEF TypeOK
  <2>2. t[k] = LeftEntry(x, e)  BY <2>1
  <2>3. e.reap <= NetworkReap + 1 /\ EntryReap <= NetworkReap + 1 /\ e.deleting \in BOOLEAN
    BY TablesAssumption DEF Entry
  <2>4. \/ t[k] = Tombstone(e.ltime + 1, x) \/ t[k] = NoEntry(x)
        \/ t[k] = e /\ ~(e.present /\ ~e.deleting)
    BY <2>2, <2>3 DEF LeftEntry
  <2>5. CASE t[k] = Tombstone(e.ltime + 1, x)
    <3>1. Tombstone(e.ltime + 1, x).deleting /\ Tombstone(e.ltime + 1, x).reap = EntryReap
      BY DEF Tombstone
    <3> QED  BY <2>3, <2>5, <3>1
  <2>6. CASE t[k] = NoEntry(x)
    <3>1. ~NoEntry(x).present  BY DEF NoEntry
    <3> QED  BY <2>6, <3>1
  <2> QED  BY <2>3, <2>4, <2>5, <2>6
<1> HIDE DEF t
<1>7. /\ Counted(x)' /\ table'[x] = t
      /\ \A y \in Node : y # x => /\ table'[y] = table[y]
                                  /\ entriesNumber'[y] = entriesNumber[y]
  BY <1>1, <1>3, <1>4, <1>5, CountSet
<1> SUFFICES ASSUME NEW y \in Node PROVE Counted(y)' /\ Outlived(y)' /\ OwnEpoch(y)'
  BY DEF CountInv
<1>8. CASE y = x
  <2>1. Outlived(x)' /\ OwnEpoch(x)'  BY <1>3, <1>4, <1>6, <1>7 DEF Outlived, OwnEpoch
  <2> QED  BY <1>7, <1>8, <2>1
<1>9. CASE y # x  BY <1>2, <1>3, <1>7, <1>9, CountFrame
<1> QED  BY <1>8, <1>9

\* What x hears of y, or the failure of y, is not about the attachment of x.
LEMMA CountOther ==
    ASSUME TypeOK, CountInv, NEW x \in Node, NEW y \in Node, x # y, NEW r, NEW t,
           att' = [att EXCEPT ![x][y] = r], UNCHANGED epoch, SetTable(x, t),
           Present(t) \subseteq Present(table[x]),
           Leaving(att[x][x]) => \A k \in Key : t[k].present => t[k] = table[x][k]
    PROVE  CountInv'
<1>1. \A w \in Node : att'[w][w] = att[w][w]  BY DEF TypeOK
<1>2. /\ Counted(x)' /\ table'[x] = t
      /\ \A z \in Node : z # x => /\ table'[z] = table[z]
                                  /\ entriesNumber'[z] = entriesNumber[z]
  <2>1. (att'[x][x].epoch # 0) <=> Attached(x)  BY <1>1 DEF Attached
  <2>2. ~Attached(x) => Present(t) = {}  BY DEF CountInv, Counted
  <2> QED  BY <2>1, <2>2, CountSet
<1> SUFFICES ASSUME NEW z \in Node PROVE Counted(z)' /\ Outlived(z)' /\ OwnEpoch(z)'
  BY DEF CountInv
<1>3. CASE z = x
  <2>1. Outlived(x)'
    <3> SUFFICES ASSUME Leaving(att[x][x]), NEW k \in Key, t[k].present
                 PROVE  t[k].deleting /\ t[k].reap <= att[x][x].reap + 1
      BY <1>1, <1>2 DEF Outlived
    <3> QED  BY DEF CountInv, Outlived
  <2>2. OwnEpoch(x)'  BY <1>1 DEF CountInv, OwnEpoch
  <2> QED  BY <1>2, <1>3, <2>1, <2>2
<1>4. CASE z # x  BY <1>1, <1>2, <1>4, CountFrame
<1> QED  BY <1>3, <1>4

LEMMA CountHear ==
    ASSUME TypeOK, CountInv, NEW x \in Node, NEW y \in Node, NEW e \in 1..MaxEpoch,
           HearLeave(x, y, e)
    PROVE  CountInv'
<1> DEFINE t == [k \in Key |-> IF k \in LiveKeys(x, y)
                               THEN Tombstone(table[x][k].ltime, y) ELSE table[x][k]]
<1>1. /\ x # y /\ UNCHANGED epoch /\ SetTable(x, t)
      /\ att' = [att EXCEPT ![x][y] = [epoch |-> e, reap |-> NetworkReap]]
  BY DEF HearLeave
<1>2. Present(t) \subseteq Present(table[x])  BY DEF Present, LiveKeys, Live
<1>3. Leaving(att[x][x]) => LiveKeys(x, y) = {}
  BY DEF CountInv, Outlived, LiveKeys, Live
<1>4. Leaving(att[x][x]) => \A k \in Key : t[k].present => t[k] = table[x][k]
  BY <1>3
<1> HIDE DEF t
<1> QED  BY <1>1, <1>2, <1>4, CountOther, Zenon

LEMMA CountGone ==
    ASSUME TypeOK, CountInv, NEW x \in Node, NEW y \in Node, NodeGone(x, y)
    PROVE  CountInv'
<1> DEFINE t == [k \in Key |-> IF table[x][k].node = y THEN NoEntry(x) ELSE table[x][k]]
<1>1. /\ x # y /\ UNCHANGED epoch /\ SetTable(x, t)
      /\ att' = [att EXCEPT ![x][y] = NoAttachment]
  BY DEF NodeGone
<1>2. \A k \in Key : t[k].present => t[k] = table[x][k]  BY DEF NoEntry
<1> HIDE DEF t
<1>3. Present(t) \subseteq Present(table[x])  BY <1>2 DEF Present
<1> QED  BY <1>1, <1>2, <1>3, CountOther, Zenon

\* An attachment that is reaped has outlived its entries.
LEMMA CountReap ==
    ASSUME TypeOK, CountInv, NEW x \in Node, ReapState(x)
    PROVE  CountInv'
<1> DEFINE t == IF Attached(x) THEN [k \in Key |-> ReapedEntry(x, table[x][k])] ELSE table[x]
           r == att[x][x]
<1>1. att' = [att EXCEPT ![x] = [y \in Node |-> ReapedAttachment(att[x][y])]]
  BY DEF ReapState
<1>2. att'[x][x] = ReapedAttachment(r) /\ \A w \in Node : w # x => att'[w] = att[w]
  BY <1>1 DEF TypeOK
<1>3. table'[x] = t /\ \A w \in Node : w # x => table'[w] = table[w]
  BY DEF ReapState, TypeOK
<1>4. UNCHANGED epoch  BY DEF ReapState
<1>5. PICK n \in Nat : n = Cardinality(Present(t))  BY CountType
<1>6. PICK o \in Nat : o = Cardinality(Present(table[x]))  BY CountType
<1>7. /\ entriesNumber'[x] = IF Leaving(r) /\ r.reap <= 0 THEN 0 ELSE entriesNumber[x] + n - o
      /\ \A w \in Node : w # x => entriesNumber'[w] = entriesNumber[w]
  <2>1. entriesNumber' = [entriesNumber EXCEPT ![x] =
           IF Leaving(r) /\ r.reap <= 0 THEN 0
           ELSE @ + Cardinality(Present(table'[x])) - Cardinality(Present(table[x]))]
    BY DEF ReapState
  <2>2. entriesNumber' = [entriesNumber EXCEPT ![x] =
           IF Leaving(r) /\ r.reap <= 0 THEN 0 ELSE @ + n - o]
    BY <1>3, <1>5, <1>6, <2>1
  <2> QED  BY <2>2 DEF TypeOK
<1>8. r \in Attachment  BY DEF TypeOK
<1>9. r.reap \in Nat /\ r.epoch \in Nat  BY <1>8, TablesAssumption DEF Attachment
<1>10. ASSUME Attached(x), NEW k \in Key
       PROVE  /\ t[k].present => table[x][k].present
              /\ t[k].present /\ table[x][k].deleting
                   => t[k].deleting /\ table[x][k].reap > 1 /\ t[k].reap = table[x][k].reap - 1
  <2>1. PICK e \in Entry : e = table[x][k]  BY DEF TypeOK
  <2>2. t[k] = ReapedEntry(x, e)  BY <1>10, <2>1, Zenon
  <2>3. e.reap \in Nat /\ e.deleting \in BOOLEAN  BY TablesAssumption DEF Entry
  <2>4. CASE e.deleting /\ e.reap > 1
    <3>1. t[k] = [e EXCEPT !.reap = @ - 1]  BY <2>2, <2>3, <2>4 DEF ReapedEntry
    <3>2. t[k].present = e.present /\ t[k].deleting = e.deleting /\ t[k].reap = e.reap - 1
      BY <3>1 DEF Entry
    <3> QED  BY <2>1, <2>4, <3>2, Zenon
  <2>5. CASE e.deleting /\ e.reap <= 1
    <3>1. t[k] = NoEntry(x)  BY <2>2, <2>3, <2>5 DEF ReapedEntry
    <3> QED  BY <3>1 DEF NoEntry
  <2>6. CASE ~e.deleting
    <3>1. t[k] = e  BY <2>2, <2>6 DEF ReapedEntry
    <3> QED  BY <2>1, <2>6, <3>1
  <2>7. \/ e.deleting /\ e.reap > 1
        \/ e.deleting /\ e.reap <= 1
        \/ ~e.deleting
    BY <2>3
  <2> HIDE DEF t
  <2> QED  BY <2>4, <2>5, <2>6, <2>7, Zenon
<1>11. ~Attached(x) => t = table[x]  OBVIOUS
<1> HIDE DEF t
<1> SUFFICES ASSUME NEW y \in Node PROVE Counted(y)' /\ Outlived(y)' /\ OwnEpoch(y)'
  BY DEF CountInv
<1>12. CASE y # x  BY <1>2, <1>3, <1>4, <1>7, <1>12, CountFrame
<1>13. CASE y = x /\ ~Leaving(r)
  <2>1. att'[x][x] = r  BY <1>2, <1>13 DEF ReapedAttachment
  <2>2. Outlived(x)' /\ OwnEpoch(x)'  BY <1>4, <1>13, <2>1 DEF CountInv, Outlived, OwnEpoch
  <2>3. CASE Attached(x)
    <3>1. entriesNumber[x] = o  BY <1>6, <2>3 DEF CountInv, Counted
    <3>2. entriesNumber'[x] = n  BY <1>7, <1>13, <3>1
    <3> QED  BY <1>3, <1>5, <1>13, <2>1, <2>2, <2>3, <3>2 DEF Counted, Attached, Present
  <2>4. CASE ~Attached(x)
    <3>1. n = o /\ entriesNumber[x] = 0  BY <1>5, <1>6, <1>11, <2>4 DEF CountInv, Counted
    <3>2. entriesNumber'[x] = entriesNumber[x]  BY <1>7, <1>13, <3>1
    <3> QED  BY <1>3, <1>4, <1>11, <1>13, <2>1, <2>4, <3>2, CountFrame, Zenon
  <2> QED  BY <2>3, <2>4
<1>14. CASE y = x /\ Leaving(r) /\ r.reap <= 0
  <2>1. Attached(x) /\ att'[x][x] = NoAttachment
    BY <1>2, <1>9, <1>14 DEF ReapedAttachment, Attached, Leaving
  <2>2. att'[x][x].epoch = 0 /\ r.reap = 0  BY <1>9, <1>14, <2>1 DEF NoAttachment
  <2>3. Present(t) = {}
    <3> SUFFICES ASSUME NEW k \in Key, t[k].present PROVE FALSE
      BY DEF Present
    <3>1. table[x][k].present  BY <1>10, <2>1, Zenon
    <3>2. Outlived(x)  BY Zenon DEF CountInv
    <3>3. table[x][k].deleting /\ table[x][k].reap <= r.reap + 1
      BY <1>14, <3>1, <3>2, Zenon DEF Outlived
    <3>4. table[x][k].deleting /\ table[x][k].reap <= 1  BY <2>2, <3>3
    <3>5. table[x][k].reap \in Int  BY DEF TypeOK, Entry
    <3> QED  BY <1>10, <2>1, <3>4, <3>5
  <2>4. Counted(x)'  BY <1>3, <1>7, <1>14, <2>2, <2>3, Zenon DEF Counted, Attached, Present
  <2>5. Outlived(x)'  BY <2>2 DEF Outlived, Leaving
  <2>6. OwnEpoch(x)'
    BY <1>4, <1>14, <2>1, <2>2 DEF CountInv, OwnEpoch, Attached, Leaving
  <2> QED  BY <1>14, <2>4, <2>5, <2>6
<1>15. CASE y = x /\ Leaving(r) /\ ~(r.reap <= 0)
  <2>1. Attached(x) /\ att'[x][x] = [r EXCEPT !.reap = @ - 1]
    BY <1>2, <1>9, <1>15 DEF ReapedAttachment, Attached, Leaving
  <2>2. att'[x][x].epoch = r.epoch /\ att'[x][x].reap = r.reap - 1
    BY <1>8, <2>1 DEF Attachment
  <2>3. entriesNumber[x] = o  BY <1>6, <2>1 DEF CountInv, Counted
  <2>4. entriesNumber'[x] = n  BY <1>7, <1>15, <2>3
  <2>5. Counted(x)'  BY <1>3, <1>5, <2>1, <2>2, <2>4 DEF Counted, Attached, Present
  <2>6. Outlived(x)'
    <3> SUFFICES ASSUME NEW k \in Key, t[k].present
                 PROVE  t[k].deleting /\ t[k].reap <= (r.reap - 1) + 1
      BY <1>3, <2>2 DEF Outlived
    <3>1. table[x][k].deleting /\ table[x][k].reap <= r.reap + 1
      BY <1>10, <1>15, <2>1 DEF CountInv, Outlived
    <3>2. table[x][k].reap \in Int  BY DEF TypeOK, Entry
    <3>3. t[k].deleting /\ t[k].reap = table[x][k].reap - 1  BY <1>10, <2>1, <3>1
    <3> QED  BY <1>9, <3>1, <3>2, <3>3
  <2>7. OwnEpoch(x)'  BY <1>4, <2>2 DEF CountInv, OwnEpoch
  <2> QED  BY <1>15, <2>5, <2>6, <2>7
<1> QED  BY <1>12, <1>13, <1>14, <1>15

LEMMA CountInvStep ==
    ASSUME TypeOK, ChecksHold, CountInv, [Next]_tableVars
    PROVE  CountInv'
<1>1. CASE Operate  BY <1>1, CountOperate DEF Operate
<1>2. ASSUME UNCHANGED <<table, entriesNumber, epoch>>, \A x \in Node : att'[x][x] = att[x][x]
      PROVE  CountInv'
  BY <1>2, CountFrame DEF CountInv
<1>3. CASE Attach
  <2>1. ASSUME NEW x \in Node, JoinNetworkSynced(x) PROVE CountInv'
    BY <1>2, <2>1 DEF JoinNetworkSynced
  <2>2. ASSUME NEW x \in Node, NEW y \in Node, NEW e \in 1..MaxEpoch, HearJoin(x, y, e)
        PROVE  CountInv'
    <3>1. \A w \in Node : att'[w][w] = att[w][w]  BY <2>2 DEF HearJoin, TypeOK
    <3> QED  BY <1>2, <2>2, <3>1 DEF HearJoin
  <2> QED  BY <1>3, <2>1, <2>2, CountJoin, CountLeave, CountGone, CountHear DEF Attach
<1>4. CASE Receive  BY <1>2, <1>4 DEF Receive, Gossip
<1>5. CASE Sync  BY <1>2, <1>5, SyncFrame
<1>6. CASE Handle
  <2>1. ASSUME NEW y \in Node, NEW h \in Handler, Notify(y, h) PROVE CountInv'
    BY <1>2, <2>1 DEF Notify
  <2> QED  BY <1>6, <2>1, CountApply DEF Handle
<1>7. CASE Reap  BY <1>7, CountReap DEF Reap
<1>8. CASE UNCHANGED tableVars  BY <1>2, <1>8 DEF tableVars
<1> QED  BY <1>1, <1>3, <1>4, <1>5, <1>6, <1>7, <1>8 DEF Next

(***************************************************************************)
(* entriesNumber of the local attachment is the number of entries, after   *)
(* any number of leaves, joins and runs of the reaper, as long as the      *)
(* attachments a handler has checked are still there when it applies the   *)
(* event.                                                                  *)
(***************************************************************************)
THEOREM EntriesAlwaysCounted == Spec /\ []ChecksHold => []EntriesCounted
<1>1. Init => CountInv
  BY FS_EmptySet DEF Init, CountInv, Counted, Outlived, OwnEpoch, Attached, Leaving, Present,
                     NoAttachment, NoEntry
<1>2. TypeOK /\ ChecksHold /\ CountInv /\ [Next]_tableVars => CountInv'
  BY CountInvStep
<1>3. CountInv => EntriesCounted  BY DEF CountInv, Counted, EntriesCounted
<1> QED  BY <1>1, <1>2, <1>3, TablesTypeCorrect, PTL DEF Spec

(***************************************************************************)
(* The watchers.  A key is shown or not as its watchers believe, or one of *)
(* the handlers is about to tell them.  Local operations are not told, so  *)
(* a key must belong to one node (here the keys are the IDs of endpoints): *)
(* an update of the live entry of another node would take it from Shown    *)
(* without a word.                                                         *)
(***************************************************************************)
OneWriter == \A k \in Key : \A x, y \in Writer[k] : x = y

\* Every copy of an entry belongs to a writer of its key.
Written(k, e) == e.node \in Writer[k]

TablesWritten == \A x \in Node, k \in Key : table[x][k].present => Written(k, table[x][k])
QueuesWritten == \A x \in Node : \A ev \in tableQ[x] : Written(ev.key, ev)
ConnsWritten ==
    \A x \in Node, c \in Conn : \A m \in conn[x][c] : \A ev \in m.events : Written(ev.key, ev)
\* What is handled is not of the node that handles it.
HandlersWritten ==
    \A x \in Node, h \in Handler :
        handlers[x][h].pc # "idle" =>
            Written(handlers[x][h].ev.key, handlers[x][h].ev) /\ handlers[x][h].ev.node # x

AllWritten == TablesWritten /\ QueuesWritten /\ ConnsWritten /\ HandlersWritten

Telling(x, h, k) == handlers[x][h].pc = "notify" /\ handlers[x][h].ev.key = k

ViewAgrees(x, k) ==
    (k \in view[x] <=> k \in Shown(x)) \/ \E h \in Handler : Telling(x, h, k)

ViewsAgree == \A x \in Node, k \in Key : ViewAgrees(x, k)

\* What the handlers are about to tell is kept.
TellingKept ==
    \A x \in Node, h \in Handler :
        handlers[x][h].pc = "notify" => handlers'[x][h] = handlers[x][h]

\* The steps of a table that keep the owners of its entries.
LEMMA WrittenFrame ==
    ASSUME TypeOK, AllWritten, NEW x \in Node, NEW t, table' = [table EXCEPT ![x] = t],
           \A k \in Key : t[k].present =>
               (table[x][k].present /\ t[k].node = table[x][k].node) \/ Written(k, t[k])
    PROVE  TablesWritten'
<1>1. table'[x] = t /\ \A y \in Node : y # x => table'[y] = table[y]
  BY Rewritten, Zenon
<1> SUFFICES ASSUME NEW y \in Node, NEW k \in Key, table'[y][k].present
             PROVE  Written(k, table'[y][k])
  BY DEF TablesWritten, Written
<1> QED  BY <1>1 DEF AllWritten, TablesWritten, Written

LEMMA WrittenSame ==
    ASSUME TypeOK, AllWritten, NEW x \in Node, \A y \in Node : y # x => table'[y] = table[y],
           \A k \in Key : table'[x][k].present =>
               table[x][k].present /\ table'[x][k].node = table[x][k].node
    PROVE  TablesWritten'
<1> SUFFICES ASSUME NEW y \in Node, NEW k \in Key, table'[y][k].present
             PROVE  Written(k, table'[y][k])
  BY DEF TablesWritten, Written
<1>1. CASE y = x  BY <1>1 DEF AllWritten, TablesWritten, Written
<1>2. CASE y # x  BY <1>2 DEF AllWritten, TablesWritten, Written
<1> QED  BY <1>1, <1>2

LEMMA WrittenOperate ==
    ASSUME TypeOK, AllWritten, NEW x \in Node, NEW k \in Key,
           CreateEntry(x, k) \/ UpdateEntry(x, k) \/ DeleteEntry(x, k)
    PROVE  AllWritten'
<1>1. PICK e \in Entry :
         /\ e.present /\ e.node = x /\ x \in Writer[k] /\ In(x, x)
         /\ LocalOperation(x, k, e)
         /\ table' = [table EXCEPT ![x] = [table[x] EXCEPT ![k] = e]]
         /\ UNCHANGED <<epoch, att, conn, handlers, view>>
  BY OperateEntries
<1>2. PICK t : t = [table[x] EXCEPT ![k] = e]  BY Zenon
<1>3. \A j \in Key : t[j] = IF j = k THEN e ELSE table[x][j]  BY <1>2 DEF TypeOK
<1>4. TablesWritten'
  <2>1. table' = [table EXCEPT ![x] = t]  BY <1>1, <1>2
  <2>2. \A j \in Key : t[j].present =>
           (table[x][j].present /\ t[j].node = table[x][j].node) \/ Written(j, t[j])
    BY <1>1, <1>3 DEF Written
  <2> QED  BY <2>1, <2>2, WrittenFrame, Zenon
<1>5. QueuesWritten'
  <2>1. PICK ev : ev = EventOf(k, e)  OBVIOUS
  <2>2. tableQ' = [tableQ EXCEPT ![x] = Queued(@, ev)]  BY <1>1, <2>1 DEF LocalOperation
  <2>3. ev.key = k /\ ev.node = x  BY <1>1, <2>1 DEF EventOf
  <2>4. \A y \in Node : tableQ'[y] \subseteq tableQ[y] \cup (IF y = x THEN {ev} ELSE {})
    BY <2>2 DEF TypeOK, Queued
  <2> QED  BY <1>1, <2>3, <2>4 DEF QueuesWritten, Written, AllWritten
<1>6. ConnsWritten' /\ HandlersWritten'
  BY <1>1 DEF AllWritten, ConnsWritten, HandlersWritten, Written
<1> QED  BY <1>4, <1>5, <1>6 DEF AllWritten

\* One handler of one node goes on.
LEMMA HandlerWritten ==
    ASSUME TypeOK, HandlersWritten, NEW y \in Node, NEW h \in Handler, NEW r,
           handlers' = [handlers EXCEPT ![y][h] = r],
           r.pc # "idle" => Written(r.ev.key, r.ev) /\ r.ev.node # y
    PROVE  HandlersWritten'
<1>1. /\ handlers'[y][h] = r
      /\ \A x \in Node, g \in Handler :
            ~(x = y /\ g = h) => handlers'[x][g] = handlers[x][g]
  BY DEF TypeOK
<1> QED  BY <1>1 DEF HandlersWritten, Written

LEMMA CheckWritten ==
    ASSUME TypeOK, HandlersWritten, NEW y \in Node, NEW h \in Handler, NEW ev, Check(y, h, ev),
           Written(ev.key, ev), ev.node # y
    PROVE  HandlersWritten'
<1>1. PICK r : r = IF In(y, y) /\ ev.node \in NetworkNodes(y)
                   THEN Handling("apply", ev, inSync[y]) ELSE Idle
  OBVIOUS
<1>2. handlers' = [handlers EXCEPT ![y][h] = r]  BY <1>1, Zenon DEF Check
<1>3. r.pc # "idle" => r.ev = ev  BY <1>1 DEF Handling, Idle
<1> QED  BY <1>2, <1>3, HandlerWritten, Zenon

\* The attachments, the reaper.
LEMMA WrittenAttach ==
    ASSUME TypeOK, AllWritten, Attach \/ Reap
    PROVE  AllWritten'
<1>1. UNCHANGED <<conn, handlers>> /\ \A x \in Node : tableQ'[x] \subseteq tableQ[x]
  <2>1. CASE Attach
    <3>1. ASSUME NEW x \in Node, JoinNetwork(x) \/ JoinNetworkSynced(x) \/ LeaveNetwork(x)
          PROVE  UNCHANGED <<conn, handlers>> /\ \A z \in Node : tableQ'[z] \subseteq tableQ[z]
      BY <3>1, Zenon DEF JoinNetwork, JoinNetworkSynced, LeaveNetwork, TypeOK
    <3>2. ASSUME NEW x \in Node, NEW y \in Node, NEW e \in 1..MaxEpoch,
                 HearJoin(x, y, e) \/ HearLeave(x, y, e)
          PROVE  UNCHANGED <<conn, handlers, tableQ>>
      BY <3>2 DEF HearJoin, HearLeave
    <3>3. ASSUME NEW x \in Node, NEW y \in Node, NodeGone(x, y)
          PROVE  UNCHANGED <<conn, handlers, tableQ>>
      BY <3>3 DEF NodeGone
    <3> QED  BY <2>1, <3>1, <3>2, <3>3, Zenon DEF Attach
  <2>2. CASE Reap
    <3>1. PICK x \in Node : ReapState(x)  BY <2>2 DEF Reap
    <3>2. UNCHANGED <<conn, handlers>>  BY <3>1, Zenon DEF ReapState
    <3>3. \E q : tableQ' = [tableQ EXCEPT ![x] = q] /\ (q = {} \/ q = tableQ[x])
      BY <3>1, Zenon DEF ReapState
    <3> QED  BY <3>2, <3>3 DEF TypeOK
  <2> QED  BY <2>1, <2>2
<1>2. QueuesWritten' /\ ConnsWritten' /\ HandlersWritten'
  BY <1>1, Zenon DEF AllWritten, QueuesWritten, ConnsWritten, HandlersWritten, Written
<1>3. UNCHANGED table => TablesWritten'  BY DEF AllWritten, TablesWritten, Written
<1>4. ASSUME NEW x \in Node, LeaveNetwork(x) PROVE TablesWritten'
  <2>1. table' = [table EXCEPT ![x] = [k \in Key |-> LeftEntry(x, table[x][k])]]
    BY <1>4 DEF LeaveNetwork, SetTable
  <2>2. /\ \A y \in Node : y # x => table'[y] = table[y]
        /\ \A k \in Key : table'[x][k] = LeftEntry(x, table[x][k])
    BY <2>1 DEF TypeOK
  <2>3. ASSUME NEW k \in Key, table'[x][k].present
        PROVE  table[x][k].present /\ table'[x][k].node = table[x][k].node
    <3>1. LeftEntry(x, table[x][k]).present =>
             table[x][k].present /\ LeftEntry(x, table[x][k]).node = table[x][k].node
      <4> DEFINE e == table[x][k]
      <4>1. CASE e.present /\ e.node = x /\ ~e.deleting
        BY <4>1 DEF LeftEntry, Tombstone
      <4>2. CASE e.present /\ e.node # x  BY <4>2 DEF LeftEntry, NoEntry
      <4>3. CASE ~(e.present /\ e.node = x /\ ~e.deleting) /\ ~(e.present /\ e.node # x)
        BY <4>3 DEF LeftEntry, Entry, TypeOK
      <4> QED  BY <4>1, <4>2, <4>3
    <3> QED  BY <2>2, <2>3, <3>1, Zenon
  <2> QED  BY <2>2, <2>3, WrittenSame
<1>5. ASSUME NEW x \in Node, NEW y \in Node, NEW e \in 1..MaxEpoch, HearLeave(x, y, e)
      PROVE  TablesWritten'
  <2>1. table' = [table EXCEPT ![x] = [k \in Key |-> IF k \in LiveKeys(x, y)
                                    THEN Tombstone(table[x][k].ltime, y) ELSE table[x][k]]]
    BY <1>5 DEF HearLeave, SetTable
  <2>2. /\ \A w \in Node : w # x => table'[w] = table[w]
        /\ \A k \in Key : table'[x][k] = IF k \in LiveKeys(x, y)
                                    THEN Tombstone(table[x][k].ltime, y) ELSE table[x][k]
    BY <2>1 DEF TypeOK
  <2>3. ASSUME NEW k \in Key, table'[x][k].present
        PROVE  table[x][k].present /\ table'[x][k].node = table[x][k].node
    <3>1. Tombstone(table[x][k].ltime, y).node = y  BY DEF Tombstone
    <3>2. CASE k \in LiveKeys(x, y)  BY <2>2, <3>1, <3>2 DEF LiveKeys, Live
    <3>3. CASE k \notin LiveKeys(x, y)  BY <2>2, <2>3, <3>3
    <3> QED  BY <3>2, <3>3, Zenon
  <2> QED  BY <2>2, <2>3, WrittenSame
<1>6. ASSUME NEW x \in Node, NEW y \in Node, NodeGone(x, y) PROVE TablesWritten'
  <2>1. table' = [table EXCEPT ![x] =
                     [k \in Key |-> IF table[x][k].node = y THEN NoEntry(x) ELSE table[x][k]]]
    BY <1>6 DEF NodeGone, SetTable
  <2>2. /\ \A w \in Node : w # x => table'[w] = table[w]
        /\ \A k \in Key : table'[x][k] = IF table[x][k].node = y THEN NoEntry(x)
                                         ELSE table[x][k]
    BY <2>1 DEF TypeOK
  <2>3. ASSUME NEW k \in Key, table'[x][k].present
        PROVE  table[x][k].present /\ table'[x][k].node = table[x][k].node
    BY <2>2, <2>3 DEF NoEntry
  <2> QED  BY <2>2, <2>3, WrittenSame
<1>7. ASSUME NEW x \in Node, ReapState(x) PROVE TablesWritten'
  <2>1. \/ UNCHANGED table
        \/ table' = [table EXCEPT ![x] = [k \in Key |-> ReapedEntry(x, table[x][k])]]
    BY <1>7 DEF ReapState
  <2>2. CASE ~UNCHANGED table
    <3>1. /\ \A y \in Node : y # x => table'[y] = table[y]
          /\ \A k \in Key : table'[x][k] = ReapedEntry(x, table[x][k])
      BY <2>1, <2>2 DEF TypeOK
    <3>2. ASSUME NEW k \in Key, table'[x][k].present
          PROVE  table[x][k].present /\ table'[x][k].node = table[x][k].node
      BY <3>1, <3>2, ReapedFacts
    <3> QED  BY <3>1, <3>2, WrittenSame
  <2> QED  BY <1>3, <2>2
<1>8. TablesWritten'
  <2>1. CASE Attach
    BY <1>3, <1>4, <1>5, <1>6, <2>1 DEF Attach, JoinNetwork, JoinNetworkSynced, HearJoin
  <2>2. CASE Reap  BY <1>7, <2>2 DEF Reap
  <2> QED  BY <2>1, <2>2
<1> QED  BY <1>2, <1>8 DEF AllWritten

LEMMA WrittenHandle ==
    ASSUME TypeOK, AllWritten, Handle
    PROVE  AllWritten'
<1> USE DEF AllWritten
<1>1. PICK y \in Node, h \in Handler : Apply(y, h) \/ Notify(y, h)  BY DEF Handle
<1>2. handlers[y][h] \in HandlerState /\ handlers[y][h].pc # "idle"
  <2>1. handlers[y][h].pc # "idle"  BY <1>1, Zenon DEF Apply, Notify
  <2>2. handlers[y][h] \in HandlerState  BY DEF TypeOK
  <2> QED  BY <2>1, <2>2
<1>3. PICK ev \in TableEvent : ev = handlers[y][h].ev
  BY <1>2 DEF HandlerState, Idle
<1>4. Written(ev.key, ev) /\ ev.node # y /\ ev.key \in Key
  BY <1>2, <1>3 DEF HandlersWritten, TableEvent
<1>5. PICK r : handlers' = [handlers EXCEPT ![y][h] = r] /\ (r.pc # "idle" => r.ev = ev)
  <2>1. Idle.pc = "idle" /\ \A q, sy : Handling(q, ev, sy).ev = ev  BY DEF Idle, Handling
  <2>2. \/ handlers' = [handlers EXCEPT ![y][h] = Idle]
        \/ \E q, sy : handlers' = [handlers EXCEPT ![y][h] = Handling(q, ev, sy)]
    BY <1>1, <1>3, Zenon DEF Apply, Notify
  <2> QED  BY <2>1, <2>2
<1>6. HandlersWritten'  BY <1>4, <1>5, HandlerWritten, Zenon
<1>7. TablesWritten'
  <2>1. CASE UNCHANGED table  BY <2>1 DEF TablesWritten, Written
  <2>2. CASE Apply(y, h) /\ ~UNCHANGED table
    <3>1. PICK t : t = [table[y] EXCEPT ![ev.key] = EntryOf(ev)]  BY Zenon
    <3>2. table' = [table EXCEPT ![y] = t]  BY <1>3, <2>2, <3>1, Zenon DEF Apply, SetTable
    <3>3. EntryOf(ev).node = ev.node  BY DEF EntryOf
    <3>4. \A k \in Key : t[k] = IF k = ev.key THEN EntryOf(ev) ELSE table[y][k]
      BY <3>1 DEF TypeOK
    <3>5. \A k \in Key : t[k].present =>
             (table[y][k].present /\ t[k].node = table[y][k].node) \/ Written(k, t[k])
      BY <1>4, <3>3, <3>4, Zenon DEF Written
    <3> QED  BY <3>2, <3>5, WrittenFrame, Zenon
  <2>3. CASE Notify(y, h)  BY <2>1, <2>3 DEF Notify
  <2> QED  BY <1>1, <2>1, <2>2, <2>3
<1>8. QueuesWritten'
  <2>1. \A x \in Node : tableQ'[x] \subseteq tableQ[x] \cup {ev}
    <3>1. CASE Apply(y, h)  BY <3>1, Zenon DEF Apply
    <3>2. CASE Notify(y, h)
      <4>1. UNCHANGED tableQ \/ tableQ' = [tableQ EXCEPT ![y] = Queued(@, ev)]
        BY <1>3, <3>2 DEF Notify
      <4> QED  BY <4>1, Zenon DEF Queued, TypeOK
    <3> QED  BY <1>1, <3>1, <3>2
  <2> QED  BY <1>4, <2>1, Zenon DEF QueuesWritten, Written
<1>9. ConnsWritten'  BY <1>1, Zenon DEF Apply, Notify, ConnsWritten, Written
<1> QED  BY <1>6, <1>7, <1>8, <1>9

LEMMA WrittenReceive ==
    ASSUME TypeOK, AllWritten, Receive
    PROVE  AllWritten'
<1>0. PICK x \in Node, y \in Node : \E ev \in tableQ[x] : Gossip(x, y, ev)  BY DEF Receive
<1>1. PICK ev \in tableQ[x] : Gossip(x, y, ev)  BY <1>0
<1>2. /\ Written(ev.key, ev) /\ ev.node # y /\ Check(y, "udp", ev) /\ "udp" \in Handler
      /\ UNCHANGED <<table, tableQ, conn>>
  BY <1>1, Zenon DEF Gossip, AllWritten, QueuesWritten, Handler
<1>3. HandlersWritten'  BY <1>2, CheckWritten DEF AllWritten
<1>4. TablesWritten' /\ QueuesWritten' /\ ConnsWritten'
  BY <1>2 DEF AllWritten, TablesWritten, QueuesWritten, ConnsWritten, Written
<1> QED  BY <1>3, <1>4 DEF AllWritten

\* The events of a snapshot are the entries of its table.
LEMMA SnapshotWritten ==
    ASSUME AllWritten, NEW x \in Node, NEW ev \in Snapshot(x)
    PROVE  Written(ev.key, ev)
<1>1. PICK k \in Present(table[x]) : ev = EventOf(k, table[x][k])  BY DEF Snapshot
<1>2. k \in Key /\ table[x][k].present  BY <1>1 DEF Present
<1>3. ev.key = k /\ ev.node = table[x][k].node  BY <1>1 DEF EventOf
<1> QED  BY <1>2, <1>3 DEF AllWritten, TablesWritten, Written

\* A connection carries what it carried, and events that are written.
LEMMA ConnWritten ==
    ASSUME AllWritten,
           \A x \in Node, d \in Conn : \A m \in conn'[x][d] :
               m \in conn[x][d] \/ \A ev \in m.events : Written(ev.key, ev)
    PROVE  ConnsWritten'
BY DEF AllWritten, ConnsWritten, Written

LEMMA WrittenSync ==
    ASSUME TypeOK, AllWritten, Sync
    PROVE  AllWritten'
<1>1. UNCHANGED <<table, tableQ>>
  BY SyncFrame
<1>2. TablesWritten' /\ QueuesWritten'
  BY <1>1 DEF AllWritten, TablesWritten, QueuesWritten, Written
<1>3. \A x \in Node, u \in BOOLEAN : \A ev \in Message(x, u).events : Written(ev.key, ev)
  BY SnapshotWritten DEF Message
<1>4. UNCHANGED handlers => HandlersWritten'  BY DEF AllWritten, HandlersWritten, Written
<1>5. ASSUME NEW x \in Node, NEW y \in Node, NEW c \in Conn, BulkSync(x, y, c)
      PROVE  ConnsWritten' /\ HandlersWritten'
  <2>1. PICK n : n = Message(x, TRUE)  BY Zenon
  <2>2. conn' = [conn EXCEPT ![y][c] = {n}] /\ UNCHANGED handlers
    BY <1>5, <2>1 DEF BulkSync
  <2>3. \A z \in Node, d \in Conn : conn'[z][d] = IF z = y /\ d = c THEN {n} ELSE conn[z][d]
    BY <2>2 DEF TypeOK
  <2>4. \A ev \in n.events : Written(ev.key, ev)  BY <1>3, <2>1, Zenon
  <2>5. ConnsWritten'  BY <2>3, <2>4, ConnWritten
  <2> QED  BY <1>4, <2>2, <2>5
<1>6. ASSUME NEW y \in Node, NEW c \in Conn, NEW m \in conn[y][c], HandledBulkSync(y, c, m)
      PROVE  ConnsWritten' /\ HandlersWritten'
  <2>1. UNCHANGED handlers  BY <1>6 DEF HandledBulkSync
  <2>2. \A z \in Node, d \in Conn : conn'[z][d] \subseteq conn[z][d] \cup {Message(y, FALSE)}
    <3>1. CASE conn' = [conn EXCEPT ![y][c] = {}]  BY <3>1, Zenon DEF TypeOK
    <3>2. ASSUME NEW d \in Conn,
                 conn' = [conn EXCEPT ![y][c] = {}, ![m.from][d] = {Message(y, FALSE)}]
          PROVE  \A z \in Node, b \in Conn :
                     conn'[z][b] \subseteq conn[z][b] \cup {Message(y, FALSE)}
      BY <3>2, Zenon DEF TypeOK
    <3> QED  BY <1>6, <3>1, <3>2, Zenon DEF HandledBulkSync
  <2> QED  BY <1>3, <1>4, <2>1, <2>2, ConnWritten, Zenon
<1>7. ASSUME NEW y \in Node, NEW c \in Conn, NEW m \in conn[y][c], NEW ev \in m.events,
             HandleBulkEvent(y, c, m, ev)
      PROVE  ConnsWritten' /\ HandlersWritten'
  <2>1. PICK n : n = [m EXCEPT !.events = @ \ {ev}]  BY Zenon
  <2>2. n.events \subseteq m.events  BY <2>1 DEF TypeOK, BulkSyncMessage
  <2>3. conn' = [conn EXCEPT ![y][c] = {n}]  BY <1>7, <2>1 DEF HandleBulkEvent
  <2>4. \A z \in Node, d \in Conn : conn'[z][d] = IF z = y /\ d = c THEN {n} ELSE conn[z][d]
    BY <2>3, Zenon DEF TypeOK
  <2>5. \A v \in m.events : Written(v.key, v)  BY DEF AllWritten, ConnsWritten
  <2>6. ConnsWritten'  BY <2>2, <2>4, <2>5, ConnWritten, Zenon
  <2>7. UNCHANGED handlers \/ (ev.node # y /\ Check(y, c, ev))
    BY <1>7 DEF HandleBulkEvent
  <2>8. c \in Handler  BY DEF Handler
  <2>9. HandlersWritten'  BY <1>4, <2>5, <2>7, <2>8, CheckWritten DEF AllWritten
  <2> QED  BY <2>6, <2>9
<1>8. ConnsWritten' /\ HandlersWritten'  BY <1>5, <1>6, <1>7, Zenon DEF Sync
<1> QED  BY <1>2, <1>8 DEF AllWritten

LEMMA AllWrittenStep ==
    ASSUME TypeOK, AllWritten, [Next]_tableVars
    PROVE  AllWritten'
<1>1. CASE UNCHANGED tableVars
  BY <1>1, Zenon DEF tableVars, AllWritten, TablesWritten, QueuesWritten, ConnsWritten,
              HandlersWritten, Written
<1>2. CASE Operate  BY <1>2, WrittenOperate DEF Operate
<1> QED  BY <1>1, <1>2, WrittenAttach, WrittenReceive, WrittenSync, WrittenHandle DEF Next

LEMMA ViewFrame ==
    ASSUME ViewsAgree, TellingKept, NEW x \in Node, NEW k \in Key,
           k \in view'[x] <=> k \in view[x],
           Live(table'[x][k]) /\ table'[x][k].node # x
               <=> Live(table[x][k]) /\ table[x][k].node # x
    PROVE  ViewAgrees(x, k)'
<1>1. ViewAgrees(x, k)  BY DEF ViewsAgree
<1>2. k \in Shown(x)' <=> k \in Shown(x)  BY DEF Shown, Live
<1>3. \A h \in Handler : Telling(x, h, k) => Telling(x, h, k)'
  BY DEF Telling, TellingKept
<1> QED  BY <1>1, <1>2, <1>3, Zenon DEF ViewAgrees

\* The tables and the views stay, and what is about to be told.
LEMMA ViewsFrame ==
    ASSUME ViewsAgree, TellingKept, UNCHANGED <<table, view>>
    PROVE  ViewsAgree'
<1> SUFFICES ASSUME NEW x \in Node, NEW k \in Key PROVE ViewAgrees(x, k)'
  BY DEF ViewsAgree
<1> QED  BY ViewFrame

\* An event is handled by a goroutine that was idle.
LEMMA ViewsCheck ==
    ASSUME TypeOK, ViewsAgree, NEW y \in Node, NEW h \in Handler, NEW ev, Check(y, h, ev),
           handlers[y][h] = Idle, UNCHANGED <<table, view>>
    PROVE  ViewsAgree'
<1>1. PICK r : handlers' = [handlers EXCEPT ![y][h] = r]  BY Zenon DEF Check
<1>2. \A x \in Node, g \in Handler :
         ~(x = y /\ g = h) => handlers'[x][g] = handlers[x][g]
  BY <1>1 DEF TypeOK
<1>3. handlers[y][h].pc = "idle"  BY DEF Idle
<1>4. TellingKept  BY <1>2, <1>3 DEF TellingKept
<1> QED  BY <1>4, ViewsFrame

LEMMA ViewsOperate ==
    ASSUME OneWriter, TypeOK, AllWritten, ViewsAgree, NEW x \in Node, NEW k \in Key,
           CreateEntry(x, k) \/ UpdateEntry(x, k) \/ DeleteEntry(x, k)
    PROVE  ViewsAgree'
<1>1. PICK e \in Entry :
         /\ e.present /\ e.node = x /\ x \in Writer[k] /\ In(x, x)
         /\ LocalOperation(x, k, e)
         /\ table' = [table EXCEPT ![x] = [table[x] EXCEPT ![k] = e]]
         /\ UNCHANGED <<epoch, att, conn, handlers, view>>
  BY OperateEntries
<1>2. \A y \in Node, j \in Key : table'[y][j] = IF y = x /\ j = k THEN e ELSE table[y][j]
  BY <1>1, Zenon DEF TypeOK
<1>3. TellingKept  BY <1>1 DEF TellingKept
<1>4. ~(Live(table[x][k]) /\ table[x][k].node # x)
  BY <1>1 DEF AllWritten, TablesWritten, Written, OneWriter, Live
<1> SUFFICES ASSUME NEW y \in Node, NEW j \in Key PROVE ViewAgrees(y, j)'
  BY DEF ViewsAgree
<1>5. Live(table'[y][j]) /\ table'[y][j].node # y <=> Live(table[y][j]) /\ table[y][j].node # y
  BY <1>1, <1>2, <1>4
<1> QED  BY <1>1, <1>3, <1>5, ViewFrame

LEMMA ViewsLeave ==
    ASSUME TypeOK, ViewsAgree, NEW x \in Node, LeaveNetwork(x)
    PROVE  ViewsAgree'
<1>1. /\ table' = [table EXCEPT ![x] = [k \in Key |-> LeftEntry(x, table[x][k])]]
      /\ view' = [view EXCEPT ![x] = @ \ {k \in Key : Live(table[x][k])}]
      /\ UNCHANGED handlers
  BY DEF LeaveNetwork, SetTable
<1>2. /\ \A y \in Node : y # x => table'[y] = table[y] /\ view'[y] = view[y]
      /\ \A k \in Key : table'[x][k] = LeftEntry(x, table[x][k])
      /\ \A k \in Key : k \in view'[x] <=> k \in view[x] /\ ~Live(table[x][k])
  BY <1>1 DEF TypeOK
<1>3. TellingKept  BY <1>1, Zenon DEF TellingKept
<1> SUFFICES ASSUME NEW y \in Node, NEW k \in Key PROVE ViewAgrees(y, k)'
  BY DEF ViewsAgree
<1>4. CASE y # x  BY <1>2, <1>3, <1>4, ViewFrame
<1>5. CASE y = x
  <2>1. ~(Live(LeftEntry(x, table[x][k])) /\ LeftEntry(x, table[x][k]).node # x)
    <3> DEFINE e == table[x][k]
    <3>1. CASE e.present /\ e.node = x /\ ~e.deleting
      BY <3>1 DEF LeftEntry, Tombstone, Live
    <3>2. CASE e.present /\ e.node # x  BY <3>2 DEF LeftEntry, NoEntry, Live
    <3>3. CASE ~(e.present /\ e.node = x /\ ~e.deleting) /\ ~(e.present /\ e.node # x)
      BY <3>3 DEF LeftEntry, Live
    <3> QED  BY <3>1, <3>2, <3>3
  <2>2. k \notin Shown(x)'  BY <1>2, <2>1 DEF Shown
  <2>3. CASE k \in view'[x]
    <3>1. k \in view[x] /\ k \notin Shown(x)  BY <1>2, <2>3 DEF Shown
    <3>2. \E h \in Handler : Telling(x, h, k)  BY <3>1 DEF ViewsAgree, ViewAgrees
    <3> QED  BY <1>1, <1>5, <3>2 DEF ViewAgrees, Telling
  <2> QED  BY <1>5, <2>2, <2>3 DEF ViewAgrees
<1> QED  BY <1>4, <1>5

\* The node that left, or failed, takes its live entries and their keys with it.
LEMMA ViewsLose ==
    ASSUME TypeOK, ViewsAgree, NEW x \in Node, NEW y \in Node, UNCHANGED handlers,
           view' = [view EXCEPT ![x] = @ \ LiveKeys(x, y)],
           \A w \in Node : w # x => table'[w] = table[w],
           \A k \in Key : k \in LiveKeys(x, y) => ~Live(table'[x][k]),
           \A k \in Key : k \notin LiveKeys(x, y) =>
               \/ table'[x][k] = table[x][k]
               \/ ~Live(table[x][k]) /\ ~Live(table'[x][k])
    PROVE  ViewsAgree'
<1>1. /\ \A w \in Node : w # x => view'[w] = view[w]
      /\ \A k \in Key : k \in view'[x] <=> k \in view[x] /\ k \notin LiveKeys(x, y)
  BY DEF TypeOK
<1>2. TellingKept  BY Zenon DEF TellingKept
<1> SUFFICES ASSUME NEW w \in Node, NEW k \in Key PROVE ViewAgrees(w, k)'
  BY DEF ViewsAgree
<1>3. CASE w # x  BY <1>1, <1>2, <1>3, ViewFrame
<1>4. CASE w = x /\ k \in LiveKeys(x, y)
  <2>1. k \notin Shown(x)' /\ k \notin view'[x]  BY <1>1, <1>4 DEF Shown
  <2> QED  BY <1>4, <2>1 DEF ViewAgrees
<1>5. CASE w = x /\ k \notin LiveKeys(x, y)  BY <1>1, <1>2, <1>5, ViewFrame
<1> QED  BY <1>3, <1>4, <1>5

LEMMA ViewsHear ==
    ASSUME TypeOK, ViewsAgree, NEW x \in Node, NEW y \in Node, NEW e, HearLeave(x, y, e)
    PROVE  ViewsAgree'
<1>1. /\ table' = [table EXCEPT ![x] = [k \in Key |-> IF k \in LiveKeys(x, y)
                                    THEN Tombstone(table[x][k].ltime, y) ELSE table[x][k]]]
      /\ view' = [view EXCEPT ![x] = @ \ LiveKeys(x, y)] /\ UNCHANGED handlers
  BY DEF HearLeave, SetTable
<1>2. /\ \A w \in Node : w # x => table'[w] = table[w]
      /\ \A k \in Key : table'[x][k] = IF k \in LiveKeys(x, y)
                                    THEN Tombstone(table[x][k].ltime, y) ELSE table[x][k]
  BY <1>1 DEF TypeOK
<1>3. \A k \in Key : k \in LiveKeys(x, y) => ~Live(table'[x][k])
  <2>1. \A l : ~Live(Tombstone(l, y))  BY DEF Live, Tombstone
  <2> QED  BY <1>2, <2>1
<1>4. \A k \in Key : k \notin LiveKeys(x, y) => table'[x][k] = table[x][k]  BY <1>2
<1> QED  BY <1>1, <1>2, <1>3, <1>4, ViewsLose, Zenon

LEMMA ViewsGone ==
    ASSUME TypeOK, ViewsAgree, NEW x \in Node, NEW y \in Node, NodeGone(x, y)
    PROVE  ViewsAgree'
<1>1. /\ table' = [table EXCEPT ![x] =
                     [k \in Key |-> IF table[x][k].node = y THEN NoEntry(x) ELSE table[x][k]]]
      /\ view' = [view EXCEPT ![x] = @ \ LiveKeys(x, y)] /\ UNCHANGED handlers
  BY DEF NodeGone, SetTable
<1>2. /\ \A w \in Node : w # x => table'[w] = table[w]
      /\ \A k \in Key : table'[x][k] = IF table[x][k].node = y THEN NoEntry(x)
                                       ELSE table[x][k]
  BY <1>1 DEF TypeOK
<1>3. ~Live(NoEntry(x))  BY DEF Live, NoEntry
<1>4. \A k \in Key : k \in LiveKeys(x, y) => ~Live(table'[x][k])
  BY <1>2, <1>3 DEF LiveKeys
<1>5. \A k \in Key : k \notin LiveKeys(x, y) =>
         table'[x][k] = table[x][k] \/ (~Live(table[x][k]) /\ ~Live(table'[x][k]))
  BY <1>2, <1>3 DEF LiveKeys
<1> QED  BY <1>1, <1>2, <1>4, <1>5, ViewsLose, Zenon

LEMMA ViewsReap ==
    ASSUME TypeOK, ViewsAgree, NEW x \in Node, ReapState(x)
    PROVE  ViewsAgree'
<1>1. /\ UNCHANGED <<handlers, view>>
      /\ \/ UNCHANGED table
         \/ table' = [table EXCEPT ![x] = [k \in Key |-> ReapedEntry(x, table[x][k])]]
  BY DEF ReapState
<1>2. TellingKept  BY <1>1 DEF TellingKept
<1>3. CASE UNCHANGED table  BY <1>1, <1>2, <1>3, ViewsFrame
<1>4. CASE ~UNCHANGED table
  <2>1. /\ \A y \in Node : y # x => table'[y] = table[y]
        /\ \A k \in Key : table'[x][k] = ReapedEntry(x, table[x][k])
    BY <1>1, <1>4 DEF TypeOK
  <2> SUFFICES ASSUME NEW y \in Node, NEW k \in Key PROVE ViewAgrees(y, k)'
    BY DEF ViewsAgree
  <2>2. CASE y # x  BY <1>1, <1>2, <2>1, <2>2, ViewFrame
  <2>3. CASE y = x
    <3>1. Live(table'[x][k]) /\ table'[x][k].node # x
             <=> Live(table[x][k]) /\ table[x][k].node # x
      BY <2>1, ReapedFacts DEF Live
    <3> QED  BY <1>1, <1>2, <2>3, <3>1, ViewFrame
  <2> QED  BY <2>2, <2>3
<1> QED  BY <1>3, <1>4

LEMMA ViewsApply ==
    ASSUME TypeOK, ViewsAgree, NEW y \in Node, NEW h \in Handler, Apply(y, h)
    PROVE  ViewsAgree'
<1>1. handlers[y][h] \in HandlerState /\ handlers[y][h].pc = "apply" /\ UNCHANGED view
  <2>1. handlers[y][h].pc = "apply" /\ UNCHANGED view  BY Zenon DEF Apply
  <2>2. handlers[y][h] \in HandlerState  BY DEF TypeOK
  <2> QED  BY <2>1, <2>2
<1>2. PICK ev \in TableEvent : ev = handlers[y][h].ev  BY <1>1 DEF HandlerState, Idle
<1>3. ev.key \in Key  BY DEF TableEvent
<1>4. PICK r : /\ handlers' = [handlers EXCEPT ![y][h] = r]
               /\ \/ UNCHANGED table
                  \/ /\ table' = [table EXCEPT ![y] = [table[y] EXCEPT ![ev.key] = EntryOf(ev)]]
                     /\ r.ev = ev
                     /\ r.pc = IF ~table[y][ev.key].present /\ ev.deleting
                               THEN "forward" ELSE "notify"
  <2>1. CASE Ignores(table[y][ev.key], ev, h \in Conn)  BY <1>2, <2>1, Zenon DEF Apply
  <2>2. CASE ~Ignores(table[y][ev.key], ev, h \in Conn)
    <3>1. PICK q : q = IF ~table[y][ev.key].present /\ ev.deleting THEN "forward" ELSE "notify"
      OBVIOUS
    <3>2. PICK r : r = Handling(q, ev, handlers[y][h].sync)  OBVIOUS
    <3>3. r.ev = ev /\ r.pc = q  BY <3>2 DEF Handling
    <3>4. /\ table' = [table EXCEPT ![y] = [table[y] EXCEPT ![ev.key] = EntryOf(ev)]]
          /\ handlers' = [handlers EXCEPT ![y][h] = r]
      BY <1>2, <2>2, <3>1, <3>2, Zenon DEF Apply, SetTable
    <3> QED  BY <3>1, <3>3, <3>4, Zenon
  <2> QED  BY <2>1, <2>2
<1>5. /\ handlers'[y][h] = r
      /\ \A x \in Node, g \in Handler :
            ~(x = y /\ g = h) => handlers'[x][g] = handlers[x][g]
  BY <1>4 DEF TypeOK
<1>6. TellingKept  BY <1>1, <1>5, Zenon DEF TellingKept
<1>7. CASE UNCHANGED table  BY <1>1, <1>6, <1>7, ViewsFrame
<1>8. CASE ~UNCHANGED table
  <2>1. \A x \in Node, k \in Key :
           table'[x][k] = IF x = y /\ k = ev.key THEN EntryOf(ev) ELSE table[x][k]
    <3>1. table' = [table EXCEPT ![y] = [table[y] EXCEPT ![ev.key] = EntryOf(ev)]]
      BY <1>4, <1>8
    <3> QED  BY <1>3, <3>1 DEF TypeOK
  <2> SUFFICES ASSUME NEW x \in Node, NEW k \in Key PROVE ViewAgrees(x, k)'
    BY DEF ViewsAgree
  <2>2. CASE ~(x = y /\ k = ev.key)
    <3>1. table'[x][k] = table[x][k]  BY <2>1, <2>2
    <3> QED  BY <1>1, <1>6, <3>1, ViewFrame
  <2>3. CASE x = y /\ k = ev.key /\ r.pc = "notify"
    <3>1. Telling(x, h, k)'  BY <1>4, <1>5, <1>8, <2>3 DEF Telling
    <3> QED  BY <3>1 DEF ViewAgrees
  <2>4. CASE x = y /\ k = ev.key /\ r.pc # "notify"
    <3>0. r.pc = IF ~table[y][ev.key].present /\ ev.deleting THEN "forward" ELSE "notify"
      BY <1>4, <1>8
    <3>1. ~table[y][ev.key].present /\ ev.deleting  BY <2>4, <3>0
    <3>2. ~Live(table[x][k])  BY <2>4, <3>1, Zenon DEF Live
    <3>3. table'[x][k] = EntryOf(ev)  BY <2>1, <2>4, Zenon
    <3>4. EntryOf(ev).deleting = ev.deleting  BY DEF EntryOf
    <3>5. ~Live(table'[x][k])  BY <3>1, <3>3, <3>4, Zenon DEF Live
    <3> QED  BY <1>1, <1>6, <3>2, <3>5, ViewFrame
  <2> QED  BY <2>2, <2>3, <2>4
<1> QED  BY <1>7, <1>8

LEMMA ViewsNotify ==
    ASSUME TypeOK, TellsHold, ViewsAgree, NEW y \in Node, NEW h \in Handler, Notify(y, h)
    PROVE  ViewsAgree'
<1> DEFINE r == handlers[y][h]
<1>1. /\ r \in HandlerState /\ r.pc \in {"notify", "forward"} /\ UNCHANGED table
      /\ view' = [view EXCEPT ![y] = Told(@, r)]
      /\ handlers' = [handlers EXCEPT ![y][h] = Idle]
  BY DEF TypeOK, Notify
<1>2. PICK ev \in TableEvent : ev = r.ev  BY <1>1 DEF HandlerState, Idle
<1>3. ev.key \in Key /\ ev.deleting \in BOOLEAN  BY DEF TableEvent
<1>4. \A x \in Node, g \in Handler : ~(x = y /\ g = h) => handlers'[x][g] = handlers[x][g]
  BY <1>1 DEF TypeOK
<1>5. view'[y] = Told(view[y], r) /\ \A x \in Node : x # y => view'[x] = view[x]
  BY <1>1 DEF TypeOK
<1>6. CASE r.pc = "forward"
  <2>1. TellingKept  BY <1>4, <1>6 DEF TellingKept
  <2>2. Told(view[y], r) = view[y]  BY <1>6 DEF Told
  <2>3. UNCHANGED view  BY <1>1, <2>2 DEF TypeOK
  <2> QED  BY <1>1, <2>1, <2>3, ViewsFrame
<1>7. CASE r.pc = "notify"
  <2>1. Told(view[y], r) = IF ev.deleting THEN view[y] \ {ev.key} ELSE view[y] \cup {ev.key}
    BY <1>2, <1>3, <1>7 DEF Told
  <2>2. ev.key \in Shown(y) <=> ~ev.deleting  BY <1>2, <1>7 DEF TellsHold
  <2>3. \A x : Shown(x)' = Shown(x)  BY <1>1 DEF Shown
  <2> SUFFICES ASSUME NEW x \in Node, NEW k \in Key PROVE ViewAgrees(x, k)'
    BY DEF ViewsAgree
  <2>4. CASE x = y /\ k = ev.key
    <3>1. k \in view'[y] <=> k \in Shown(y)  BY <1>5, <2>1, <2>2, <2>4
    <3> QED  BY <2>3, <2>4, <3>1, Zenon DEF ViewAgrees
  <2>5. CASE ~(x = y /\ k = ev.key)
    <3>1. k \in view'[x] <=> k \in view[x]  BY <1>5, <2>1, <2>5
    <3>2. ASSUME NEW g \in Handler, Telling(x, g, k) PROVE Telling(x, g, k)'
      <4>1. ~(x = y /\ g = h)  BY <1>2, <2>5, <3>2 DEF Telling
      <4> QED  BY <1>4, <3>2, <4>1 DEF Telling
    <3>3. ViewAgrees(x, k)  BY DEF ViewsAgree
    <3> QED  BY <2>3, <3>1, <3>2, <3>3 DEF ViewAgrees
  <2> QED  BY <2>4, <2>5
<1> QED  BY <1>1, <1>6, <1>7

LEMMA ViewsSync ==
    ASSUME TypeOK, ViewsAgree, Sync
    PROVE  ViewsAgree'
<1>1. UNCHANGED <<table, view>>  BY SyncFrame
<1>2. CASE UNCHANGED handlers
  <2>1. TellingKept  BY <1>2 DEF TellingKept
  <2> QED  BY <1>1, <2>1, ViewsFrame
<1>3. ASSUME NEW y \in Node, NEW c \in Conn, NEW m \in conn[y][c], NEW ev \in m.events,
             HandleBulkEvent(y, c, m, ev)
      PROVE  ViewsAgree'
  <2>1. handlers[y][c] = Idle /\ (UNCHANGED handlers \/ Check(y, c, ev))
    BY <1>3 DEF HandleBulkEvent
  <2>2. c \in Handler  BY DEF Handler
  <2> QED  BY <1>1, <1>2, <2>1, <2>2, ViewsCheck
<1>4. ASSUME NEW x \in Node, NEW y \in Node, NEW c \in Conn, BulkSync(x, y, c)
      PROVE  UNCHANGED handlers
  BY <1>4 DEF BulkSync
<1>5. ASSUME NEW y \in Node, NEW c \in Conn, NEW m \in conn[y][c], HandledBulkSync(y, c, m)
      PROVE  UNCHANGED handlers
  BY <1>5 DEF HandledBulkSync
<1> QED  BY <1>2, <1>3, <1>4, <1>5 DEF Sync

LEMMA ViewsAgreeStep ==
    ASSUME OneWriter, TypeOK, TellsHold, AllWritten, ViewsAgree, [Next]_tableVars
    PROVE  ViewsAgree'
<1>1. ASSUME UNCHANGED <<table, view, handlers>> PROVE ViewsAgree'
  <2>1. TellingKept  BY <1>1 DEF TellingKept
  <2> QED  BY <1>1, <2>1, ViewsFrame
<1>2. CASE Operate  BY <1>2, ViewsOperate DEF Operate
<1>3. CASE Attach
  <2>1. ASSUME NEW x \in Node, JoinNetwork(x) \/ JoinNetworkSynced(x) PROVE ViewsAgree'
    BY <1>1, <2>1 DEF JoinNetwork, JoinNetworkSynced
  <2>2. ASSUME NEW x \in Node, NEW y \in Node, NEW e \in 1..MaxEpoch, HearJoin(x, y, e)
        PROVE  ViewsAgree'
    BY <1>1, <2>2 DEF HearJoin
  <2> QED  BY <1>3, <2>1, <2>2, ViewsLeave, ViewsHear, ViewsGone DEF Attach
<1>4. CASE Receive
  <2>1. PICK x \in Node, y \in Node : \E ev \in tableQ[x] : Gossip(x, y, ev)
    BY <1>4 DEF Receive
  <2>2. PICK ev \in tableQ[x] : Gossip(x, y, ev)  BY <2>1
  <2>3. /\ handlers[y]["udp"] = Idle /\ Check(y, "udp", ev) /\ UNCHANGED <<table, view>>
        /\ "udp" \in Handler
    BY <2>2 DEF Gossip, Handler
  <2> QED  BY <2>3, ViewsCheck
<1>5. CASE Sync  BY <1>5, ViewsSync
<1>6. CASE Handle  BY <1>6, ViewsApply, ViewsNotify DEF Handle
<1>7. CASE Reap  BY <1>7, ViewsReap DEF Reap
<1>8. CASE UNCHANGED tableVars  BY <1>1, <1>8 DEF tableVars
<1> QED  BY <1>2, <1>3, <1>4, <1>5, <1>6, <1>7, <1>8 DEF Next

(***************************************************************************)
(* Between two events the watchers of a node know exactly the live entries *)
(* of the other nodes, whatever order gossip, bulk syncs, leaves, failures *)
(* and the reaper take, when a key has one writer and what a handler tells *)
(* after it has given up the lock is still so.                             *)
(***************************************************************************)
THEOREM WatchersAlwaysAgree ==
    ASSUME OneWriter
    PROVE  Spec /\ []TellsHold => []WatchersAgree
<1>1. ASSUME Init
      PROVE  AllWritten /\ ViewsAgree
  <2>1. \A x \in Node, k \in Key : ~Live(table[x][k]) /\ ~table[x][k].present
    BY <1>1 DEF Init, Live, NoEntry
  <2>2. TablesWritten  BY <2>1 DEF TablesWritten
  <2>3. QueuesWritten /\ ConnsWritten  BY <1>1, Zenon DEF Init, QueuesWritten, ConnsWritten
  <2>4. HandlersWritten  BY <1>1 DEF Init, HandlersWritten, Idle
  <2>5. ViewsAgree  BY <1>1, <2>1 DEF Init, ViewsAgree, ViewAgrees, Shown
  <2> QED  BY <2>2, <2>3, <2>4, <2>5 DEF AllWritten
<1>2. TypeOK /\ AllWritten /\ [Next]_tableVars => AllWritten'
  BY AllWrittenStep
<1>3. TypeOK /\ TellsHold /\ AllWritten /\ ViewsAgree /\ [Next]_tableVars => ViewsAgree'
  BY ViewsAgreeStep
<1>4. TypeOK /\ ViewsAgree => WatchersAgree
  <2> SUFFICES ASSUME TypeOK, ViewsAgree, NEW x \in Node,
                      \A h \in Handler : handlers[x][h] = Idle
               PROVE  view[x] = Shown(x)
    BY DEF WatchersAgree
  <2>1. \A h \in Handler : \A k : ~Telling(x, h, k)  BY DEF Telling, Idle
  <2>2. \A k \in Key : k \in view[x] <=> k \in Shown(x)
    BY <2>1 DEF ViewsAgree, ViewAgrees
  <2>3. view[x] \subseteq Key /\ Shown(x) \subseteq Key  BY DEF TypeOK, Shown
  <2> QED  BY <2>2, <2>3
<1> QED  BY <1>1, <1>2, <1>3, <1>4, TablesTypeCorrect, PTL DEF Spec
=============================================================================
