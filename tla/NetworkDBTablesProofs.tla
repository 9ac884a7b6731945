----------------------- MODULE NetworkDBTablesProofs ------------------------
(***************************************************************************)
(* Proofs about NetworkDBTables, for any sets of nodes, keys and           *)
(* connections and any bounds: IInv is inductive, every step keeps or      *)
(* raises the time of an entry.                                            *)
(*                                                                         *)
(* Neither TypeOK nor CopiesNotAhead is inductive alone: a leave adds one  *)
(* to the time of an entry, which stays in range because the clock has     *)
(* reached the time of a live entry.  What a local operation writes is     *)
(* newer than what it replaces because nothing a node holds or handles is  *)
(* more than one ahead of its own clock: TablesLocal and HandlersLocal.    *)
(***************************************************************************)
EXTENDS NetworkDBTables, FiniteSetTheorems, TLAPS

TablesAhead == \A x \in Node, k \in Key : NotAhead(table[x][k])
QueuesAhead == \A x \in Node : \A ev \in tableQ[x] : NotAhead(ev)
ConnsAhead ==
    \A x \in Node, c \in Conn : \A m \in conn[x][c] : \A ev \in m.events : NotAhead(ev)
HandlersAhead ==
    \A x \in Node, h \in Handler : handlers[x][h] # Idle => NotAhead(handlers[x][h].ev)

TablesLocal == \A x \in Node, k \in Key : table[x][k].ltime <= tableClock[x] + 1
HandlersLocal ==
    \A x \in Node, h \in Handler :
        handlers[x][h] # Idle => handlers[x][h].ev.ltime <= tableClock[x] + 1

IInv ==
    /\ TypeOK
    /\ TablesAhead /\ QueuesAhead /\ ConnsAhead /\ HandlersAhead
    /\ TablesLocal /\ HandlersLocal

\* The clocks only go forward.
ClockGrows ==
    /\ tableClock' \in [Node -> 0..MaxTime]
    /\ \A x \in Node : tableClock[x] <= tableClock'[x]

(***************************************************************************)
(* Operators.                                                              *)
(***************************************************************************)
\* The number of entries of a table.
LEMMA CountType ==
    ASSUME NEW t
    PROVE  Cardinality(Present(t)) \in Nat
<1>1. IsFiniteSet(Key)  BY TablesAssumption
<1>2. Present(t) \subseteq Key  BY DEF Present
<1>3. IsFiniteSet(Present(t))  BY <1>1, <1>2, FS_Subset
<1> QED  BY <1>3, FS_CardinalityType

\* Witness never turns the clock back, and leaves it at most one behind.
LEMMA WitnessGrows ==
    ASSUME NEW c \in 0..MaxTime, NEW t \in Time
    PROVE  /\ WitnessTime(c, t) \in 0..MaxTime
           /\ c <= WitnessTime(c, t)
           /\ t <= WitnessTime(c, t) + 1
BY TablesAssumption DEF WitnessTime, Time

LEMMA SyncGrows ==
    ASSUME NEW c \in 0..MaxTime, NEW m \in BulkSyncMessage
    PROVE  SyncTime(c, m) \in 0..MaxTime /\ c <= SyncTime(c, m)
<1>1. m.ltime \in 0..MaxTime  BY DEF BulkSyncMessage
<1>2. m.ltime \in Time  BY <1>1, TablesAssumption DEF Time
<1> QED  BY <1>1, <1>2, WitnessGrows DEF SyncTime

\* Entries are well formed.
LEMMA EntryTypes ==
    /\ \A t \in Time, x \in Node : NewEntry(t, x) \in Entry
    /\ \A t \in Time, x \in Node : Tombstone(t, x) \in Entry
    /\ \A x \in Node : NoEntry(x) \in Entry
    /\ \A k \in Key, e \in Entry : EventOf(k, e) \in TableEvent
    /\ \A ev \in TableEvent : EntryOf(ev) \in Entry
<1>1. 0 \in Time /\ 0 \in 0..EntryReap /\ EntryReap \in 0..EntryReap
  BY TablesAssumption DEF Time
<1>2. \A t \in Time, x \in Node : NewEntry(t, x) \in Entry
  BY <1>1 DEF NewEntry, Entry
<1>3. \A t \in Time, x \in Node : Tombstone(t, x) \in Entry
  BY <1>1 DEF Tombstone, Entry
<1>4. \A x \in Node : NoEntry(x) \in Entry
  BY <1>1 DEF NoEntry, Entry
<1>5. \A k \in Key, e \in Entry : EventOf(k, e) \in TableEvent
  BY DEF EventOf, Entry, TableEvent
<1>6. \A ev \in TableEvent : EntryOf(ev) \in Entry
  BY <1>1 DEF EntryOf, Entry, TableEvent
<1> QED  BY <1>2, <1>3, <1>4, <1>5, <1>6

\* A copy that is not ahead of its owner stays so when the clocks go forward.
LEMMA NotAheadStays ==
    ASSUME TypeOK, ClockGrows, NEW e, e.ltime \in Time, e.node \in Node, NotAhead(e)
    PROVE  NotAhead(e)'
<1>1. tableClock[e.node] \in Int /\ tableClock'[e.node] \in Int
  BY DEF TypeOK, ClockGrows
<1>2. tableClock[e.node] <= tableClock'[e.node]  BY DEF ClockGrows
<1>3. e.ltime \in Int  BY DEF Time
<1> QED  BY <1>1, <1>2, <1>3 DEF NotAhead

(***************************************************************************)
(* One lemma per part of the state that an action may change.              *)
(***************************************************************************)
\* What an action leaves alone keeps its part of the invariant.
LEMMA Frames ==
    ASSUME IInv, ClockGrows
    PROVE  /\ UNCHANGED table => TablesAhead' /\ TablesLocal'
           /\ UNCHANGED tableQ => QueuesAhead'
           /\ UNCHANGED conn => ConnsAhead'
           /\ UNCHANGED handlers => HandlersAhead' /\ HandlersLocal'
<1> USE DEF IInv
<1>0. \A x \in Node : tableClock[x] \in Int /\ tableClock'[x] \in Int
  BY DEF TypeOK, ClockGrows
<1>1. ASSUME UNCHANGED table PROVE TablesAhead' /\ TablesLocal'
  <2> SUFFICES ASSUME NEW x \in Node, NEW k \in Key
               PROVE  NotAhead(table[x][k])' /\ table'[x][k].ltime <= tableClock'[x] + 1
    BY DEF TablesAhead, TablesLocal
  <2>1. table[x][k] \in Entry  BY DEF TypeOK
  <2>2. PICK e \in Entry : e = table[x][k]  BY <2>1
  <2>3. e.ltime \in Time /\ e.node \in Node  BY DEF Entry
  <2>4. NotAhead(e)  BY <2>2 DEF TablesAhead
  <2>5. NotAhead(e)'  BY <2>3, <2>4, NotAheadStays
  <2>6. table'[x][k] = e  BY <1>1, <2>2
  <2>7. e.ltime <= tableClock[x] + 1  BY <2>2 DEF TablesLocal
  <2>8. e.ltime <= tableClock'[x] + 1  BY <2>3, <2>7, <1>0 DEF Time, ClockGrows
  <2> QED  BY <2>5, <2>6, <2>8 DEF NotAhead
<1>2. ASSUME UNCHANGED tableQ PROVE QueuesAhead'
  <2> SUFFICES ASSUME NEW x \in Node, NEW ev \in tableQ[x] PROVE NotAhead(ev)'
    BY <1>2 DEF QueuesAhead
  <2>1. ev \in TableEvent  BY DEF TypeOK
  <2>2. ev.ltime \in Time /\ ev.node \in Node  BY <2>1 DEF TableEvent
  <2> QED  BY <2>2, NotAheadStays DEF QueuesAhead
<1>3. ASSUME UNCHANGED conn PROVE ConnsAhead'
  <2> SUFFICES ASSUME NEW x \in Node, NEW c \in Conn, NEW m \in conn[x][c],
                      NEW ev \in m.events
               PROVE NotAhead(ev)'
    BY <1>3 DEF ConnsAhead
  <2>1. m \in BulkSyncMessage  BY DEF TypeOK
  <2>2. ev \in TableEvent  BY <2>1 DEF BulkSyncMessage
  <2>3. ev.ltime \in Time /\ ev.node \in Node  BY <2>2 DEF TableEvent
  <2> QED  BY <2>3, NotAheadStays DEF ConnsAhead
<1>4. ASSUME UNCHANGED handlers PROVE HandlersAhead' /\ HandlersLocal'
  <2> SUFFICES ASSUME NEW x \in Node, NEW h \in Handler, handlers[x][h] # Idle
               PROVE  /\ NotAhead(handlers[x][h].ev)'
                      /\ handlers[x][h].ev.ltime <= tableClock'[x] + 1
    BY <1>4 DEF HandlersAhead, HandlersLocal
  <2>1. handlers[x][h] \in HandlerState  BY DEF TypeOK
  <2>2. handlers[x][h].ev \in TableEvent  BY <2>1 DEF HandlerState
  <2>3. PICK ev \in TableEvent : ev = handlers[x][h].ev  BY <2>2
  <2>4. ev.ltime \in Time /\ ev.node \in Node  BY DEF TableEvent
  <2>5. NotAhead(ev)  BY <2>3 DEF HandlersAhead
  <2>6. NotAhead(ev)'  BY <2>4, <2>5, NotAheadStays
  <2>7. ev.ltime <= tableClock[x] + 1  BY <2>3 DEF HandlersLocal
  <2>8. ev.ltime <= tableClock'[x] + 1  BY <2>4, <2>7, <1>0 DEF Time, ClockGrows
  <2>9. handlers'[x][h].ev = ev  BY <1>4, <2>3
  <2> QED  BY <2>3, <2>6, <2>8, <2>9, <1>4 DEF NotAhead
<1> QED  BY <1>1, <1>2, <1>3, <1>4

\* createOrUpdateEntry and deleteEntry keep the counter.
LEMMA SetTableFacts ==
    ASSUME TypeOK, NEW x \in Node, NEW t, SetTable(x, t)
    PROVE  table' = [table EXCEPT ![x] = t] /\ entriesNumber' \in [Node -> Int]
<1>1. table' = [table EXCEPT ![x] = t]  BY Zenon DEF SetTable
<1>2. PICK n \in Nat : n = Cardinality(Present(t))  BY CountType
<1>3. PICK o \in Nat : o = Cardinality(Present(table[x]))  BY CountType
<1>4. entriesNumber' = [entriesNumber EXCEPT ![x] = IF Attached(x) THEN @ + n - o ELSE @]
  BY <1>2, <1>3 DEF SetTable
<1>5. entriesNumber \in [Node -> Int]  BY DEF TypeOK
<1> QED  BY <1>1, <1>4, <1>5

\* A change of the entries of one node.
LEMMA TableStep ==
    ASSUME IInv, ClockGrows, NEW x \in Node, NEW t \in [Key -> Entry],
           table' = [table EXCEPT ![x] = t],
           \A k \in Key : NotAhead(t[k])' /\ t[k].ltime <= tableClock'[x] + 1
    PROVE  table' \in [Node -> [Key -> Entry]] /\ TablesAhead' /\ TablesLocal'
<1> USE DEF IInv
<1>1. table' = [table EXCEPT ![x] = t]  OBVIOUS
<1>2. table' \in [Node -> [Key -> Entry]]  BY <1>1 DEF TypeOK
<1>4. TablesAhead' /\ TablesLocal'
  <2> SUFFICES ASSUME NEW y \in Node, NEW k \in Key
               PROVE  NotAhead(table[y][k])' /\ table'[y][k].ltime <= tableClock'[y] + 1
    BY DEF TablesAhead, TablesLocal
  <2>1. CASE y = x
    <3>1. table'[y][k] = t[k]  BY <1>1, <2>1 DEF TypeOK
    <3> QED  BY <3>1, <2>1 DEF NotAhead
  <2>2. CASE y # x
    <3>1. table'[y][k] = table[y][k]  BY <1>1, <2>2 DEF TypeOK
    <3>2. PICK e \in Entry : e = table[y][k]  BY DEF TypeOK
    <3>3. e.ltime \in Time /\ e.node \in Node  BY DEF Entry
    <3>4. NotAhead(e) /\ e.ltime <= tableClock[y] + 1
      BY <3>2 DEF TablesAhead, TablesLocal
    <3>5. NotAhead(e)'  BY <3>3, <3>4, NotAheadStays
    <3>6. tableClock[y] \in Int /\ tableClock'[y] \in Int /\ e.ltime \in Int
      BY <3>3 DEF TypeOK, ClockGrows, Time
    <3>7. e.ltime <= tableClock'[y] + 1  BY <3>4, <3>6 DEF ClockGrows
    <3> QED  BY <3>1, <3>2, <3>5, <3>7 DEF NotAhead
  <2> QED  BY <2>1, <2>2
<1> QED  BY <1>2, <1>4

\* A change of the queue of one node.
LEMMA QueueStep ==
    ASSUME IInv, ClockGrows, NEW x \in Node, NEW q \in SUBSET TableEvent,
           tableQ' = [tableQ EXCEPT ![x] = q], \A ev \in q : NotAhead(ev)'
    PROVE  tableQ' \in [Node -> SUBSET TableEvent] /\ QueuesAhead'
<1> USE DEF IInv
<1>1. tableQ' \in [Node -> SUBSET TableEvent]  BY DEF TypeOK
<1>2. ASSUME NEW y \in Node, NEW ev \in tableQ'[y] PROVE NotAhead(ev)'
  <2>1. CASE y = x  BY <1>2, <2>1 DEF TypeOK
  <2>2. CASE y # x
    <3>1. ev \in tableQ[y] /\ ev \in TableEvent  BY <1>2, <2>2 DEF TypeOK
    <3>2. ev.ltime \in Time /\ ev.node \in Node  BY <3>1 DEF TableEvent
    <3> QED  BY <3>1, <3>2, NotAheadStays DEF QueuesAhead
  <2> QED  BY <2>1, <2>2
<1> QED  BY <1>1, <1>2 DEF QueuesAhead

\* A change of what one goroutine of one node handles.
LEMMA HandlerStep ==
    ASSUME IInv, ClockGrows, NEW y \in Node, NEW h \in Handler, NEW r \in HandlerState,
           handlers' = [handlers EXCEPT ![y][h] = r],
           r # Idle => NotAhead(r.ev)' /\ r.ev.ltime <= tableClock'[y] + 1
    PROVE  /\ handlers' \in [Node -> [Handler -> HandlerState]]
           /\ HandlersAhead' /\ HandlersLocal'
<1> USE DEF IInv
<1>1. handlers' \in [Node -> [Handler -> HandlerState]]  BY DEF TypeOK
<1>2. ASSUME NEW x \in Node, NEW g \in Handler, handlers'[x][g] # Idle
      PROVE  /\ NotAhead(handlers[x][g].ev)'
             /\ handlers'[x][g].ev.ltime <= tableClock'[x] + 1
  <2>1. CASE x = y /\ g = h
    <3>1. handlers'[x][g] = r  BY SMTT(60), <2>1 DEF TypeOK
    <3> QED  BY <3>1, <2>1, <1>2 DEF NotAhead
  <2>2. CASE ~(x = y /\ g = h)
    <3>1. handlers'[x][g] = handlers[x][g]  BY <2>2 DEF TypeOK
    <3>2. handlers[x][g] \in HandlerState /\ handlers[x][g] # Idle
      BY <1>2, <3>1 DEF TypeOK
    <3>3. PICK ev \in TableEvent : ev = handlers[x][g].ev  BY <3>2 DEF HandlerState
    <3>4. ev.ltime \in Time /\ ev.node \in Node  BY DEF TableEvent
    <3>5. NotAhead(ev) /\ ev.ltime <= tableClock[x] + 1
      BY <3>2, <3>3 DEF HandlersAhead, HandlersLocal
    <3>6. NotAhead(ev)'  BY <3>4, <3>5, NotAheadStays
    <3>7. tableClock[x] \in Int /\ tableClock'[x] \in Int /\ ev.ltime \in Int
      BY <3>4 DEF TypeOK, ClockGrows, Time
    <3>8. ev.ltime <= tableClock'[x] + 1  BY <3>5, <3>7 DEF ClockGrows
    <3> QED  BY <3>1, <3>3, <3>6, <3>8 DEF NotAhead
  <2> QED  BY <2>1, <2>2
<1> QED  BY <1>1, <1>2 DEF HandlersAhead, HandlersLocal

\* A change of what the connections carry.
LEMMA ConnStep ==
    ASSUME IInv, ClockGrows, conn' \in [Node -> [Conn -> SUBSET BulkSyncMessage]], NEW s,
           \A x \in Node, d \in Conn : conn'[x][d] \subseteq conn[x][d] \cup s,
           \A m \in s : \A ev \in m.events : NotAhead(ev)'
    PROVE  ConnsAhead'
<1> USE DEF IInv
<1> SUFFICES ASSUME NEW x \in Node, NEW d \in Conn, NEW m \in conn'[x][d],
                    NEW ev \in m.events
             PROVE  NotAhead(ev)'
  BY DEF ConnsAhead
<1>1. CASE m \in s  BY <1>1
<1>2. CASE m \in conn[x][d]
  <2>1. m \in BulkSyncMessage  BY <1>2 DEF TypeOK
  <2>2. ev \in TableEvent  BY <2>1 DEF BulkSyncMessage
  <2>3. ev.ltime \in Time /\ ev.node \in Node  BY <2>2 DEF TableEvent
  <2> QED  BY <1>2, <2>3, NotAheadStays DEF ConnsAhead
<1> QED  BY <1>1, <1>2

\* An action leaves the clocks alone, or moves one of them forward.
LEMMA ClockSame ==
    ASSUME TypeOK, UNCHANGED tableClock
    PROVE  ClockGrows
<1>1. \A x \in Node : tableClock[x] \in Int  BY DEF TypeOK
<1> QED  BY <1>1 DEF TypeOK, ClockGrows

LEMMA ClockSet ==
    ASSUME TypeOK, NEW y \in Node, NEW c \in 0..MaxTime, tableClock[y] <= c,
           tableClock' = [tableClock EXCEPT ![y] = c]
    PROVE  ClockGrows /\ tableClock'[y] = c
<1>1. \A x \in Node : tableClock[x] \in Int  BY DEF TypeOK
<1> QED  BY <1>1 DEF TypeOK, ClockGrows

(***************************************************************************)
(* One lemma per group of actions.                                         *)
(***************************************************************************)
\* CreateEntry, UpdateEntry and DeleteEntry write the next time of the clock.
LEMMA LocalOperationStep ==
    ASSUME IInv, NEW x \in Node, NEW k \in Key, NEW e \in Entry,
           LocalOperation(x, k, e), e.ltime = tableClock[x] + 1, e.node = x
    PROVE  IInv' /\ table' = [table EXCEPT ![x][k] = e]
<1>0. TypeOK  BY DEF IInv
<1>1. tableClock[x] \in 0..MaxTime /\ tableClock[x] + 1 \in 0..MaxTime
      /\ tableClock[x] <= tableClock[x] + 1
  BY <1>0, TablesAssumption DEF LocalOperation, Tick, TypeOK
<1>2. tableClock' = [tableClock EXCEPT ![x] = tableClock[x] + 1]
  BY <1>0 DEF LocalOperation, TypeOK
<1>3. ClockGrows /\ tableClock'[x] = tableClock[x] + 1  BY Zenon, <1>0, <1>1, <1>2, ClockSet
<1>4. UNCHANGED <<epoch, att, inSync, conn, handlers, view>>  BY DEF LocalOperation
<1>5. NotAhead(e)' /\ e.ltime <= tableClock'[x] + 1  BY <1>1, <1>3 DEF NotAhead
<1>6. PICK t \in [Key -> Entry] : t = [table[x] EXCEPT ![k] = e]  BY Zenon, <1>0 DEF TypeOK
<1>7. \A j \in Key : NotAhead(t[j])' /\ t[j].ltime <= tableClock'[x] + 1
  <2> SUFFICES ASSUME NEW j \in Key
               PROVE  NotAhead(t[j])' /\ t[j].ltime <= tableClock'[x] + 1
    OBVIOUS
  <2>1. CASE j = k
    <3>1. t[j] = e  BY <1>6, <2>1, <1>0 DEF TypeOK
    <3> QED  BY <3>1, <1>5
  <2>2. CASE j # k
    <3>1. t[j] = table[x][j] /\ t[j] \in Entry  BY <1>6, <2>2, <1>0 DEF TypeOK
    <3>2. PICK f \in Entry : f = t[j]  BY <3>1
    <3>3. f.ltime \in Time /\ f.node \in Node  BY DEF Entry
    <3>4. NotAhead(f) /\ f.ltime <= tableClock[x] + 1
      BY <3>1, <3>2 DEF IInv, TablesAhead, TablesLocal
    <3>5. NotAhead(f)'  BY <1>0, <1>3, <3>3, <3>4, NotAheadStays
    <3>6. f.ltime <= tableClock'[x] + 1  BY <3>3, <3>4, <1>1, <1>3 DEF Time
    <3> QED  BY <3>2, <3>5, <3>6
  <2> QED  BY <2>1, <2>2
<1>8. SetTable(x, t)  BY <1>6, Zenon DEF LocalOperation
<1>9. /\ table' = [table EXCEPT ![x] = t]
      /\ table' \in [Node -> [Key -> Entry]]
      /\ entriesNumber' \in [Node -> Int]
      /\ TablesAhead' /\ TablesLocal'
  <2>1. table' = [table EXCEPT ![x] = t] /\ entriesNumber' \in [Node -> Int]
    BY <1>0, <1>8, SetTableFacts
  <2> QED  BY Zenon, <1>3, <1>7, <2>1, TableStep
<1>10. PICK q \in SUBSET TableEvent : q = Queued(tableQ[x], EventOf(k, e))
  <2>1. EventOf(k, e) \in TableEvent  BY EntryTypes
  <2>2. tableQ[x] \subseteq TableEvent  BY <1>0 DEF TypeOK
  <2> QED  BY Zenon, <2>1, <2>2 DEF Queued
<1>11. \A ev \in q : NotAhead(ev)'
  <2>1. NotAhead(EventOf(k, e))'  BY <1>5 DEF NotAhead, EventOf
  <2>2. ASSUME NEW ev \in tableQ[x] PROVE NotAhead(ev)'
    <3>1. ev \in TableEvent  BY <1>0, <2>2 DEF TypeOK
    <3>2. ev.ltime \in Time /\ ev.node \in Node  BY <3>1 DEF TableEvent
    <3>3. NotAhead(ev)  BY <2>2 DEF IInv, QueuesAhead
    <3> QED  BY <1>0, <1>3, <3>2, <3>3, NotAheadStays
  <2>3. \A ev \in q : ev \in tableQ[x] \/ ev = EventOf(k, e)  BY SMTT(60), <1>10 DEF Queued
  <2> QED  BY <2>1, <2>2, <2>3
<1>12. tableQ' = [tableQ EXCEPT ![x] = q]  BY SMTT(60), <1>0, <1>10 DEF LocalOperation, TypeOK
<1>13. tableQ' \in [Node -> SUBSET TableEvent] /\ QueuesAhead'
  BY Zenon, <1>3, <1>11, <1>12, QueueStep
<1>14. ConnsAhead' /\ HandlersAhead' /\ HandlersLocal'  BY <1>3, <1>4, Frames
<1>15. TypeOK'  BY Zenon, <1>0, <1>3, <1>4, <1>9, <1>13 DEF TypeOK, ClockGrows
<1>16. table' = [table EXCEPT ![x][k] = e]  BY <1>0, <1>6, <1>9 DEF TypeOK
<1> QED  BY Zenon, <1>9, <1>13, <1>14, <1>15, <1>16 DEF IInv

LEMMA OperateStep ==
    ASSUME IInv, NEW x \in Node, NEW k \in Key,
           CreateEntry(x, k) \/ UpdateEntry(x, k) \/ DeleteEntry(x, k)
    PROVE  /\ IInv'
           /\ \E e \in Entry : /\ e.ltime = tableClock[x] + 1
                               /\ table' = [table EXCEPT ![x][k] = e]
<1>1. tableClock[x] + 1 \in Time
  BY TablesAssumption DEF IInv, TypeOK, Time
<1>2. NewEntry(tableClock[x] + 1, x) \in Entry /\ Tombstone(tableClock[x] + 1, x) \in Entry
  BY <1>1, EntryTypes
<1>3. PICK e \in Entry : /\ LocalOperation(x, k, e)
                         /\ e.ltime = tableClock[x] + 1 /\ e.node = x
  BY <1>2 DEF CreateEntry, UpdateEntry, DeleteEntry, NewEntry, Tombstone
<1> QED  BY <1>3, LocalOperationStep

\* An entry that is replaced while present does not go back.
Newer(e, f) == e.present /\ f.present => e.ltime <= f.ltime

TablesNewer == \A x \in Node, k \in Key : Newer(table[x][k], table'[x][k])

\* The step of an action that leaves the tables alone.
LEMMA SameTables ==
    ASSUME TypeOK, UNCHANGED table
    PROVE  TablesNewer
<1>1. \A x \in Node, k \in Key : table[x][k].ltime \in Int
  BY DEF TypeOK, Entry, Time
<1> QED  BY <1>1 DEF TablesNewer, Newer

\* Replacing each entry of one node by one that is as new, with the clock alone.
LEMMA RewriteStep ==
    ASSUME IInv, UNCHANGED tableClock, NEW x \in Node, NEW t \in [Key -> Entry],
           table' = [table EXCEPT ![x] = t],
           \A k \in Key : /\ NotAhead(t[k]) /\ t[k].ltime <= tableClock[x] + 1
                          /\ Newer(table[x][k], t[k])
    PROVE  /\ ClockGrows
           /\ table' \in [Node -> [Key -> Entry]]
           /\ TablesAhead' /\ TablesLocal'
           /\ TablesNewer
<1>0. TypeOK  BY DEF IInv
<1>1. ClockGrows  BY <1>0, ClockSame
<1>2. \A k \in Key : NotAhead(t[k])' /\ t[k].ltime <= tableClock'[x] + 1
  BY DEF NotAhead
<1>3. table' \in [Node -> [Key -> Entry]] /\ TablesAhead' /\ TablesLocal'
  BY ZenonT(60), <1>1, <1>2, TableStep
<1>4. TablesNewer
  <2> SUFFICES ASSUME NEW y \in Node, NEW k \in Key
               PROVE  Newer(table[y][k], table'[y][k])
    BY DEF TablesNewer
  <2>1. CASE y = x
    <3>1. table'[y] = t  BY <1>0, <2>1 DEF TypeOK
    <3> QED  BY <2>1, <3>1
  <2>2. CASE y # x
    <3>1. table'[y] = table[y]  BY <1>0, <2>2 DEF TypeOK
    <3>2. table[y][k].ltime \in Int  BY <1>0 DEF TypeOK, Entry, Time
    <3> QED  BY <3>1, <3>2 DEF Newer
  <2> QED  BY <2>1, <2>2
<1> QED  BY <1>1, <1>3, <1>4

\* What is known of an entry in a table.
LEMMA EntryFacts ==
    ASSUME IInv, NEW x \in Node, NEW k \in Key
    PROVE  /\ table[x][k] \in Entry /\ NotAhead(table[x][k])
           /\ table[x][k].ltime <= tableClock[x] + 1
           /\ table[x][k].ltime \in Time /\ table[x][k].ltime \in Int
           /\ table[x][k].node \in Node
           /\ Newer(table[x][k], table[x][k])
<1>1. table[x][k] \in Entry  BY DEF IInv, TypeOK
<1>2. NotAhead(table[x][k]) /\ table[x][k].ltime <= tableClock[x] + 1
  BY DEF IInv, TablesAhead, TablesLocal
<1>3. table[x][k].ltime \in Time /\ table[x][k].node \in Node  BY <1>1 DEF Entry
<1>4. table[x][k].ltime \in Int  BY <1>3 DEF Time
<1> QED  BY <1>1, <1>2, <1>3, <1>4 DEF Newer

\* No entry at all is never ahead.
LEMMA NoEntryFacts ==
    ASSUME IInv, NEW x \in Node, NEW e
    PROVE  /\ NoEntry(x) \in Entry /\ NotAhead(NoEntry(x))
           /\ NoEntry(x).ltime <= tableClock[x] + 1 /\ Newer(e, NoEntry(x))
<1>1. tableClock[x] \in Nat  BY DEF IInv, TypeOK
<1>2. NoEntry(x) \in Entry  BY EntryTypes
<1> QED  BY <1>1, <1>2 DEF NoEntry, NotAhead, Newer

(***************************************************************************)
(* The attachments.                                                        *)
(***************************************************************************)
\* An action that touches only attachments, queues and inSync.
LEMMA JoinStep ==
    ASSUME IInv, NEW x \in Node, JoinNetwork(x) \/ JoinNetworkSynced(x)
    PROVE  IInv' /\ TablesNewer
<1>0. TypeOK  BY DEF IInv
<1>1. UNCHANGED <<entriesNumber, tableClock, table, conn, handlers, view>>
  BY DEF JoinNetwork, JoinNetworkSynced
<1>2. ClockGrows  BY <1>0, <1>1, ClockSame
<1>3. TablesAhead' /\ TablesLocal' /\ ConnsAhead' /\ HandlersAhead' /\ HandlersLocal'
  BY <1>1, <1>2, Frames
<1>4. epoch' \in [Node -> 0..MaxEpoch]
  <2>1. epoch \in [Node -> 0..MaxEpoch] /\ MaxEpoch \in Nat  BY <1>0, TablesAssumption DEF TypeOK
  <2>2. CASE JoinNetworkSynced(x)  BY <2>1, <2>2 DEF JoinNetworkSynced
  <2>3. CASE JoinNetwork(x)
    <3>1. epoch[x] < MaxEpoch /\ epoch' = [epoch EXCEPT ![x] = @ + 1]
      BY <2>3 DEF JoinNetwork
    <3> QED  BY <2>1, <3>1
  <2> QED  BY <2>2, <2>3
<1>5. att' \in [Node -> [Node -> Attachment]]
  <2>1. CASE JoinNetworkSynced(x)  BY <1>0, <2>1 DEF JoinNetworkSynced, TypeOK
  <2>2. CASE JoinNetwork(x)
    <3>1. PICK r : r = [epoch |-> epoch[x] + 1, reap |-> 0]  BY Zenon
    <3>2. att' = [att EXCEPT ![x][x] = r]  BY <2>2, <3>1, Zenon DEF JoinNetwork
    <3>3. r \in Attachment
      BY <1>0, <2>2, <3>1, TablesAssumption DEF JoinNetwork, TypeOK, Attachment
    <3> QED  BY <1>0, <3>2, <3>3 DEF TypeOK
  <2> QED  BY <2>1, <2>2
<1>6. inSync' \in [Node -> BOOLEAN]
  BY <1>0, Zenon DEF JoinNetwork, JoinNetworkSynced, TypeOK
<1>7. tableQ' \in [Node -> SUBSET TableEvent] /\ QueuesAhead'
  <2>1. CASE JoinNetworkSynced(x)
    <3>1. UNCHANGED tableQ  BY <2>1 DEF JoinNetworkSynced
    <3> QED  BY <1>0, <1>2, <3>1, Frames DEF TypeOK
  <2>2. CASE JoinNetwork(x)
    <3>1. tableQ' = [tableQ EXCEPT ![x] = {}]  BY <2>2 DEF JoinNetwork
    <3> QED  BY ZenonT(60), <1>2, <3>1, QueueStep
  <2> QED  BY <2>1, <2>2
<1>8. TypeOK'  BY <1>0, <1>1, <1>4, <1>5, <1>6, <1>7 DEF TypeOK
<1>9. TablesNewer  BY <1>0, <1>1, SameTables
<1> QED  BY <1>3, <1>7, <1>8, <1>9 DEF IInv

\* x leaves the network: its live entries are one ahead of the clock at most.
LEMMA LeaveStep ==
    ASSUME IInv, NEW x \in Node, LeaveNetwork(x)
    PROVE  IInv' /\ TablesNewer
<1>0. TypeOK  BY DEF IInv
<1>1. UNCHANGED <<inSync, tableClock, tableQ, conn, handlers>>  BY DEF LeaveNetwork
<1>2. \A k \in Key : /\ LeftEntry(x, table[x][k]) \in Entry
                     /\ NotAhead(LeftEntry(x, table[x][k]))
                     /\ LeftEntry(x, table[x][k]).ltime <= tableClock[x] + 1
                     /\ Newer(table[x][k], LeftEntry(x, table[x][k]))
  <2> SUFFICES ASSUME NEW k \in Key
               PROVE  /\ LeftEntry(x, table[x][k]) \in Entry
                      /\ NotAhead(LeftEntry(x, table[x][k]))
                      /\ LeftEntry(x, table[x][k]).ltime <= tableClock[x] + 1
                      /\ Newer(table[x][k], LeftEntry(x, table[x][k]))
    OBVIOUS
  <2>1. PICK e \in Entry : e = table[x][k]  BY EntryFacts
  <2>2. /\ NotAhead(e) /\ e.ltime <= tableClock[x] + 1
        /\ e.ltime \in Int /\ Newer(e, e)
    BY <2>1, EntryFacts
  <2>3. CASE e.present /\ e.node = x /\ ~e.deleting
    <3>1. LeftEntry(x, e) = Tombstone(e.ltime + 1, x)  BY <2>3 DEF LeftEntry
    <3>2. e.ltime <= tableClock[x] /\ tableClock[x] \in 0..MaxTime
      BY <1>0, <2>2, <2>3 DEF NotAhead, TypeOK
    <3>3. e.ltime + 1 \in Time
      BY <2>2, <3>2, TablesAssumption DEF Time, Entry
    <3>4. Tombstone(e.ltime + 1, x) \in Entry  BY <3>3, EntryTypes
    <3>5. /\ NotAhead(Tombstone(e.ltime + 1, x))
          /\ Tombstone(e.ltime + 1, x).ltime <= tableClock[x] + 1
          /\ Newer(e, Tombstone(e.ltime + 1, x))
      BY <2>2, <3>2 DEF Tombstone, NotAhead, Newer
    <3> QED  BY <2>1, <3>1, <3>4, <3>5
  <2>4. CASE e.present /\ e.node # x
    <3>1. LeftEntry(x, e) = NoEntry(x)  BY <2>4 DEF LeftEntry
    <3> QED  BY <2>1, <3>1, NoEntryFacts
  <2>5. CASE ~(e.present /\ e.node = x /\ ~e.deleting) /\ ~(e.present /\ e.node # x)
    <3>1. LeftEntry(x, e) = e  BY <2>5 DEF LeftEntry
    <3> QED  BY <2>1, <2>2, <3>1
  <2> QED  BY SMTT(60), <2>3, <2>4, <2>5
<1>3. PICK t \in [Key -> Entry] : t = [k \in Key |-> LeftEntry(x, table[x][k])]  BY Zenon, <1>2
<1>4. \A k \in Key : /\ NotAhead(t[k]) /\ t[k].ltime <= tableClock[x] + 1
                     /\ Newer(table[x][k], t[k])
  BY <1>2, <1>3
<1>4a. SetTable(x, t)  BY <1>3, Zenon DEF LeaveNetwork
<1>5. table' = [table EXCEPT ![x] = t] /\ entriesNumber' \in [Node -> Int]
  BY <1>0, <1>4a, SetTableFacts
<1>6. /\ ClockGrows
      /\ table' \in [Node -> [Key -> Entry]]
      /\ TablesAhead' /\ TablesLocal' /\ TablesNewer
  BY Zenon, <1>1, <1>4, <1>5, RewriteStep
<1>7. QueuesAhead' /\ ConnsAhead' /\ HandlersAhead' /\ HandlersLocal'
  BY <1>1, <1>6, Frames
<1>8. epoch' \in [Node -> 0..MaxEpoch] /\ epoch[x] + 1 \in 0..MaxEpoch
  <2>1. epoch[x] < MaxEpoch /\ epoch' = [epoch EXCEPT ![x] = @ + 1]  BY DEF LeaveNetwork
  <2>2. epoch \in [Node -> 0..MaxEpoch] /\ MaxEpoch \in Nat  BY <1>0, TablesAssumption DEF TypeOK
  <2> QED  BY <2>1, <2>2
<1>9. att' \in [Node -> [Node -> Attachment]]
  <2>1. PICK r : r = [epoch |-> epoch[x] + 1, reap |-> NetworkReap]  BY Zenon
  <2>2. att' = [att EXCEPT ![x][x] = r]  BY <2>1, Zenon DEF LeaveNetwork
  <2>3. r \in Attachment  BY <1>8, <2>1, TablesAssumption DEF Attachment
  <2> QED  BY <1>0, <2>2, <2>3 DEF TypeOK
<1>10. view' \in [Node -> SUBSET Key]
  <2>1. view \in [Node -> SUBSET Key]  BY <1>0 DEF TypeOK
  <2>2. PICK s : s = {k \in Key : Live(table[x][k])}  BY Zenon
  <2>3. view' = [view EXCEPT ![x] = @ \ s]  BY <2>2, Zenon DEF LeaveNetwork
  <2> QED  BY <2>1, <2>3
<1>11. TypeOK'  BY <1>0, <1>1, <1>5, <1>6, <1>8, <1>9, <1>10 DEF TypeOK, ClockGrows
<1> QED  BY <1>6, <1>7, <1>11 DEF IInv

\* x hears of a join of y.
LEMMA HearJoinStep ==
    ASSUME IInv, NEW x \in Node, NEW y \in Node, NEW e \in 1..MaxEpoch, HearJoin(x, y, e)
    PROVE  IInv' /\ TablesNewer
<1>0. TypeOK  BY DEF IInv
<1>1. UNCHANGED <<epoch, inSync, entriesNumber, tableClock, table, tableQ, conn,
                  handlers, view>>
  BY DEF HearJoin
<1>2. ClockGrows  BY <1>0, <1>1, ClockSame
<1>3. /\ TablesAhead' /\ TablesLocal' /\ QueuesAhead' /\ ConnsAhead'
      /\ HandlersAhead' /\ HandlersLocal'
  BY <1>1, <1>2, Frames
<1>4. att' \in [Node -> [Node -> Attachment]]
  <2>1. PICK r : r = [epoch |-> e, reap |-> 0]  BY ZenonT(60)
  <2>2. att' = [att EXCEPT ![x][y] = r]  BY <2>1, Zenon DEF HearJoin
  <2>3. r \in Attachment  BY <2>1, TablesAssumption DEF Attachment
  <2> QED  BY <1>0, <2>2, <2>3 DEF TypeOK
<1>5. TypeOK'  BY <1>0, <1>1, <1>4 DEF TypeOK
<1>6. TablesNewer  BY <1>0, <1>1, SameTables
<1> QED  BY <1>3, <1>5, <1>6 DEF IInv

\* x hears of a leave of y: the live entries of y become tombstones of the same time.
LEMMA HearLeaveStep ==
    ASSUME IInv, NEW x \in Node, NEW y \in Node, NEW e \in 1..MaxEpoch, HearLeave(x, y, e)
    PROVE  IInv' /\ TablesNewer
<1>0. TypeOK  BY DEF IInv
<1>1. UNCHANGED <<epoch, inSync, tableClock, tableQ, conn, handlers>>  BY DEF HearLeave
<1>2. ASSUME NEW k \in Key, k \in LiveKeys(x, y)
      PROVE  /\ Tombstone(table[x][k].ltime, y) \in Entry
             /\ NotAhead(Tombstone(table[x][k].ltime, y))
             /\ Tombstone(table[x][k].ltime, y).ltime <= tableClock[x] + 1
             /\ Newer(table[x][k], Tombstone(table[x][k].ltime, y))
  <2>1. PICK f \in Entry : f = table[x][k]  BY EntryFacts
  <2>2. /\ NotAhead(f) /\ f.ltime <= tableClock[x] + 1
        /\ f.ltime \in Time /\ f.ltime \in Int
    BY <2>1, EntryFacts
  <2>3. f.node = y /\ ~f.deleting  BY <1>2, <2>1 DEF LiveKeys, Live
  <2>4. f.ltime <= tableClock[y] /\ tableClock[y] \in Int
    BY <1>0, <2>2, <2>3 DEF NotAhead, TypeOK
  <2>5. Tombstone(f.ltime, y) \in Entry  BY SMTT(60), <2>2, EntryTypes
  <2>6. PICK r : r = Tombstone(f.ltime, y)  BY Zenon
  <2>7. r.ltime = f.ltime /\ r.node = y /\ r.deleting  BY <2>6 DEF Tombstone
  <2>8. f.ltime <= tableClock[y] + 1  BY <2>2, <2>4
  <2>9. NotAhead(r)  BY <2>7, <2>8 DEF NotAhead
  <2>10. Newer(f, r)  BY <2>2, <2>7 DEF Newer
  <2> QED  BY <2>1, <2>2, <2>5, <2>6, <2>7, <2>9, <2>10
<1>3. PICK t : t = [k \in Key |-> IF k \in LiveKeys(x, y)
                                  THEN Tombstone(table[x][k].ltime, y) ELSE table[x][k]]
  BY Zenon
<1>4. t \in [Key -> Entry]
      /\ \A k \in Key : /\ NotAhead(t[k]) /\ t[k].ltime <= tableClock[x] + 1
                         /\ Newer(table[x][k], t[k])
  BY <1>2, <1>3, EntryFacts
<1>5. SetTable(x, t)  BY <1>3, Zenon DEF HearLeave
<1>6. table' = [table EXCEPT ![x] = t] /\ entriesNumber' \in [Node -> Int]
  BY <1>0, <1>5, SetTableFacts
<1>7. /\ ClockGrows
      /\ table' \in [Node -> [Key -> Entry]]
      /\ TablesAhead' /\ TablesLocal' /\ TablesNewer
  BY Zenon, <1>1, <1>4, <1>6, RewriteStep
<1>8. QueuesAhead' /\ ConnsAhead' /\ HandlersAhead' /\ HandlersLocal'
  BY <1>1, <1>7, Frames
<1>9. att' \in [Node -> [Node -> Attachment]]
  <2>1. PICK r : r = [epoch |-> e, reap |-> NetworkReap]  BY ZenonT(60)
  <2>2. att' = [att EXCEPT ![x][y] = r]  BY <2>1, Zenon DEF HearLeave
  <2>3. r \in Attachment  BY <2>1, TablesAssumption DEF Attachment
  <2> QED  BY <1>0, <2>2, <2>3 DEF TypeOK
<1>10. view' \in [Node -> SUBSET Key]
  <2>1. view \in [Node -> SUBSET Key]  BY <1>0 DEF TypeOK
  <2>2. view' = [view EXCEPT ![x] = @ \ LiveKeys(x, y)]  BY DEF HearLeave
  <2> QED  BY <2>1, <2>2
<1>11. TypeOK'  BY SMTT(60), <1>0, <1>1, <1>6, <1>7, <1>9, <1>10 DEF TypeOK, ClockGrows
<1> QED  BY <1>7, <1>8, <1>11 DEF IInv

\* x takes y for failed or left and forgets its entries.
LEMMA NodeGoneStep ==
    ASSUME IInv, NEW x \in Node, NEW y \in Node, NodeGone(x, y)
    PROVE  IInv' /\ TablesNewer
<1>0. TypeOK  BY DEF IInv
<1>1. UNCHANGED <<epoch, inSync, tableClock, tableQ, conn, handlers>>  BY DEF NodeGone
<1>2. PICK t : t = [k \in Key |-> IF table[x][k].node = y THEN NoEntry(x) ELSE table[x][k]]
  BY Zenon
<1>3. t \in [Key -> Entry]
      /\ \A k \in Key : /\ NotAhead(t[k]) /\ t[k].ltime <= tableClock[x] + 1
                         /\ Newer(table[x][k], t[k])
  BY Zenon, <1>2, EntryFacts, NoEntryFacts
<1>4. SetTable(x, t)  BY <1>2, Zenon DEF NodeGone
<1>5. table' = [table EXCEPT ![x] = t] /\ entriesNumber' \in [Node -> Int]
  BY <1>0, <1>4, SetTableFacts
<1>6. /\ ClockGrows
      /\ table' \in [Node -> [Key -> Entry]]
      /\ TablesAhead' /\ TablesLocal' /\ TablesNewer
  BY Zenon, <1>1, <1>3, <1>5, RewriteStep
<1>7. QueuesAhead' /\ ConnsAhead' /\ HandlersAhead' /\ HandlersLocal'
  BY <1>1, <1>6, Frames
<1>8. att' \in [Node -> [Node -> Attachment]]
  <2>1. att' = [att EXCEPT ![x][y] = NoAttachment]  BY DEF NodeGone
  <2>2. NoAttachment \in Attachment  BY TablesAssumption DEF NoAttachment, Attachment
  <2> QED  BY <1>0, <2>1, <2>2 DEF TypeOK
<1>9. view' \in [Node -> SUBSET Key]
  <2>1. view \in [Node -> SUBSET Key]  BY <1>0 DEF TypeOK
  <2>2. view' = [view EXCEPT ![x] = @ \ LiveKeys(x, y)]  BY DEF NodeGone
  <2> QED  BY <2>1, <2>2
<1>10. TypeOK'  BY <1>0, <1>1, <1>5, <1>6, <1>8, <1>9 DEF TypeOK, ClockGrows
<1> QED  BY <1>6, <1>7, <1>10 DEF IInv

-----------------------------------------------------------------------------

(***************************************************************************)
(* Table events.                                                           *)
(***************************************************************************)
\* The goroutine that handles an event, and what is known of the event.
LEMMA HandlerFacts ==
    ASSUME IInv, NEW y \in Node, NEW h \in Handler, handlers[y][h].pc # "idle"
    PROVE  \E pc \in {"apply", "notify", "forward"}, ev \in TableEvent, sync \in BOOLEAN :
               /\ handlers[y][h] = [pc |-> pc, ev |-> ev, sync |-> sync]
               /\ NotAhead(ev) /\ ev.ltime <= tableClock[y] + 1
               /\ ev.ltime \in Time /\ ev.node \in Node /\ ev.key \in Key
<1>1. handlers[y][h] \in HandlerState  BY DEF IInv, TypeOK
<1>2. handlers[y][h] # Idle  BY DEF Idle
<1>3. PICK pc \in {"apply", "notify", "forward"}, ev \in TableEvent, sync \in BOOLEAN :
          handlers[y][h] = [pc |-> pc, ev |-> ev, sync |-> sync]
  BY <1>1, <1>2 DEF HandlerState
<1>4. handlers[y][h].ev = ev  BY <1>3
<1>5. NotAhead(ev) /\ ev.ltime <= tableClock[y] + 1
  BY <1>2, <1>4 DEF IInv, HandlersAhead, HandlersLocal
<1>6. ev.ltime \in Time /\ ev.node \in Node /\ ev.key \in Key  BY DEF TableEvent
<1> QED  BY <1>3, <1>5, <1>6

\* The check of an event that is not ahead, once the clock has witnessed it.
LEMMA CheckStep ==
    ASSUME IInv, ClockGrows, NEW y \in Node, NEW h \in Handler, NEW ev \in TableEvent,
           NotAhead(ev), ev.ltime <= tableClock'[y] + 1, Check(y, h, ev)
    PROVE  /\ handlers' \in [Node -> [Handler -> HandlerState]]
           /\ HandlersAhead' /\ HandlersLocal'
<1>0. TypeOK  BY DEF IInv
<1>1. inSync[y] \in BOOLEAN  BY <1>0 DEF TypeOK
<1>2. PICK r : r = IF In(y, y) /\ ev.node \in NetworkNodes(y)
                   THEN Handling("apply", ev, inSync[y]) ELSE Idle
  BY Zenon
<1>3. handlers' = [handlers EXCEPT ![y][h] = r]  BY <1>2, Zenon DEF Check
<1>4. r \in HandlerState /\ (r # Idle => r.ev = ev)
  BY <1>1, <1>2 DEF Handling, HandlerState, Idle
<1>5. ev.ltime \in Time /\ ev.node \in Node  BY DEF TableEvent
<1>6. NotAhead(ev)'  BY <1>0, <1>5, NotAheadStays
<1>7. r # Idle => NotAhead(r.ev)' /\ r.ev.ltime <= tableClock'[y] + 1
  BY <1>4, <1>6 DEF NotAhead
<1> QED  BY Zenon, <1>3, <1>4, <1>7, HandlerStep

\* An event that is not stale replaces the entry.
LEMMA ApplyStep ==
    ASSUME IInv, NEW y \in Node, NEW h \in Handler, Apply(y, h)
    PROVE  IInv' /\ TablesNewer
<1>0. TypeOK  BY DEF IInv
<1>1. UNCHANGED <<epoch, att, inSync, tableClock, tableQ, conn, view>>  BY DEF Apply
<1>2. ClockGrows  BY <1>0, <1>1, ClockSame
<1>3. QueuesAhead' /\ ConnsAhead'  BY SMTT(60), <1>1, <1>2, Frames
<1>4. handlers[y][h].pc = "apply"  BY DEF Apply
<1>5. PICK pc \in {"apply", "notify", "forward"}, ev \in TableEvent, sync \in BOOLEAN :
         /\ handlers[y][h] = [pc |-> pc, ev |-> ev, sync |-> sync]
         /\ NotAhead(ev) /\ ev.ltime <= tableClock[y] + 1
         /\ ev.ltime \in Time /\ ev.node \in Node /\ ev.key \in Key
  BY Zenon, <1>4, HandlerFacts
<1>6. handlers[y][h].ev = ev  BY <1>5
<1>7. CASE Ignores(table[y][ev.key], ev, h \in Conn)
  <2>1. handlers' = [handlers EXCEPT ![y][h] = Idle] /\ UNCHANGED <<table, entriesNumber>>
    BY <1>6, <1>7 DEF Apply
  <2>2. Idle \in HandlerState  BY DEF HandlerState
  <2>3. /\ handlers' \in [Node -> [Handler -> HandlerState]]
        /\ HandlersAhead' /\ HandlersLocal'
    BY Zenon, <1>2, <2>1, <2>2, HandlerStep
  <2>4. TablesAhead' /\ TablesLocal'  BY <1>2, <2>1, Frames
  <2>5. TablesNewer  BY <1>0, <2>1, SameTables
  <2>6. TypeOK'  BY <1>0, <1>1, <2>1, <2>3 DEF TypeOK
  <2> QED  BY <1>3, <2>3, <2>4, <2>5, <2>6 DEF IInv
<1>8. CASE ~Ignores(table[y][ev.key], ev, h \in Conn)
  <2>1. SetTable(y, [table[y] EXCEPT ![ev.key] = EntryOf(ev)])
    BY <1>6, <1>8, Zenon DEF Apply
  <2>2. PICK q : q = IF ~table[y][ev.key].present /\ ev.deleting THEN "forward" ELSE "notify"
    OBVIOUS
  <2>3. handlers' = [handlers EXCEPT ![y][h] = Handling(q, ev, handlers[y][h].sync)]
    BY <1>6, <1>8, <2>2, Zenon DEF Apply
  <2>4. PICK r : r = [pc |-> q, ev |-> ev, sync |-> sync]  BY Zenon
  <2>5. r \in HandlerState  BY <2>2, <2>4 DEF HandlerState
  <2>6. handlers' = [handlers EXCEPT ![y][h] = r]
    <3>1. Handling(q, ev, handlers[y][h].sync) = r  BY <1>5, <2>4 DEF Handling
    <3> QED  BY <2>3, <3>1, Zenon
  <2>7. NotAhead(ev)' /\ ev.ltime <= tableClock'[y] + 1 /\ r.ev = ev
    BY <1>1, <1>5, <2>4 DEF NotAhead
  <2>8. /\ handlers' \in [Node -> [Handler -> HandlerState]]
        /\ HandlersAhead' /\ HandlersLocal'
    <3>1. NotAhead(r.ev)' /\ r.ev.ltime <= tableClock'[y] + 1  BY <2>7 DEF NotAhead
    <3> QED  BY Zenon, <1>2, <2>5, <2>6, <3>1, HandlerStep
  <2>9. PICK f \in Entry : f = EntryOf(ev)  BY EntryTypes
  <2>10. f.ltime = ev.ltime /\ f.node = ev.node /\ f.deleting = ev.deleting
    BY <2>9 DEF EntryOf
  <2>11. NotAhead(f) /\ f.ltime <= tableClock[y] + 1  BY <1>5, <2>10 DEF NotAhead
  <2>12. Newer(table[y][ev.key], f)
    <3>1. table[y][ev.key].ltime \in Int /\ ev.ltime \in Int
      BY <1>5, EntryFacts DEF Time
    <3> QED  BY <1>8, <2>10, <3>1 DEF Ignores, Newer
  <2>13. PICK t : t = [table[y] EXCEPT ![ev.key] = f]  BY Zenon
  <2>14. t \in [Key -> Entry]  BY <1>0, <1>5, <2>13 DEF TypeOK
  <2>15. \A k \in Key : /\ NotAhead(t[k]) /\ t[k].ltime <= tableClock[y] + 1
                        /\ Newer(table[y][k], t[k])
    <3> SUFFICES ASSUME NEW k \in Key
                 PROVE  /\ NotAhead(t[k]) /\ t[k].ltime <= tableClock[y] + 1
                        /\ Newer(table[y][k], t[k])
      OBVIOUS
    <3>1. CASE k = ev.key
      <4>1. t[k] = f  BY <1>0, <2>13, <3>1 DEF TypeOK
      <4> QED  BY <2>11, <2>12, <3>1, <4>1
    <3>2. CASE k # ev.key
      <4>1. t[k] = table[y][k]  BY <1>0, <2>13, <3>2 DEF TypeOK
      <4> QED  BY <4>1, EntryFacts
    <3> QED  BY <3>1, <3>2
  <2>16. SetTable(y, t)  BY <2>1, <2>9, <2>13
  <2>17. table' = [table EXCEPT ![y] = t] /\ entriesNumber' \in [Node -> Int]
    BY <1>0, <2>16, SetTableFacts
  <2>18. /\ table' \in [Node -> [Key -> Entry]]
         /\ TablesAhead' /\ TablesLocal' /\ TablesNewer
    BY Zenon, <1>1, <2>14, <2>15, <2>17, RewriteStep
  <2>19. TypeOK'  BY <1>0, <1>1, <2>8, <2>17, <2>18 DEF TypeOK
  <2> QED  BY <1>3, <2>8, <2>18, <2>19 DEF IInv
<1> QED  BY <1>7, <1>8

\* The watchers are told, and the event may be queued again.
LEMMA NotifyStep ==
    ASSUME IInv, NEW y \in Node, NEW h \in Handler, Notify(y, h)
    PROVE  IInv' /\ TablesNewer
<1>0. TypeOK  BY DEF IInv
<1>1. UNCHANGED <<epoch, att, inSync, entriesNumber, tableClock, table, conn>>
  BY DEF Notify
<1>2. ClockGrows  BY <1>0, <1>1, ClockSame
<1>3. TablesAhead' /\ TablesLocal' /\ ConnsAhead'  BY <1>1, <1>2, Frames
<1>4. handlers[y][h].pc # "idle"  BY DEF Notify
<1>5. PICK pc \in {"apply", "notify", "forward"}, ev \in TableEvent, sync \in BOOLEAN :
         /\ handlers[y][h] = [pc |-> pc, ev |-> ev, sync |-> sync]
         /\ NotAhead(ev) /\ ev.ltime <= tableClock[y] + 1
         /\ ev.ltime \in Time /\ ev.node \in Node /\ ev.key \in Key
  BY Zenon, <1>4, HandlerFacts
<1>6. handlers[y][h].ev = ev  BY <1>5
<1>7. /\ handlers' \in [Node -> [Handler -> HandlerState]]
      /\ HandlersAhead' /\ HandlersLocal'
  <2>1. handlers' = [handlers EXCEPT ![y][h] = Idle]  BY DEF Notify
  <2>2. Idle \in HandlerState  BY DEF HandlerState
  <2> QED  BY Zenon, <1>2, <2>1, <2>2, HandlerStep
<1>8. view' \in [Node -> SUBSET Key]
  <2>1. view \in [Node -> SUBSET Key]  BY <1>0 DEF TypeOK
  <2>2. PICK v : v = Told(view[y], handlers[y][h])  OBVIOUS
  <2>3. view' = [view EXCEPT ![y] = v]  BY <1>0, <2>2 DEF Notify, TypeOK
  <2>4. v \in SUBSET Key  BY <1>5, <1>6, <2>1, <2>2 DEF Told
  <2> QED  BY <2>1, <2>3, <2>4
<1>9. tableQ' \in [Node -> SUBSET TableEvent] /\ QueuesAhead'
  <2>1. CASE UNCHANGED tableQ  BY <1>0, <1>2, <2>1, Frames DEF TypeOK
  <2>2. CASE tableQ' = [tableQ EXCEPT ![y] = Queued(@, handlers[y][h].ev)]
    <3>1. PICK q \in SUBSET TableEvent : q = Queued(tableQ[y], ev)
      BY Zenon, <1>0 DEF TypeOK, Queued
    <3>2. tableQ' = [tableQ EXCEPT ![y] = q]  BY <1>0, <1>6, <2>2, <3>1 DEF TypeOK
    <3>3. ASSUME NEW m \in q PROVE NotAhead(m)'
      <4>1. m \in tableQ[y] \/ m = ev  BY SMTT(60), <3>1, <3>3 DEF Queued
      <4>2. NotAhead(m)  BY <1>5, <4>1 DEF IInv, QueuesAhead
      <4> QED  BY <1>1, <4>2 DEF NotAhead
    <3> QED  BY Zenon, <1>2, <3>2, <3>3, QueueStep
  <2>3. UNCHANGED tableQ \/ tableQ' = [tableQ EXCEPT ![y] = Queued(@, handlers[y][h].ev)]
    BY DEF Notify
  <2> QED  BY <2>1, <2>2, <2>3
<1>10. TypeOK'  BY <1>0, <1>1, <1>7, <1>8, <1>9 DEF TypeOK
<1>11. TablesNewer  BY <1>0, <1>1, SameTables
<1> QED  BY <1>3, <1>7, <1>9, <1>10, <1>11 DEF IInv

\* A gossiped event arrives.
LEMMA GossipStep ==
    ASSUME IInv, NEW x \in Node, NEW y \in Node, NEW ev \in tableQ[x], Gossip(x, y, ev)
    PROVE  IInv' /\ TablesNewer
<1>0. TypeOK  BY DEF IInv
<1>1. UNCHANGED <<epoch, att, inSync, entriesNumber, table, tableQ, conn, view>>
  BY Zenon DEF Gossip
<1>2. ev \in TableEvent /\ NotAhead(ev)  BY <1>0 DEF TypeOK, IInv, QueuesAhead
<1>3. ev.ltime \in Time  BY <1>2, Zenon DEF TableEvent
<1>4. tableClock[y] \in 0..MaxTime  BY <1>0 DEF TypeOK
<1>5. PICK c : c = WitnessTime(tableClock[y], ev.ltime)  BY Zenon
<1>6. c \in 0..MaxTime /\ tableClock[y] <= c /\ ev.ltime <= c + 1
  BY <1>3, <1>4, <1>5, WitnessGrows
<1>7. tableClock' = [tableClock EXCEPT ![y] = c]  BY <1>0, <1>5 DEF Gossip, TypeOK
<1>8. ClockGrows /\ tableClock'[y] = c  BY Zenon, <1>0, <1>6, <1>7, ClockSet
<1>9. TablesAhead' /\ TablesLocal' /\ QueuesAhead' /\ ConnsAhead'
  BY <1>1, <1>8, Frames
<1>10. "udp" \in Handler  BY DEF Handler
<1>11. /\ handlers' \in [Node -> [Handler -> HandlerState]]
       /\ HandlersAhead' /\ HandlersLocal'
  <2>1. Check(y, "udp", ev)  BY DEF Gossip
  <2>2. ev.ltime <= tableClock'[y] + 1  BY <1>6, <1>8
  <2> QED  BY <1>2, <1>8, <1>10, <2>1, <2>2, CheckStep
<1>12. TypeOK'  BY <1>0, <1>1, <1>8, <1>11 DEF TypeOK, ClockGrows
<1>13. TablesNewer  BY <1>0, <1>1, SameTables
<1> QED  BY <1>9, <1>11, <1>12, <1>13 DEF IInv

(***************************************************************************)
(* Bulk sync.                                                              *)
(***************************************************************************)
\* A message holds entries of the sender, none ahead of its owner.
LEMMA MessageFacts ==
    ASSUME IInv, NEW x \in Node, NEW b \in BOOLEAN
    PROVE  /\ Message(x, b) \in BulkSyncMessage
           /\ \A ev \in Message(x, b).events : NotAhead(ev)
<1>1. ASSUME NEW k \in Key
      PROVE  EventOf(k, table[x][k]) \in TableEvent /\ NotAhead(EventOf(k, table[x][k]))
  <2>1. PICK e \in Entry : e = table[x][k]  BY EntryFacts
  <2>2. NotAhead(e)  BY <2>1, EntryFacts
  <2>3. EventOf(k, e) \in TableEvent  BY EntryTypes
  <2>4. NotAhead(EventOf(k, e))  BY <2>2 DEF EventOf, NotAhead
  <2> QED  BY <2>1, <2>3, <2>4
<1>2. PICK s : s = Snapshot(x)  OBVIOUS
<1>3. \A ev \in s : ev \in TableEvent /\ NotAhead(ev)
  BY <1>1, <1>2 DEF Snapshot, Present
<1>4. tableClock[x] \in 0..MaxTime  BY DEF IInv, TypeOK
<1>5. Message(x, b) = [from |-> x, unsolicited |-> b, ltime |-> tableClock[x], events |-> s]
  BY <1>2 DEF Message
<1> QED  BY <1>3, <1>4, <1>5 DEF BulkSyncMessage

LEMMA BulkSyncStep ==
    ASSUME IInv, NEW x \in Node, NEW y \in Node, NEW c \in Conn, BulkSync(x, y, c)
    PROVE  IInv' /\ TablesNewer
<1>0. TypeOK  BY DEF IInv
<1>1. UNCHANGED <<epoch, att, inSync, entriesNumber, tableClock, table, tableQ,
                  handlers, view>>
  BY DEF BulkSync
<1>2. ClockGrows  BY <1>0, <1>1, ClockSame
<1>3. /\ TablesAhead' /\ TablesLocal' /\ QueuesAhead'
      /\ HandlersAhead' /\ HandlersLocal'
  BY <1>1, <1>2, Frames
<1>4. PICK s : s = {Message(x, TRUE)}  BY Zenon
<1>5. conn' = [conn EXCEPT ![y][c] = s]  BY <1>4, Zenon DEF BulkSync
<1>6. s \subseteq BulkSyncMessage  BY Zenon, <1>4, MessageFacts
<1>7. conn' \in [Node -> [Conn -> SUBSET BulkSyncMessage]]  BY <1>0, <1>5, <1>6 DEF TypeOK
<1>8. \A z \in Node, d \in Conn : conn'[z][d] \subseteq conn[z][d] \cup s
  BY <1>0, <1>5 DEF TypeOK
<1>9. \A m \in s : \A ev \in m.events : NotAhead(ev)'
  <2>1. \A m \in s : \A ev \in m.events : NotAhead(ev)  BY Zenon, <1>4, MessageFacts
  <2> QED  BY <1>1, <2>1 DEF NotAhead
<1>10. ConnsAhead'  BY Zenon, <1>2, <1>7, <1>8, <1>9, ConnStep
<1>11. TypeOK'  BY <1>0, <1>1, <1>7 DEF TypeOK
<1>12. TablesNewer  BY <1>0, <1>1, SameTables
<1> QED  BY <1>3, <1>10, <1>11, <1>12 DEF IInv

\* One event of a message.
LEMMA HandleBulkEventStep ==
    ASSUME IInv, NEW y \in Node, NEW c \in Conn, NEW m \in conn[y][c],
           NEW ev \in m.events, HandleBulkEvent(y, c, m, ev)
    PROVE  IInv' /\ TablesNewer
<1>0. TypeOK  BY DEF IInv
<1>1. UNCHANGED <<epoch, att, inSync, entriesNumber, table, tableQ, view>>
  BY DEF HandleBulkEvent
<1>2. m \in BulkSyncMessage  BY <1>0 DEF TypeOK
<1>3. ev \in TableEvent /\ NotAhead(ev)
  BY <1>2 DEF BulkSyncMessage, IInv, ConnsAhead
<1>4. ev.ltime \in Time  BY <1>3 DEF TableEvent
<1>5. tableClock[y] \in 0..MaxTime  BY <1>0 DEF TypeOK
<1>6. PICK t \in 0..MaxTime : t = SyncTime(tableClock[y], m) /\ tableClock[y] <= t
  BY <1>2, <1>5, SyncGrows
<1>7. PICK w \in 0..MaxTime : w = WitnessTime(t, ev.ltime) /\ t <= w /\ ev.ltime <= w + 1
  BY <1>4, WitnessGrows
<1>8. c \in Handler  BY DEF Handler
<1>9. /\ ClockGrows
      /\ handlers' \in [Node -> [Handler -> HandlerState]]
      /\ HandlersAhead' /\ HandlersLocal'
  <2>1. CASE ev.node = y
    <3>1. tableClock' = [tableClock EXCEPT ![y] = t] /\ UNCHANGED handlers
      BY <1>0, <1>6, <2>1 DEF HandleBulkEvent, TypeOK
    <3>2. ClockGrows  BY Zenon, <1>0, <1>6, <3>1, ClockSet
    <3> QED  BY <1>0, <3>1, <3>2, Frames, Zenon DEF TypeOK
  <2>2. CASE ev.node # y
    <3>1. tableClock' = [tableClock EXCEPT ![y] = w]
      BY <1>0, <1>6, <1>7, <2>2 DEF HandleBulkEvent, TypeOK
    <3>2. Check(y, c, ev)  BY <2>2 DEF HandleBulkEvent
    <3>3. tableClock[y] <= w  BY <1>5, <1>6, <1>7
    <3>4. ClockGrows /\ tableClock'[y] = w  BY Zenon, <1>0, <3>1, <3>3, ClockSet
    <3>5. ev.ltime <= tableClock'[y] + 1  BY <1>7, <3>4
    <3> QED  BY <1>3, <1>8, <3>2, <3>4, <3>5, CheckStep
  <2> QED  BY <2>1, <2>2
<1>10. TablesAhead' /\ TablesLocal' /\ QueuesAhead'  BY <1>1, <1>9, Frames
<1>11. PICK s : s = {[m EXCEPT !.events = @ \ {ev}]}  BY Zenon
<1>12. conn' = [conn EXCEPT ![y][c] = s]  BY <1>11, Zenon DEF HandleBulkEvent
<1>13. s \subseteq BulkSyncMessage  BY <1>2, <1>11 DEF BulkSyncMessage
<1>14. conn' \in [Node -> [Conn -> SUBSET BulkSyncMessage]]
  BY <1>0, <1>12, <1>13 DEF TypeOK
<1>15. \A z \in Node, d \in Conn : conn'[z][d] \subseteq conn[z][d] \cup s
  BY <1>0, <1>12 DEF TypeOK
<1>16. \A n \in s : \A f \in n.events : NotAhead(f)'
  <2> SUFFICES ASSUME NEW n \in s, NEW f \in n.events PROVE NotAhead(f)'
    OBVIOUS
  <2>1. f \in m.events  BY <1>2, <1>11 DEF BulkSyncMessage
  <2>2. f \in TableEvent /\ NotAhead(f)
    BY <1>2, <2>1 DEF BulkSyncMessage, IInv, ConnsAhead
  <2>3. f.ltime \in Time /\ f.node \in Node  BY <2>2 DEF TableEvent
  <2> QED  BY <1>0, <1>9, <2>2, <2>3, NotAheadStays
<1>17. ConnsAhead'  BY Zenon, <1>9, <1>14, <1>15, <1>16, ConnStep
<1>18. TypeOK'  BY <1>0, <1>1, <1>9, <1>14, Zenon DEF TypeOK, ClockGrows
<1>19. TablesNewer  BY <1>0, <1>1, SameTables
<1> QED  BY <1>9, <1>10, <1>17, <1>18, <1>19 DEF IInv

\* The end of a message, with or without an answer.
LEMMA HandledBulkSyncStep ==
    ASSUME IInv, NEW y \in Node, NEW c \in Conn, NEW m \in conn[y][c],
           HandledBulkSync(y, c, m)
    PROVE  IInv' /\ TablesNewer
<1>0. TypeOK  BY DEF IInv
<1>1. UNCHANGED <<epoch, att, inSync, entriesNumber, table, tableQ, handlers, view>>
  BY DEF HandledBulkSync
<1>2. m \in BulkSyncMessage  BY <1>0 DEF TypeOK
<1>3. tableClock[y] \in 0..MaxTime  BY <1>0 DEF TypeOK
<1>4. PICK t \in 0..MaxTime : t = SyncTime(tableClock[y], m) /\ tableClock[y] <= t
  BY SMTT(60), <1>2, <1>3, SyncGrows
<1>5. tableClock' = [tableClock EXCEPT ![y] = t]
  BY <1>0, <1>4, Zenon DEF HandledBulkSync, TypeOK
<1>6. ClockGrows  BY Zenon, <1>0, <1>4, <1>5, ClockSet
<1>7. /\ TablesAhead' /\ TablesLocal' /\ QueuesAhead'
      /\ HandlersAhead' /\ HandlersLocal'
  BY <1>1, <1>6, Frames, Zenon
<1>8. PICK s : s = {Message(y, FALSE)}  BY Zenon
<1>9. s \subseteq BulkSyncMessage  BY Zenon, <1>8, MessageFacts
<1>10. /\ conn' \in [Node -> [Conn -> SUBSET BulkSyncMessage]]
       /\ \A z \in Node, d \in Conn : conn'[z][d] \subseteq conn[z][d] \cup s
  <2>1. CASE conn' = [conn EXCEPT ![y][c] = {}]  BY <1>0, <2>1 DEF TypeOK
  <2>2. CASE \E d \in Conn : conn' = [conn EXCEPT ![y][c] = {}, ![m.from][d] = s]
    <3>1. PICK d \in Conn : conn' = [conn EXCEPT ![y][c] = {}, ![m.from][d] = s]  BY Zenon, <2>2
    <3>2. PICK k : k = [conn EXCEPT ![y][c] = {}]  BY ZenonT(60)
    <3>3. conn' = [k EXCEPT ![m.from][d] = s]  BY <3>1, <3>2
    <3>4. /\ k \in [Node -> [Conn -> SUBSET BulkSyncMessage]]
          /\ \A z \in Node, e \in Conn : k[z][e] \subseteq conn[z][e]
      BY <1>0, <3>2 DEF TypeOK
    <3>5. m.from \in Node  BY <1>2 DEF BulkSyncMessage
    <3> QED  BY <1>9, <3>3, <3>4, <3>5, Zenon
  <2>3. \/ conn' = [conn EXCEPT ![y][c] = {}]
        \/ \E d \in Conn : conn' = [conn EXCEPT ![y][c] = {}, ![m.from][d] = s]
    BY <1>8, Zenon DEF HandledBulkSync
  <2> QED  BY Zenon, <2>1, <2>2, <2>3
<1>11. \A n \in s : \A f \in n.events : NotAhead(f)'
  <2> SUFFICES ASSUME NEW n \in s, NEW f \in n.events PROVE NotAhead(f)'
    OBVIOUS
  <2>1. n \in BulkSyncMessage /\ NotAhead(f)  BY Zenon, <1>8, <1>9, MessageFacts
  <2>2. f \in TableEvent  BY <2>1 DEF BulkSyncMessage
  <2>3. f.ltime \in Time /\ f.node \in Node  BY <2>2 DEF TableEvent
  <2> QED  BY <1>0, <1>6, <2>1, <2>3, NotAheadStays
<1>12. ConnsAhead'  BY ZenonT(60), <1>6, <1>10, <1>11, ConnStep
<1>13. TypeOK'  BY <1>0, <1>1, <1>6, <1>10 DEF TypeOK, ClockGrows
<1>14. TablesNewer  BY <1>0, <1>1, SameTables
<1> QED  BY <1>7, <1>12, <1>13, <1>14 DEF IInv

(***************************************************************************)
(* The reaper.                                                             *)
(***************************************************************************)
LEMMA ReapStep ==
    ASSUME IInv, NEW x \in Node, ReapState(x)
    PROVE  IInv' /\ TablesNewer
<1>0. TypeOK  BY DEF IInv
<1>1. UNCHANGED <<epoch, tableClock, conn, handlers, view>>  BY DEF ReapState
<1>2. ClockGrows  BY <1>0, <1>1, ClockSame
<1>3. ConnsAhead' /\ HandlersAhead' /\ HandlersLocal'  BY <1>1, <1>2, Frames
<1>4. /\ table' \in [Node -> [Key -> Entry]]
      /\ TablesAhead' /\ TablesLocal' /\ TablesNewer
  <2>1. CASE UNCHANGED table
    BY <1>0, <1>2, <2>1, Frames, SameTables DEF TypeOK
  <2>2. CASE table' = [table EXCEPT ![x] = [k \in Key |-> ReapedEntry(x, table[x][k])]]
    <3>1. ASSUME NEW k \in Key
          PROVE  /\ ReapedEntry(x, table[x][k]) \in Entry
                 /\ NotAhead(ReapedEntry(x, table[x][k]))
                 /\ ReapedEntry(x, table[x][k]).ltime <= tableClock[x] + 1
                 /\ Newer(table[x][k], ReapedEntry(x, table[x][k]))
      <4>1. PICK e \in Entry : e = table[x][k]  BY EntryFacts
      <4>2. /\ NotAhead(e) /\ e.ltime <= tableClock[x] + 1
            /\ e.ltime \in Int /\ Newer(e, e)
        BY <4>1, EntryFacts
      <4>3. CASE e.deleting /\ e.reap > 1
        <5>1. PICK f : f = [e EXCEPT !.reap = @ - 1]  BY Zenon
        <5>2. ReapedEntry(x, e) = f
          <6>1. e.reap \in Int  BY DEF Entry
          <6>2. ~(e.reap <= 1)  BY <4>3, <6>1
          <6> QED  BY <4>3, <5>1, <6>2, Zenon DEF ReapedEntry
        <5>3. e.reap - 1 \in 0..EntryReap  BY <4>3, TablesAssumption DEF Entry
        <5>4. /\ f \in Entry /\ f.ltime = e.ltime /\ f.node = e.node
              /\ f.deleting = e.deleting
          BY <5>1, <5>3 DEF Entry
        <5>5. NotAhead(f) /\ Newer(e, f)  BY <4>2, <5>4 DEF NotAhead, Newer
        <5> QED  BY <4>1, <4>2, <5>2, <5>4, <5>5
      <4>4. CASE e.deleting /\ ~(e.reap > 1)
        <5>1. e.reap \in Int  BY DEF Entry
        <5>2. ReapedEntry(x, e) = NoEntry(x)  BY <4>4, <5>1 DEF ReapedEntry
        <5> QED  BY <4>1, <5>2, NoEntryFacts
      <4>5. CASE ~e.deleting
        <5>1. ReapedEntry(x, e) = e  BY <4>5 DEF ReapedEntry
        <5> QED  BY <4>1, <4>2, <5>1
      <4> QED  BY <4>3, <4>4, <4>5, Zenon
    <3>2. PICK t : t = [k \in Key |-> ReapedEntry(x, table[x][k])]  BY Zenon
    <3>3. t \in [Key -> Entry]
          /\ \A k \in Key : /\ NotAhead(t[k]) /\ t[k].ltime <= tableClock[x] + 1
                             /\ Newer(table[x][k], t[k])
      BY <3>1, <3>2
    <3>4. table' = [table EXCEPT ![x] = t]  BY <2>2, <3>2
    <3> QED  BY Zenon, <1>1, <3>3, <3>4, RewriteStep
  <2>3. \/ UNCHANGED table
        \/ table' = [table EXCEPT ![x] = [k \in Key |-> ReapedEntry(x, table[x][k])]]
    BY Zenon DEF ReapState
  <2> QED  BY <2>1, <2>2, <2>3
<1>5. att' \in [Node -> [Node -> Attachment]]
  <2>1. ASSUME NEW r \in Attachment PROVE ReapedAttachment(r) \in Attachment
    <3>1. NoAttachment \in Attachment  BY TablesAssumption DEF NoAttachment, Attachment
    <3>2. CASE Leaving(r) /\ r.reap > 0
      <4>1. r.reap - 1 \in 0..NetworkReap  BY <3>2, TablesAssumption DEF Attachment
      <4>2. [r EXCEPT !.reap = @ - 1] \in Attachment  BY <4>1 DEF Attachment
      <4>3. r.reap \in Int  BY DEF Attachment
      <4> QED  BY <3>2, <4>2, <4>3 DEF ReapedAttachment
    <3>3. CASE ~(Leaving(r) /\ r.reap > 0)  BY <3>1, <3>3 DEF ReapedAttachment
    <3> QED  BY <3>2, <3>3
  <2>2. PICK f : f = [y \in Node |-> ReapedAttachment(att[x][y])]  BY ZenonT(60)
  <2>3. f \in [Node -> Attachment]  BY <1>0, <2>1, <2>2 DEF TypeOK
  <2>4. att' = [att EXCEPT ![x] = f]  BY <1>0, <2>2 DEF ReapState, TypeOK
  <2> QED  BY <1>0, <2>3, <2>4 DEF TypeOK
<1>6. entriesNumber' \in [Node -> Int]
  <2>1. PICK n \in Nat : n = Cardinality(Present(table'[x]))  BY CountType
  <2>2. PICK o \in Nat : o = Cardinality(Present(table[x]))  BY CountType
  <2>3. entriesNumber' = [entriesNumber EXCEPT ![x] =
            IF Leaving(att[x][x]) /\ att[x][x].reap <= 0 THEN 0 ELSE @ + n - o]
    BY <2>1, <2>2 DEF ReapState
  <2>4. entriesNumber \in [Node -> Int]  BY <1>0 DEF TypeOK
  <2> QED  BY <2>3, <2>4
<1>7. inSync' \in [Node -> BOOLEAN]
  <2>1. PICK b \in BOOLEAN : b = (inSync[x] /\ att'[x][x] # NoAttachment)  BY Zenon
  <2>2. inSync \in [Node -> BOOLEAN]  BY <1>0 DEF TypeOK
  <2>3. inSync' = [inSync EXCEPT ![x] = b]  BY <2>1, Zenon DEF ReapState
  <2> QED  BY <2>2, <2>3, Zenon
<1>8. tableQ' \in [Node -> SUBSET TableEvent] /\ QueuesAhead'
  <2>1. PICK q : q = IF att'[x][x] = NoAttachment THEN {} ELSE tableQ[x]  BY ZenonT(60)
  <2>2. tableQ' = [tableQ EXCEPT ![x] = q]  BY <1>0, <2>1 DEF ReapState, TypeOK
  <2>3. q \subseteq tableQ[x]  BY <2>1
  <2>4. q \in SUBSET TableEvent  BY <1>0, <2>3 DEF TypeOK
  <2>5. ASSUME NEW ev \in q PROVE NotAhead(ev)'
    <3>1. NotAhead(ev)  BY SMTT(60), <2>3, <2>5 DEF IInv, QueuesAhead
    <3> QED  BY SMTT(60), <1>1, <3>1 DEF NotAhead
  <2> QED  BY Zenon, <1>2, <2>2, <2>4, <2>5, QueueStep
<1>9. TypeOK'  BY <1>0, <1>1, <1>4, <1>5, <1>6, <1>7, <1>8 DEF TypeOK
<1> QED  BY <1>3, <1>4, <1>8, <1>9 DEF IInv

(***************************************************************************)
(* The theorems.                                                           *)
(***************************************************************************)
LEMMA InitIInv ==
    ASSUME Init
    PROVE  IInv
<1>1. NoAttachment \in Attachment  BY TablesAssumption DEF NoAttachment, Attachment
<1>2. \A x \in Node : NoEntry(x) \in Entry  BY EntryTypes
<1>3. Idle \in HandlerState  BY DEF HandlerState
<1>4. \A x \in Node : tableClock[x] = 0  BY DEF Init
<1>5. \A x \in Node, k \in Key : table[x][k] = NoEntry(x)  BY DEF Init
<1>6. \A x \in Node, h \in Handler : handlers[x][h] = Idle  BY DEF Init
<1>7. \A x \in Node, c \in Conn : conn[x][c] = {}  BY DEF Init
<1>8. \A x \in Node : tableQ[x] = {}  BY DEF Init
<1>9. TypeOK
  <2>1. att \in [Node -> [Node -> Attachment]]  BY <1>1 DEF Init
  <2>2. table \in [Node -> [Key -> Entry]]  BY <1>2 DEF Init
  <2>3. handlers \in [Node -> [Handler -> HandlerState]]  BY <1>3 DEF Init
  <2>4. /\ epoch \in [Node -> 0..MaxEpoch] /\ tableClock \in [Node -> 0..MaxTime]
        /\ entriesNumber \in [Node -> Int]
    BY TablesAssumption DEF Init
  <2>5. inSync \in [Node -> BOOLEAN]  BY Zenon DEF Init
  <2>6. /\ conn \in [Node -> [Conn -> SUBSET BulkSyncMessage]]
        /\ tableQ \in [Node -> SUBSET TableEvent] /\ view \in [Node -> SUBSET Key]
    BY DEF Init
  <2> QED  BY SMTT(60), <2>1, <2>2, <2>3, <2>4, <2>5, <2>6 DEF TypeOK
<1>10. TablesAhead /\ TablesLocal
  <2>1. \A x \in Node : NotAhead(NoEntry(x)) /\ NoEntry(x).ltime <= tableClock[x] + 1
    BY <1>4 DEF NotAhead, NoEntry
  <2> QED  BY <1>5, <2>1 DEF TablesAhead, TablesLocal
<1>11. QueuesAhead /\ ConnsAhead  BY <1>7, <1>8 DEF QueuesAhead, ConnsAhead
<1>12. HandlersAhead /\ HandlersLocal  BY <1>6 DEF HandlersAhead, HandlersLocal
<1> QED  BY <1>9, <1>10, <1>11, <1>12 DEF IInv

\* A local operation writes a time that nothing in the table has passed.
LEMMA OperateNewer ==
    ASSUME IInv, NEW x \in Node, NEW k \in Key, NEW e \in Entry,
           e.ltime = tableClock[x] + 1, table' = [table EXCEPT ![x][k] = e]
    PROVE  TablesNewer
<1> SUFFICES ASSUME NEW y \in Node, NEW j \in Key
             PROVE  Newer(table[y][j], table'[y][j])
  BY DEF TablesNewer
<1>1. table[y][j].ltime <= tableClock[y] + 1 /\ Newer(table[y][j], table[y][j])
  BY EntryFacts
<1>2. CASE y = x /\ j = k
  <2>1. table'[y][j] = e  BY <1>2 DEF IInv, TypeOK
  <2> QED  BY <1>1, <1>2, <2>1 DEF Newer
<1>3. CASE ~(y = x /\ j = k)
  <2>1. table'[y][j] = table[y][j]  BY <1>3 DEF IInv, TypeOK
  <2> QED  BY <1>1, <2>1
<1> QED  BY <1>2, <1>3

LEMMA StepIInv ==
    ASSUME IInv, [Next]_tableVars
    PROVE  IInv' /\ TablesNewer
<1>1. CASE Operate
  <2>1. PICK x \in Node, k \in Key :
            CreateEntry(x, k) \/ UpdateEntry(x, k) \/ DeleteEntry(x, k)
    BY <1>1 DEF Operate
  <2>2. /\ IInv'
        /\ \E e \in Entry : /\ e.ltime = tableClock[x] + 1
                            /\ table' = [table EXCEPT ![x][k] = e]
    BY <2>1, OperateStep
  <2> QED  BY ZenonT(60), <2>2, OperateNewer
<1>2. CASE Attach
  BY <1>2, JoinStep, LeaveStep, NodeGoneStep, HearJoinStep, HearLeaveStep DEF Attach
<1>3. CASE Receive  BY <1>3, GossipStep DEF Receive
<1>4. CASE Sync
  BY <1>4, BulkSyncStep, HandleBulkEventStep, HandledBulkSyncStep DEF Sync
<1>5. CASE Handle  BY <1>5, ApplyStep, NotifyStep DEF Handle
<1>6. CASE Reap  BY <1>6, ReapStep DEF Reap
<1>7. CASE UNCHANGED tableVars
  <2>1. UNCHANGED <<epoch, att, inSync, entriesNumber, tableClock, table, tableQ, conn,
                    handlers, view>>
    BY <1>7 DEF tableVars
  <2>2. TypeOK  BY DEF IInv
  <2>3. ClockGrows  BY <2>1, <2>2, ClockSame
  <2>4. /\ TablesAhead' /\ TablesLocal' /\ QueuesAhead' /\ ConnsAhead'
        /\ HandlersAhead' /\ HandlersLocal'
    BY SMTT(60), <2>1, <2>3, Frames
  <2>5. TypeOK'  BY <2>1, <2>2 DEF TypeOK
  <2>6. TablesNewer  BY <2>1, <2>2, SameTables
  <2> QED  BY <2>4, <2>5, <2>6 DEF IInv
<1> QED  BY <1>1, <1>2, <1>3, <1>4, <1>5, <1>6, <1>7 DEF Next

\* The invariant holds in every reachable state.
THEOREM Inductive == Spec => []IInv
<1>1. Init => IInv  BY InitIInv
<1>2. IInv /\ [Next]_tableVars => IInv'  BY StepIInv
<1> QED  BY <1>1, <1>2, PTL DEF Spec

(***************************************************************************)
(* The fields of NetworkDB that hold the tables, and the messages, keep    *)
(* their shape; in particular no entry gets a time beyond the clocks when  *)
(* deleteNodeNetworkEntries adds one to it.                                *)
(***************************************************************************)
THEOREM TablesTypeCorrect == Spec => []TypeOK
<1>1. IInv => TypeOK  BY SMTT(60) DEF IInv
<1> QED  BY <1>1, Inductive, PTL

(***************************************************************************)
(* No copy of an entry, in a table, a queue, a message or a goroutine, is  *)
(* ahead of the clock of its owner, but for the tombstones of a leave.     *)
(***************************************************************************)
THEOREM OwnerNewest == Spec => []CopiesNotAhead
<1>1. IInv => CopiesNotAhead
  BY DEF IInv, CopiesNotAhead, TablesAhead, QueuesAhead, ConnsAhead, HandlersAhead
<1> QED  BY <1>1, Inductive, PTL

(***************************************************************************)
(* An entry never goes back in time while it exists, whatever the order in *)
(* which gossip, bulk sync, leaves, failures and the reaper reach a node.  *)
(***************************************************************************)
THEOREM EntriesNeverBack == Spec => EntryTimeMonotone
<1>1. IInv /\ [Next]_tableVars
      => [\A x \in Node, k \in Key : table[x][k].present /\ table'[x][k].present
             => table[x][k].ltime <= table'[x][k].ltime]_tableVars
  BY StepIInv DEF TablesNewer, Newer
<1> QED  BY <1>1, Inductive, PTL DEF Spec, EntryTimeMonotone
=============================================================================
