------------------------- MODULE MCNetworkDBTables --------------------------
(* Instances of NetworkDBTables for TLC.                                   *)
EXTENDS NetworkDBTables, TLC
CONSTANTS a, b, k1, c1

\* a is the owner of every key
OwnerWrites == [k \in Key |-> {a}]

\* All nodes have joined the network, synced, and know of each other.
Formed ==
    /\ epoch = [x \in Node |-> 1]
    /\ att = [x \in Node |-> [y \in Node |-> [epoch |-> 1, reap |-> 0]]]
    /\ inSync = [x \in Node |-> TRUE]
    /\ entriesNumber = [x \in Node |-> 0]
    /\ tableClock = [x \in Node |-> 0]
    /\ table = [x \in Node |-> [k \in Key |-> NoEntry(x)]]
    /\ tableQ = [x \in Node |-> {}]
    /\ conn = [x \in Node |-> [c \in Conn |-> {}]]
    /\ handlers = [x \in Node |-> [h \in Handler |-> Idle]]
    /\ view = [x \in Node |-> {}]

FormedSpec == Formed /\ [][Next]_tableVars

\* One node leaves and joins again, or two leave.
FewMoves == epoch[a] + epoch[b] <= 4

\* One bulk sync message in flight.
OneSync == \A x, y \in Node, c, d \in Conn :
    conn[x][c] # {} /\ conn[y][d] # {} => x = y /\ c = d

Bounds == FewMoves /\ OneSync

\* What a handler has checked, and what it is to tell the watchers, still holds.
ChecksStay == ChecksHold'
TellsStay == TellsHold'
=============================================================================
