------------------------ MODULE MCTablesConvergence -------------------------
(* Convergence of the entries that one node owns and another one reads.    *)
EXTENDS MCNetworkDBTables

\* A tombstone is kept for 30 minutes; bulk sync runs every 30 seconds and a
\* message lives for less: the tombstone is collected once no older entry is left
\* in a table or on its way.
InFlight(y) ==
    LET all == UNION {tableQ[z] : z \in Node \ {y}}
               \cup {handlers[y][h].ev : h \in {g \in Handler : handlers[y][g] # Idle}}
               \cup UNION {m.events : m \in UNION {conn[y][c] : c \in Conn}}
    IN  {ev \in all : ev.node # y}

Needed(x, k) ==
    /\ table[x][k].deleting
    /\ \E y \in Node :
          \/ Live(table[y][k]) /\ table[y][k].ltime < table[x][k].ltime
          \/ \E ev \in InFlight(y) : /\ ev.key = k /\ ~ev.deleting
                                     /\ ev.ltime < table[x][k].ltime

SlowReap(x) == ReapState(x) /\ \A k \in Key : ~Needed(x, k)

\* The reader has nothing that the owner would accept: only what goes from a to b
\* is looked at.
Hear == \E e \in 1..MaxEpoch : HearJoin(b, a, e) \/ HearLeave(b, a, e)

SyncReader ==
    \/ \E c \in Conn : BulkSync(a, b, c)
    \/ \E c \in Conn : \E m \in conn[b][c] :
          \/ HandledBulkSync(b, c, m) /\ conn'[a] = conn[a]
          \/ \E ev \in m.events : HandleBulkEvent(b, c, m, ev)

ConvergenceNext ==
    \/ Operate \/ JoinNetwork(a) \/ LeaveNetwork(a)
    \/ Hear \/ NodeGone(b, a)
    \/ \E ev \in tableQ[a] : Gossip(a, b, ev)
    \/ SyncReader \/ Handle
    \/ \E x \in Node : SlowReap(x)

\* Periodic bulk sync, the goroutines that handle messages, and the reaper run;
\* memberlist brings the last join or leave.
Fairness ==
    /\ WF_tableVars(SyncReader)
    /\ \A h \in Handler : WF_tableVars(Apply(b, h) \/ Notify(b, h))
    /\ \A x \in Node : SF_tableVars(SlowReap(x))

ConvergenceSpec == Formed /\ [][ConvergenceNext]_tableVars /\ Fairness

InTouch == In(a, a) /\ In(b, b) /\ att[b][a].epoch = epoch[a] /\ In(a, b)

OwnedLive(x) == {k \in Key : Live(table[x][k]) /\ table[x][k].node = a}

(***************************************************************************)
(* The reader ends up with the live entries of the owner, once they stay   *)
(* in touch: docs/networkdb.md:20, "Updates spread through the cluster ... *)
(* They will eventually converge".                                         *)
(***************************************************************************)
EntriesConverge == <>[]InTouch => <>[](OwnedLive(b) = OwnedLive(a))
=============================================================================
