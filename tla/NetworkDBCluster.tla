-------------------------- MODULE NetworkDBCluster --------------------------
(***************************************************************************)
(* The cluster-wide half of networkdb: what every node knows about the     *)
(* other nodes (active, left, failed) and about the networks each of them  *)
(* is attached to.  It is kept up to date by gossiped node and network     *)
(* events, by the push-pull exchange of memberlist, and by memberlist's    *)
(* own join and leave notifications.                                       *)
(*                                                                         *)
(* Every handler holds the NetworkDB lock, so each is one action here;     *)
(* JoinNetwork and LeaveNetwork take their Lamport time before they take   *)
(* the lock, so each of them is two.                                       *)
(* Messages are delivered straight out of the sender's broadcast queue:    *)
(* any number of times, in any order, or never.  A queue keeps a message   *)
(* until it is invalidated or the process stops; the retransmit limit only *)
(* removes deliveries, and none is ever forced.                            *)
(***************************************************************************)
EXTENDS Integers, FiniteSetsExt

CONSTANTS
    Node,               \* node IDs; New draws a random one, so none is reused
    Network,            \* network IDs
    AddrOf,             \* the address a node ID listens on
    MaxClock,           \* bound on the Lamport clock of network and node events
    NodeReap,           \* nodeReapInterval, in runs of reapDeadNode
    NetworkReap         \* reapNetworkInterval, in runs of reapNetworks

ASSUME ClusterAssumption ==
    /\ IsFiniteSet(Node)
    /\ AddrOf \in [Node -> Node]
    /\ MaxClock \in Nat
    /\ NodeReap \in Nat \ {0}
    /\ NetworkReap \in Nat \ {0}

VARIABLES
    status,         \* the life of the process of node x
    ml,             \* ml[x]: the nodes that x's memberlist believes alive
    answers,        \* answers[x]: states sent to x in answer to its memberlist joins
    calls,          \* calls[x]: the JoinNetwork or LeaveNetwork in progress at x
    networkClock,   \* Lamport clock of node and network events
    nodes,          \* the maps nodes, leftNodes and failedNodes of x
    networks,       \* networks[x][y][n]: attachment of y to n as known by x
    networkNodes,   \* networkNodes[x][n]: the nodes x believes to be in n
    nodeQ,          \* nodeBroadcasts
    networkQ        \* networkBroadcasts

clusterVars == <<status, ml, answers, calls, networkClock, nodes, networks,
                 networkNodes, nodeQ, networkQ>>

Status == {"new", "up", "closing", "down"}

NodeState == {"unknown", "active", "left", "failed"}
NodeRecord == [state: NodeState, ltime: 0..MaxClock, reap: 0..NodeReap]
Attachment == [present: BOOLEAN, ltime: 0..MaxClock, leaving: BOOLEAN,
               reap: 0..NetworkReap]
NodeEvent == [type: {"Join", "Leave"}, ltime: 0..MaxClock, node: Node]
NetworkEvent == [type: {"Join", "Leave"}, ltime: 0..MaxClock, node: Node,
                 network: Network]
NetworkPushPull == [ltime: 0..MaxClock, node: Node, networks: SUBSET NetworkEvent]

Unknown == [state |-> "unknown", ltime |-> 0, reap |-> 0]
NewNode == [state |-> "active", ltime |-> 0, reap |-> 0]
NoNetwork == [present |-> FALSE, ltime |-> 0, leaving |-> FALSE, reap |-> 0]
NewNetwork(ltime) ==
    [present |-> TRUE, ltime |-> ltime, leaving |-> FALSE, reap |-> 0]
LeftNetwork(ltime) ==
    [present |-> TRUE, ltime |-> ltime, leaving |-> TRUE, reap |-> NetworkReap]

(***************************************************************************)
(* The memory of a NetworkDB that was just created: memberlist.Create      *)
(* notifies the join of the local node before New returns.                 *)
(***************************************************************************)
FreshNodes(x) == [y \in Node |-> IF y = x THEN NewNode ELSE Unknown]
FreshNetworks == [y \in Node |-> [n \in Network |-> NoNetwork]]

Init ==
    /\ status = [x \in Node |-> "new"]
    /\ ml = [x \in Node |-> {x}]
    /\ answers = [x \in Node |-> {}]
    /\ calls = [x \in Node |-> {}]
    /\ networkClock = [x \in Node |-> 0]
    /\ nodes = [x \in Node |-> FreshNodes(x)]
    /\ networks = [x \in Node |-> FreshNetworks]
    /\ networkNodes = [x \in Node |-> [n \in Network |-> {}]]
    /\ nodeQ = [x \in Node |-> {}]
    /\ networkQ = [x \in Node |-> {}]

(***************************************************************************)
(* Lamport clock.  Witness saturates at MaxClock: no event has a larger    *)
(* time because Tick is disabled there, so the order of times is kept.     *)
(***************************************************************************)
Tick(x) == networkClock[x] < MaxClock
Time(x) == networkClock[x] + 1
WitnessTime(c, t) == IF t < c THEN c ELSE IF t < MaxClock THEN t + 1 ELSE MaxClock

(***************************************************************************)
(* Moving nodes between the three node lists.  A node that leaves or fails *)
(* is removed from every network, and keeps a reap time that is already    *)
(* running.                                                                *)
(***************************************************************************)
MovedNode(r, state) ==
    [state |-> state, ltime |-> r.ltime,
     reap |-> IF state = "active" THEN 0 ELSE IF r.reap = 0 THEN NodeReap ELSE r.reap]

\* Faulty variant: the node stays in the network lists.
DropNodesKeepIndex(x, D) ==
    /\ networks' = [networks EXCEPT ![x] =
           [y \in Node |-> IF y \in D THEN FreshNetworks[y] ELSE @[y]]]
    /\ UNCHANGED networkNodes

DropNodes(x, D) ==
    /\ networks' = [networks EXCEPT ![x] =
           [y \in Node |-> IF y \in D THEN FreshNetworks[y] ELSE @[y]]]
    /\ networkNodes' = [networkNodes EXCEPT ![x] =
           [n \in Network |-> @[n] \ D]]

(***************************************************************************)
(* purgeReincarnation: at most one older ID at the address of y is moved   *)
(* to the left list; active nodes are looked at first, then failed ones.   *)
(***************************************************************************)
SameAddr(x, y, state) ==
    {z \in Node \ {y} : AddrOf[z] = AddrOf[y] /\ nodes[x][z].state = state}

Reincarnated(x, y) ==
    IF SameAddr(x, y, "active") # {} THEN {{z} : z \in SameAddr(x, y, "active")}
    ELSE IF SameAddr(x, y, "failed") # {} THEN {{z} : z \in SameAddr(x, y, "failed")}
    ELSE {{}}

(***************************************************************************)
(* The life of a process.  Close queues the leave event, then leaves and   *)
(* shuts memberlist down; a crash does neither.  Nothing is persistent: a  *)
(* daemon that restarts comes back at its address with a new node ID.      *)
(***************************************************************************)
Up(x) == status[x] \in {"up", "closing"}

\* Faulty variant: a restarted daemon keeps its node ID.
StartAgain(x) ==
    /\ status[x] \in {"new", "down"}
    /\ \A y \in Node : Up(y) => AddrOf[y] # AddrOf[x]
    /\ status' = [status EXCEPT ![x] = "up"]
    /\ UNCHANGED <<ml, answers, calls, networkClock, nodes, networks,
                   networkNodes, nodeQ, networkQ>>

Start(x) ==
    /\ status[x] = "new"
    /\ \A y \in Node : Up(y) => AddrOf[y] # AddrOf[x]
    /\ status' = [status EXCEPT ![x] = "up"]
    /\ UNCHANGED <<ml, answers, calls, networkClock, nodes, networks,
                   networkNodes, nodeQ, networkQ>>

Close(x) ==
    /\ status[x] = "up" /\ Tick(x)
    /\ status' = [status EXCEPT ![x] = "closing"]
    /\ networkClock' = [networkClock EXCEPT ![x] = Time(x)]
    /\ nodeQ' = [nodeQ EXCEPT ![x] =
           @ \cup {[type |-> "Leave", ltime |-> Time(x), node |-> x]}]
    /\ UNCHANGED <<ml, answers, calls, nodes, networks, networkNodes, networkQ>>

Stop(x) ==
    /\ status' = [status EXCEPT ![x] = "down"]
    /\ ml' = [ml EXCEPT ![x] = {x}]
    /\ answers' = [answers EXCEPT ![x] = {}]
    /\ calls' = [calls EXCEPT ![x] = {}]
    /\ networkClock' = [networkClock EXCEPT ![x] = 0]
    /\ nodes' = [nodes EXCEPT ![x] = FreshNodes(x)]
    /\ networks' = [networks EXCEPT ![x] = FreshNetworks]
    /\ networkNodes' = [networkNodes EXCEPT ![x] = [n \in Network |-> {}]]
    /\ nodeQ' = [nodeQ EXCEPT ![x] = {}]
    /\ networkQ' = [networkQ EXCEPT ![x] = {}]

Shutdown(x) == status[x] = "closing" /\ Stop(x)
Crash(x) == status[x] = "up" /\ Stop(x)

(***************************************************************************)
(* Notifications from memberlist.  It may take a live node for dead, learn *)
(* of a node from any peer that still believes it alive, and notifies the  *)
(* death of the local node once that is leaving.                           *)
(***************************************************************************)
NotifyRejoin(x, y) ==
    /\ nodes[x][y].state \in {"left", "failed"}
    /\ nodes' = [nodes EXCEPT ![x][y] = MovedNode(@, "active")]
    /\ UNCHANGED <<networks, networkNodes>>

\* Faulty variant: the older incarnation keeps its attachments.
NotifyNewKeepNetworks(x, y) ==
    /\ nodes[x][y].state \in {"unknown", "active"}
    /\ \E D \in Reincarnated(x, y) :
          nodes' = [nodes EXCEPT ![x] = [z \in Node |->
              IF z = y THEN NewNode
              ELSE IF z \in D THEN MovedNode(@[z], "left") ELSE @[z]]]
    /\ UNCHANGED <<networks, networkNodes>>

NotifyNew(x, y) ==
    /\ nodes[x][y].state \in {"unknown", "active"}
    /\ \E D \in Reincarnated(x, y) :
          /\ nodes' = [nodes EXCEPT ![x] = [z \in Node |->
                 IF z = y THEN NewNode
                 ELSE IF z \in D THEN MovedNode(@[z], "left") ELSE @[z]]]
          /\ DropNodes(x, D)

NotifyJoin(x, y) ==
    /\ Up(x) /\ y # x /\ y \notin ml[x]
    /\ \E z \in Node : Up(z) /\ y \in ml[z]
    /\ ml' = [ml EXCEPT ![x] = @ \cup {y}]
    /\ NotifyRejoin(x, y) \/ NotifyNew(x, y)
    /\ UNCHANGED <<status, answers, calls, networkClock, nodeQ, networkQ>>

NotifyLeave(x, y) ==
    /\ Up(x) /\ y \in ml[x]
    /\ y = x => status[x] = "closing"
    /\ ml' = [ml EXCEPT ![x] = @ \ {y}]
    /\ IF nodes[x][y].state = "active"
       THEN /\ nodes' = [nodes EXCEPT ![x][y] = MovedNode(@, "failed")]
            /\ DropNodes(x, {y})
       ELSE UNCHANGED <<nodes, networks, networkNodes>>
    /\ UNCHANGED <<status, answers, calls, networkClock, nodeQ, networkQ>>

(***************************************************************************)
(* Joining and leaving a network, one call at a time.  Each takes its time *)
(* first; LeaveNetwork also queues its event before it takes the lock,     *)
(* JoinNetwork does after.  A broadcast replaces the queued one for the    *)
(* same node and network.  agentClose drops the agent's reference to the   *)
(* database before it calls Close, so no call starts while closing.        *)
(***************************************************************************)
QueueNetworkEvent(x, ev) ==
    networkQ' = [networkQ EXCEPT ![x] =
        {m \in @ : m.node # ev.node \/ m.network # ev.network} \cup {ev}]

OwnEvent(x, n, type) ==
    [type |-> type, ltime |-> Time(x), node |-> x, network |-> n]

Call(x, ev) ==
    /\ status[x] = "up" /\ calls[x] = {} /\ Tick(x)
    /\ networkClock' = [networkClock EXCEPT ![x] = Time(x)]
    /\ calls' = [calls EXCEPT ![x] = {ev}]
    /\ UNCHANGED <<status, ml, answers, nodes, networks, networkNodes, nodeQ>>

Return(x, ev, type) ==
    /\ Up(x) /\ ev \in calls[x] /\ ev.type = type
    /\ calls' = [calls EXCEPT ![x] = {}]
    /\ UNCHANGED <<status, ml, answers, networkClock, nodes, nodeQ>>

JoinNetwork(x, n) ==
    /\ Call(x, OwnEvent(x, n, "Join"))
    /\ UNCHANGED networkQ

JoinNetworkLocked(x, ev) ==
    /\ Return(x, ev, "Join")
    /\ networks' = [networks EXCEPT ![x][x][ev.network] = NewNetwork(ev.ltime)]
    /\ networkNodes' = [networkNodes EXCEPT ![x][ev.network] = @ \cup {x}]
    /\ QueueNetworkEvent(x, ev)

LeaveNetwork(x, n) ==
    /\ Call(x, OwnEvent(x, n, "Leave"))
    /\ QueueNetworkEvent(x, OwnEvent(x, n, "Leave"))

LeaveNetworkLocked(x, ev) ==
    /\ Return(x, ev, "Leave")
    /\ networks' = [networks EXCEPT ![x][x][ev.network] =
           IF @.present THEN LeftNetwork(ev.ltime) ELSE @]
    /\ networkNodes' = [networkNodes EXCEPT ![x][ev.network] = @ \ {x}]
    /\ UNCHANGED networkQ

(***************************************************************************)
(* handleNetworkEvent at y, for a set E of events about distinct           *)
(* attachments (one event of a gossip message, all those of a push-pull).  *)
(***************************************************************************)
\* Faulty variants: a join of an unknown node, or a stale event, is applied.
AcceptsUnknown(y, ev) ==
    /\ ev.node # y
    /\ IF networks[y][ev.node][ev.network].present
       THEN networks[y][ev.node][ev.network].ltime < ev.ltime
       ELSE ev.type = "Join"

AcceptsStale(y, ev) ==
    /\ ev.node # y
    /\ \/ networks[y][ev.node][ev.network].present
       \/ ev.type = "Join" /\ nodes[y][ev.node].state = "active"

Accepts(y, ev) ==
    /\ ev.node # y
    /\ IF networks[y][ev.node][ev.network].present
       THEN networks[y][ev.node][ev.network].ltime < ev.ltime
       ELSE ev.type = "Join" /\ nodes[y][ev.node].state = "active"

Accepted(y, E) == {ev \in E : Accepts(y, ev)}

AppliedAttachment(ev) ==
    IF ev.type = "Leave" THEN LeftNetwork(ev.ltime) ELSE NewNetwork(ev.ltime)

MergedNetworks(y, E) ==
    [z \in Node |-> [n \in Network |->
        IF \E ev \in Accepted(y, E) : ev.node = z /\ ev.network = n
        THEN AppliedAttachment(CHOOSE ev \in Accepted(y, E) :
                                   ev.node = z /\ ev.network = n)
        ELSE networks[y][z][n]]]

EventNodes(E, n, type) ==
    {z \in Node : \E ev \in E : ev.node = z /\ ev.network = n /\ ev.type = type}

MergedNetworkNodes(y, E) ==
    [n \in Network |->
        (networkNodes[y][n] \ EventNodes(Accepted(y, E), n, "Leave"))
            \cup EventNodes(Accepted(y, E), n, "Join")]

(***************************************************************************)
(* Delivery of a gossiped network event by x to y, and its rebroadcast.    *)
(***************************************************************************)
GossipNetworkEvent(x, y, ev) ==
    /\ Up(x) /\ Up(y) /\ x # y /\ ev \in networkQ[x]
    /\ networkClock' = [networkClock EXCEPT ![y] = WitnessTime(@, ev.ltime)]
    /\ networks' = [networks EXCEPT ![y] = MergedNetworks(y, {ev})]
    /\ networkNodes' = [networkNodes EXCEPT ![y] = MergedNetworkNodes(y, {ev})]
    /\ IF Accepts(y, ev) THEN QueueNetworkEvent(y, ev) ELSE UNCHANGED networkQ
    /\ UNCHANGED <<status, ml, answers, calls, nodes, nodeQ>>

(***************************************************************************)
(* handleNodeEvent.  A fresh event of a node that is not in the active     *)
(* list only updates its time, so that a join event moves nothing.         *)
(***************************************************************************)
FreshEvent(y, ev) ==
    nodes[y][ev.node].state # "unknown" /\ nodes[y][ev.node].ltime < ev.ltime

Moves(y, ev) ==
    FreshEvent(y, ev) /\ nodes[y][ev.node].state = "active" /\ ev.type = "Leave"

HandledNode(y, ev) ==
    LET r == [nodes[y][ev.node] EXCEPT !.ltime = ev.ltime]
    IN  CASE Moves(y, ev) -> MovedNode(r, "left")
          [] FreshEvent(y, ev) /\ ~Moves(y, ev) -> r
          [] OTHER -> nodes[y][ev.node]

GossipNodeEvent(x, y, ev) ==
    /\ Up(x) /\ Up(y) /\ x # y /\ ev \in nodeQ[x]
    /\ networkClock' = [networkClock EXCEPT ![y] = WitnessTime(@, ev.ltime)]
    /\ nodes' = [nodes EXCEPT ![y][ev.node] = HandledNode(y, ev)]
    /\ DropNodes(y, IF Moves(y, ev) THEN {ev.node} ELSE {})
    /\ nodeQ' = IF Moves(y, ev) THEN [nodeQ EXCEPT ![y] = @ \cup {ev}] ELSE nodeQ
    /\ UNCHANGED <<status, ml, answers, calls, networkQ>>

(***************************************************************************)
(* Push-pull: y merges the local state of x.  A node that (re)joins the    *)
(* cluster, and the one that answers it, first gives its own attachments a *)
(* new time (updateLocalNetworkTime).                                      *)
(***************************************************************************)
UpdatedNetworks(x) ==
    [n \in Network |-> IF networks[x][x][n].present
                       THEN [networks[x][x][n] EXCEPT !.ltime = Time(x)]
                       ELSE networks[x][x][n]]

\* Faulty variant: leaving attachments are not pushed.
LocalStateJoined(x, join) ==
    LET nets == IF join THEN [networks[x] EXCEPT ![x] = UpdatedNetworks(x)]
                ELSE networks[x]
    IN  [ltime |-> IF join THEN Time(x) ELSE networkClock[x],
         node |-> x,
         networks |-> {[type |-> "Join", ltime |-> nets[p[1]][p[2]].ltime,
                        node |-> p[1], network |-> p[2]] :
             p \in {q \in Node \X Network :
                       nets[q[1]][q[2]].present /\ ~nets[q[1]][q[2]].leaving}}]

LocalState(x, join) ==
    LET nets == IF join THEN [networks[x] EXCEPT ![x] = UpdatedNetworks(x)]
                ELSE networks[x]
        event(z, n) == [type |-> IF nets[z][n].leaving THEN "Leave" ELSE "Join",
                        ltime |-> nets[z][n].ltime, node |-> z, network |-> n]
    IN  [ltime |-> IF join THEN Time(x) ELSE networkClock[x],
         node |-> x,
         networks |-> {event(p[1], p[2]) :
             p \in {q \in Node \X Network : nets[q[1]][q[2]].present}}]

MergedTime(clock, pp) ==
    WitnessTime(clock, Max({pp.ltime} \cup {ev.ltime : ev \in pp.networks}))

MergedNode(y, pp) ==
    HandledNode(y, [type |-> "Join", ltime |-> pp.ltime, node |-> pp.node])

MergeRemoteState(y, pp) ==
    /\ nodes' = [nodes EXCEPT ![y][pp.node] = MergedNode(y, pp)]
    /\ networks' = [networks EXCEPT ![y] = MergedNetworks(y, pp.networks)]
    /\ networkNodes' = [networkNodes EXCEPT ![y] = MergedNetworkNodes(y, pp.networks)]

PushPull(x, y) ==
    /\ Up(x) /\ Up(y) /\ x # y /\ y \in ml[x] /\ x \in ml[y]
    /\ MergeRemoteState(y, LocalState(x, FALSE))
    /\ networkClock' = [networkClock EXCEPT
           ![y] = MergedTime(@, LocalState(x, FALSE))]
    /\ UNCHANGED <<status, ml, answers, calls, nodeQ, networkQ>>

(***************************************************************************)
(* memberlist.Join, called by Join, by reconnectNode for a failed node and *)
(* by rejoinClusterBootStrap: x pushes its state to y, y answers with its  *)
(* own and merges; x merges the answer, if it comes, and queues its join   *)
(* event.                                                                  *)
(***************************************************************************)
MemberlistJoin(x, y) ==
    /\ Up(x) /\ Up(y) /\ x # y /\ x \in ml[y] /\ Tick(x) /\ Tick(y)
    /\ nodes' = [nodes EXCEPT ![y][x] = MergedNode(y, LocalState(x, TRUE))]
    /\ networks' = [networks EXCEPT
           ![x][x] = UpdatedNetworks(x),
           ![y] = [MergedNetworks(y, LocalState(x, TRUE).networks) EXCEPT
                       ![y] = UpdatedNetworks(y)]]
    /\ networkNodes' = [networkNodes EXCEPT
           ![y] = MergedNetworkNodes(y, LocalState(x, TRUE).networks)]
    /\ networkClock' = [networkClock EXCEPT
           ![x] = Time(x), ![y] = MergedTime(Time(y), LocalState(x, TRUE))]
    /\ answers' = [answers EXCEPT ![x] = @ \cup {LocalState(y, TRUE)}]
    /\ UNCHANGED <<status, ml, calls, nodeQ, networkQ>>

MemberlistJoined(x, pp) ==
    /\ Up(x) /\ pp \in answers[x] /\ pp.node \in ml[x]
    /\ MergedTime(networkClock[x], pp) < MaxClock
    /\ MergeRemoteState(x, pp)
    /\ networkClock' = [networkClock EXCEPT ![x] = MergedTime(@, pp) + 1]
    /\ nodeQ' = [nodeQ EXCEPT ![x] = @ \cup
           {[type |-> "Join", ltime |-> MergedTime(networkClock[x], pp) + 1,
             node |-> x]}]
    /\ answers' = [answers EXCEPT ![x] = @ \ {pp}]
    /\ UNCHANGED <<status, ml, calls, networkQ>>

(***************************************************************************)
(* The garbage collectors.                                                 *)
(***************************************************************************)
\* Faulty variant: the time left is decremented first.
ReapedNodeLate(r) ==
    CASE r.state \in {"left", "failed"} /\ r.reap >= 0 -> [r EXCEPT !.reap = @ - 1]
      [] r.state \in {"left", "failed"} /\ r.reap < 0 -> Unknown
      [] OTHER -> r

ReapedNode(r) ==
    CASE r.state \in {"left", "failed"} /\ r.reap > 1 -> [r EXCEPT !.reap = @ - 1]
      [] r.state \in {"left", "failed"} /\ r.reap <= 1 -> Unknown
      [] OTHER -> r

ReapDeadNode(x) ==
    /\ Up(x)
    /\ \E y \in Node : nodes[x][y].state \in {"left", "failed"}
    /\ nodes' = [nodes EXCEPT ![x] = [y \in Node |-> ReapedNode(@[y])]]
    /\ UNCHANGED <<status, ml, answers, calls, networkClock, networks,
                   networkNodes, nodeQ, networkQ>>

ReapedNetwork(a) ==
    CASE a.present /\ a.leaving /\ a.reap <= 0 -> NoNetwork
      [] a.present /\ a.leaving /\ a.reap > 0 -> [a EXCEPT !.reap = @ - 1]
      [] OTHER -> a

ReapNetworks(x) ==
    /\ Up(x)
    /\ \E y \in Node, n \in Network : networks[x][y][n].leaving
    /\ networks' = [networks EXCEPT ![x] =
           [y \in Node |-> [n \in Network |-> ReapedNetwork(@[y][n])]]]
    /\ UNCHANGED <<status, ml, answers, calls, networkClock, nodes,
                   networkNodes, nodeQ, networkQ>>

Membership ==
    \E x \in Node :
        \/ Start(x) \/ Close(x) \/ Shutdown(x) \/ Crash(x)
        \/ \E y \in Node : NotifyJoin(x, y) \/ NotifyLeave(x, y)

Attach ==
    \E x \in Node :
        \/ \E n \in Network : JoinNetwork(x, n) \/ LeaveNetwork(x, n)
        \/ \E ev \in calls[x] : JoinNetworkLocked(x, ev) \/ LeaveNetworkLocked(x, ev)

Gossip ==
    \E x \in Node :
        \/ \E ev \in networkQ[x], y \in Node : GossipNetworkEvent(x, y, ev)
        \/ \E ev \in nodeQ[x], y \in Node : GossipNodeEvent(x, y, ev)

Sync ==
    \E x \in Node :
        \/ \E y \in Node : PushPull(x, y) \/ MemberlistJoin(x, y)
        \/ \E pp \in answers[x] : MemberlistJoined(x, pp)

Reap == \E x \in Node : ReapDeadNode(x) \/ ReapNetworks(x)

Next == Membership \/ Attach \/ Gossip \/ Sync \/ Reap

Spec == Init /\ [][Next]_clusterVars

(***************************************************************************)
(* Type invariant: the state of the model has the shape of the NetworkDB   *)
(* struct (networkdb.go:29).                                               *)
(***************************************************************************)
TypeOK ==
    /\ status \in [Node -> Status]
    /\ ml \in [Node -> SUBSET Node]
    /\ answers \in [Node -> SUBSET NetworkPushPull]
    /\ calls \in [Node -> SUBSET NetworkEvent]
    /\ networkClock \in [Node -> 0..MaxClock]
    /\ nodes \in [Node -> [Node -> NodeRecord]]
    /\ networks \in [Node -> [Node -> [Network -> Attachment]]]
    /\ networkNodes \in [Node -> [Network -> SUBSET Node]]
    /\ nodeQ \in [Node -> SUBSET NodeEvent]
    /\ networkQ \in [Node -> SUBSET NetworkEvent]

(***************************************************************************)
(* The two indexes of the attachments agree: a node is listed in           *)
(* networkNodes exactly when networks holds an attachment of it that is    *)
(* not leaving.  They are updated in different places by joins, leaves,    *)
(* node failures, push-pull and the reaper.                                *)
(***************************************************************************)
AttachmentIndexesAgree ==
    \A x, y \in Node, n \in Network :
        y \in networkNodes[x][n] <=>
            networks[x][y][n].present /\ ~networks[x][y][n].leaving

(***************************************************************************)
(* What a node knows of the attachments of another node, it knows of a     *)
(* node in its active list: nothing is kept about (or accepted from) a     *)
(* node that failed or left, so that the state of a dead node cannot stay  *)
(* behind (the comments in handleNodeEvent and handleNetworkEvent).        *)
(***************************************************************************)
RemoteAttachmentsActive ==
    \A x \in Node : \A y \in Node \ {x}, n \in Network :
        networks[x][y][n].present => nodes[x][y].state = "active"

(***************************************************************************)
(* No node holds a time of node y, in its records or its queues, that the  *)
(* clock of y has not reached.  So the next event of y is newer than all   *)
(* that is known about it anywhere, and is never taken for a stale one.    *)
(***************************************************************************)
TimesAtMost(x, y, clock) ==
    /\ nodes[x][y].ltime <= clock
    /\ \A n \in Network : networks[x][y][n].ltime <= clock
    /\ \A ev \in nodeQ[x] \cup networkQ[x] \cup calls[x] :
          ev.node = y => ev.ltime <= clock
    /\ \A pp \in answers[x] :
          /\ pp.node = y => pp.ltime <= clock
          /\ \A ev \in pp.networks : ev.node = y => ev.ltime <= clock

OwnClockNewest ==
    \A x, y \in Node : Up(y) => TimesAtMost(x, y, networkClock[y])

(***************************************************************************)
(* What is known of a remote attachment never goes back in time while the  *)
(* record exists, whatever is delivered late, twice or out of order.       *)
(***************************************************************************)
RemoteTimeMonotone ==
    [][\A x \in Node : \A y \in Node \ {x}, n \in Network :
          networks[x][y][n].present /\ networks'[x][y][n].present
              => networks[x][y][n].ltime <= networks'[x][y][n].ltime]_clusterVars

=============================================================================
