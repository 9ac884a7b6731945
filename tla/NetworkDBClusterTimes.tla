----------------------- MODULE NetworkDBClusterTimes ------------------------
(***************************************************************************)
(* Proofs about the Lamport times of NetworkDBCluster: nobody knows a time *)
(* of a node that the node's own clock has not reached.                    *)
(***************************************************************************)
EXTENDS NetworkDBClusterProofs

CallsOwn == \A x \in Node : \A ev \in calls[x] : ev.node = x

TimesKnown ==
    \A x, y \in Node : status[y] # "down" => TimesAtMost(x, y, networkClock[y])

TimeInv == TypeOK /\ CallsOwn /\ TimesKnown

LEMMA TimeInit == Init => TimeInv
  BY TypeInit, AttachmentFields DEF Init, FreshNodes, NewNode, Unknown, FreshNetworks,
     TimesAtMost, CallsOwn, TimeInv, TimesKnown

(***************************************************************************)
(* The clock of a node that is not down never goes back.                   *)
(***************************************************************************)
LEMMA ClockMonotone ==
    ASSUME TypeOK, [Next]_clusterVars, NEW v \in Node, status'[v] # "down"
    PROVE  status[v] # "down" /\ networkClock'[v] >= networkClock[v]
<1>0. networkClock[v] \in 0..MaxClock /\ MaxClock \in Nat
  BY ClusterAssumption DEF TypeOK
<1>s. ASSUME UNCHANGED status
      PROVE  status[v] # "down"
  BY <1>s
<1>a. ASSUME NEW x \in Node, NEW t \in Int, t >= networkClock[x],
             networkClock' = [networkClock EXCEPT ![x] = t]
      PROVE  networkClock'[v] >= networkClock[v]
  BY <1>0, <1>a DEF TypeOK
<1>b. ASSUME NEW x \in Node
      PROVE  /\ networkClock[x] \in 0..MaxClock
             /\ Time(x) \in Int /\ Time(x) >= networkClock[x]
  BY ClusterAssumption DEF TypeOK, Time
<1>3. ASSUME UNCHANGED <<status, networkClock>>
      PROVE  status[v] # "down" /\ networkClock'[v] >= networkClock[v]
  BY <1>0, <1>3
<1>1. ASSUME NEW x \in Node, Start(x) \/ Close(x)
      PROVE  status[v] # "down" /\ networkClock'[v] >= networkClock[v]
  BY <1>0, <1>a, <1>b, <1>1 DEF Start, TypeOK, Close
<1>2. ASSUME NEW x \in Node, Stop(x)
      PROVE  status[v] # "down" /\ networkClock'[v] >= networkClock[v]
  BY <1>0, <1>2 DEF Stop, TypeOK
<1>4. ASSUME NEW x \in Node, NEW y \in Node, NotifyJoin(x, y) \/ NotifyLeave(x, y)
      PROVE  status[v] # "down" /\ networkClock'[v] >= networkClock[v]
  BY <1>3, <1>4 DEF NotifyJoin, NotifyLeave
<1>5. CASE Attach
  BY <1>s, <1>a, <1>b, <1>3, <1>5 DEF JoinNetwork, LeaveNetwork, Call, JoinNetworkLocked,
     LeaveNetworkLocked, Return, Attach
<1>6. CASE Gossip
  <2>1. ASSUME NEW y \in Node, NEW t \in 0..MaxClock, status' = status,
               networkClock' = [networkClock EXCEPT ![y] = WitnessTime(@, t)]
        PROVE  status[v] # "down" /\ networkClock'[v] >= networkClock[v]
    <3>1. /\ WitnessTime(networkClock[y], t) \in Int
          /\ WitnessTime(networkClock[y], t) >= networkClock[y]
      BY <1>b, ClockTypes
    <3> QED
      BY Zenon, <1>s, <1>a, <2>1, <3>1
  <2>2. ASSUME NEW x \in Node, NEW y \in Node, NEW ev \in networkQ[x],
               GossipNetworkEvent(x, y, ev)
        PROVE  status[v] # "down" /\ networkClock'[v] >= networkClock[v]
    <3>1. ev.ltime \in 0..MaxClock
      BY DEF TypeOK, NetworkEvent
    <3> QED
      BY Zenon, <2>1, <2>2, <3>1 DEF GossipNetworkEvent
  <2>3. ASSUME NEW x \in Node, NEW y \in Node, NEW ev \in nodeQ[x],
               GossipNodeEvent(x, y, ev)
        PROVE  status[v] # "down" /\ networkClock'[v] >= networkClock[v]
    <3>1. ev.ltime \in 0..MaxClock
      BY DEF TypeOK, NodeEvent
    <3> QED
      BY Zenon, <2>1, <2>3, <3>1 DEF GossipNodeEvent
  <2> QED
    BY <1>6, <2>2, <2>3 DEF Gossip
<1>m. ASSUME NEW y \in Node, NEW t \in 0..MaxClock, NEW pp \in NetworkPushPull,
             t >= networkClock[y]
      PROVE  MergedTime(t, pp) \in Int /\ MergedTime(t, pp) >= networkClock[y]
  BY MergedTimeType, <1>b, <1>m
<1>7. ASSUME NEW x \in Node, NEW y \in Node, PushPull(x, y)
      PROVE  status[v] # "down" /\ networkClock'[v] >= networkClock[v]
  <2>3. networkClock[y] \in 0..MaxClock /\ networkClock[y] >= networkClock[y]
    BY <1>b
  <2> QED BY <1>s, <1>a, <1>m, LocalStateType, <1>7, <2>3, Zenon DEF PushPull
<1>8. ASSUME NEW x \in Node, NEW y \in Node, MemberlistJoin(x, y)
      PROVE  status[v] # "down" /\ networkClock'[v] >= networkClock[v]
  <2>1. Tick(x) /\ Tick(y) /\ x # y
    BY <1>8 DEF MemberlistJoin
  <2>3. Time(y) \in 0..MaxClock
    BY <2>1, ClusterAssumption DEF Tick, Time, TypeOK
  <2>5. /\ status' = status
        /\ networkClock' = [networkClock EXCEPT
              ![x] = Time(x), ![y] = MergedTime(Time(y), LocalState(x, TRUE))]
    BY <1>8 DEF MemberlistJoin
  <2>6. /\ v = y => networkClock'[v] = MergedTime(Time(y), LocalState(x, TRUE))
        /\ v = x => networkClock'[v] = Time(x)
        /\ v # x /\ v # y => networkClock'[v] = networkClock[v]
    BY Zenon, <2>1, <2>5 DEF TypeOK
  <2>7. networkClock'[v] >= networkClock[v]
    <3>1. CASE v = x
      BY <1>b, <2>6, <3>1
    <3>2. CASE v = y
      BY <1>b, <1>m, <2>1, LocalStateType, <2>3, <2>6, <3>2, Zenon
    <3>3. CASE v # x /\ v # y
      BY <1>0, <2>6, <3>3
    <3> QED
      BY <3>1, <3>2, <3>3
  <2> QED
    BY Zenon, <1>s, <2>5, <2>7
<1>9. ASSUME NEW x \in Node, NEW pp \in answers[x], MemberlistJoined(x, pp)
      PROVE  status[v] # "down" /\ networkClock'[v] >= networkClock[v]
  BY <1>9, <1>b, <1>m, <1>s, <1>a DEF TypeOK, MemberlistJoined
<1>10. CASE Reap
  BY <1>3, <1>10 DEF Reap, ReapDeadNode, ReapNetworks
<1>11. CASE UNCHANGED clusterVars
  BY <1>3, <1>11 DEF clusterVars
<1> QED
  BY <1>1, <1>2, <1>4, <1>5, <1>6, <1>7, <1>8, <1>9, <1>10, <1>11
     DEF Next, Membership, Shutdown, Crash, Sync

(***************************************************************************)
(* What a message or a merge may hold about node v.                        *)
(***************************************************************************)
LEMMA LocalTimes ==
    ASSUME TypeOK, NEW x \in Node, NEW join \in BOOLEAN, NEW v \in Node, NEW c \in Nat,
           \A n \in Network : networks[x][v][n].ltime <= c,
           join /\ v = x => Time(x) <= c
    PROVE  \A ev \in LocalState(x, join).networks : ev.node = v => ev.ltime <= c
<1> DEFINE nets == IF join THEN [networks[x] EXCEPT ![x] = UpdatedNetworks(x)]
                   ELSE networks[x]
           event(z, n) == [type |-> IF nets[z][n].leaving THEN "Leave" ELSE "Join",
                           ltime |-> nets[z][n].ltime, node |-> z, network |-> n]
           pairs == {q \in Node \X Network : nets[q[1]][q[2]].present}
<1>1. LocalState(x, join).networks = {event(p[1], p[2]) : p \in pairs}
  BY DEF LocalState
<1>2. \A n \in Network : nets[v][n].ltime <= c
  BY DEF TypeOK, UpdatedNetworks, Attachment
<1>3. \A z, n : event(z, n).node = z /\ event(z, n).ltime = nets[z][n].ltime
  OBVIOUS
<1>4. \A p \in pairs : p[2] \in Network
  OBVIOUS
<1> HIDE DEF nets, event, pairs
<1> QED
  BY <1>1, <1>2, <1>3, <1>4

LEMMA MergedTimes ==
    ASSUME TypeOK, NEW y \in Node, NEW E, NEW v \in Node, NEW c \in Nat,
           \A n \in Network : networks[y][v][n].ltime <= c,
           \A ev \in E : ev.node = v => ev.ltime <= c
    PROVE  \A n \in Network : MergedNetworks(y, E)[v][n].ltime <= c
  BY AttachmentFields, MergedApplied DEF AppliedAttachment, Accepted

LEMMA HandledTime ==
    ASSUME TypeOK, NEW y \in Node, NEW ev, ev.node \in Node, ev.ltime \in 0..MaxClock,
           NEW c \in Nat, nodes[y][ev.node].ltime <= c, ev.ltime <= c
    PROVE  HandledNode(y, ev).ltime <= c
  BY DEF TypeOK, NodeRecord, HandledNode, MovedNode

(***************************************************************************)
(* TimesAtMost for one holder w and one subject v.  The clock d that v has *)
(* after the step bounds every time that was known before it.              *)
(***************************************************************************)
LEMMA TimesStep ==
    ASSUME TimeInv, [Next]_clusterVars, NEW w \in Node, NEW v \in Node,
           status'[v] # "down"
    PROVE  TimesAtMost(w, v, networkClock[v])'
<1>0. TypeOK /\ CallsOwn
  BY DEF TimeInv
<1>1. status[v] # "down" /\ networkClock'[v] >= networkClock[v]
  BY <1>0, ClockMonotone
<1>3. networkClock[v] \in 0..MaxClock /\ networkClock'[v] \in 0..MaxClock
  BY <1>0, TypeStep DEF TypeOK
<1>4. PICK d \in 0..MaxClock : d = networkClock'[v]
  BY <1>3
<1>d. d \in Nat /\ 0 <= d
  BY ClusterAssumption
<1> DEFINE Below(E) == \A ev \in E : ev.node = v => ev.ltime <= d
           NodesOK == nodes'[w][v].ltime <= d
           NetsOK == \A n \in Network : networks'[w][v][n].ltime <= d
           QueuesOK == Below(nodeQ'[w]) /\ Below(networkQ'[w]) /\ Below(calls'[w])
           AnswersOK == \A pp \in answers'[w] :
                           (pp.node = v => pp.ltime <= d) /\ Below(pp.networks)
<1> SUFFICES NodesOK /\ NetsOK /\ QueuesOK /\ AnswersOK
  BY <1>4 DEF TimesAtMost
<1>5. ASSUME NEW z \in Node PROVE TimesAtMost(z, v, networkClock[v])
  BY <1>1 DEF TimeInv, TimesKnown
<1>6. ASSUME NEW z \in Node
      PROVE  /\ nodes[z][v].ltime <= d
             /\ \A n \in Network : networks[z][v][n].ltime <= d
             /\ Below(nodeQ[z]) /\ Below(networkQ[z]) /\ Below(calls[z])
             /\ \A pp \in answers[z] :
                   (pp.node = v => pp.ltime <= d) /\ Below(pp.networks)
  BY <1>1, <1>3, <1>4, <1>0, <1>5 DEF TypeOK, NodeRecord, TimesAtMost, Attachment, NodeEvent,
     NetworkEvent, NetworkPushPull
<1>n. ASSUME UNCHANGED nodes PROVE NodesOK
  BY <1>6, <1>n
<1>m. ASSUME UNCHANGED networks PROVE NetsOK
  BY <1>6, <1>m
<1>a. ASSUME UNCHANGED answers PROVE AnswersOK
  BY <1>6, <1>a
<1>p. /\ UNCHANGED nodeQ => Below(nodeQ'[w])
      /\ UNCHANGED networkQ => Below(networkQ'[w])
      /\ UNCHANGED calls => Below(calls'[w])
  BY <1>6
<1>q. ASSUME UNCHANGED <<nodeQ, networkQ, calls>> PROVE QueuesOK
  BY <1>p, <1>q
<1>x. ASSUME NEW x \in Node, NEW D, DropNodes(x, D) PROVE NetsOK
  BY <1>0, <1>x, <1>d, <1>6, AttachmentFields DEF DropNodes, FreshNetworks, TypeOK
<1>k. ASSUME NEW x \in Node, NEW ev, QueueNetworkEvent(x, ev),
             ev.node = v => ev.ltime <= d
      PROVE  Below(networkQ'[w])
  BY <1>0, <1>k, <1>6 DEF QueueNetworkEvent, TypeOK
<1> HIDE DEF Below, NodesOK, NetsOK, QueuesOK, AnswersOK
<1>10. ASSUME NEW x \in Node, Start(x)
       PROVE  NodesOK /\ NetsOK /\ QueuesOK /\ AnswersOK
  BY <1>n, <1>m, <1>q, <1>a, <1>10 DEF Start
<1>11. ASSUME NEW x \in Node, Close(x)
       PROVE  NodesOK /\ NetsOK /\ QueuesOK /\ AnswersOK
  BY <1>0, <1>4, <1>11, <1>6, <1>n, <1>m, <1>p, <1>a DEF Close, TypeOK, Time, Below, QueuesOK
<1>12. ASSUME NEW x \in Node, Stop(x)
       PROVE  NodesOK /\ NetsOK /\ QueuesOK /\ AnswersOK
  BY <1>0, <1>12, AttachmentFields, <1>d, <1>6 DEF Stop, FreshNodes, NewNode, Unknown, TypeOK,
     FreshNetworks, NodesOK, NetsOK, QueuesOK, AnswersOK, Below
<1>v. ASSUME NEW r, NEW st PROVE MovedNode(r, st).ltime = r.ltime
  BY DEF MovedNode
<1>13. ASSUME NEW x \in Node, NEW y \in Node, NotifyJoin(x, y)
       PROVE  NodesOK /\ NetsOK /\ QueuesOK /\ AnswersOK
  <2>1. QueuesOK /\ AnswersOK
    BY <1>q, <1>a, <1>13 DEF NotifyJoin
  <2>2. CASE NotifyRejoin(x, y)
    BY <1>0, <2>2, <1>v, <1>6, <1>m, <2>1 DEF NotifyRejoin, TypeOK, NodesOK
  <2>3. CASE NotifyNew(x, y)
    BY <2>3, <1>0, <1>v, <1>d, <1>6, <1>x, <2>1 DEF NotifyNew, TypeOK, NewNode, NodesOK
  <2> QED
    BY <1>13, <2>2, <2>3 DEF NotifyJoin
<1>14. ASSUME NEW x \in Node, NEW y \in Node, NotifyLeave(x, y)
       PROVE  NodesOK /\ NetsOK /\ QueuesOK /\ AnswersOK
  <2>1. QueuesOK /\ AnswersOK
    BY <1>q, <1>a, <1>14 DEF NotifyLeave
  <2>2. CASE nodes[x][y].state = "active"
    <3>1. nodes' = [nodes EXCEPT ![x][y] = MovedNode(@, "failed")] /\ DropNodes(x, {y})
      BY <1>14, <2>2 DEF NotifyLeave
    <3> QED BY <1>6, <1>x, <2>1, <3>1, <1>v, <1>0 DEF NodesOK, TypeOK
  <2>3. CASE nodes[x][y].state # "active"
    BY <1>n, <1>m, <1>14, <2>1, <2>3 DEF NotifyLeave
  <2> QED
    BY <2>2, <2>3
<1>15. ASSUME NEW x \in Node, NEW n \in Network, JoinNetwork(x, n) \/ LeaveNetwork(x, n)
       PROVE  NodesOK /\ NetsOK /\ QueuesOK /\ AnswersOK
  <2>1. PICK type \in {"Join", "Leave"} :
           /\ Call(x, OwnEvent(x, n, type))
           /\ UNCHANGED networkQ \/ QueueNetworkEvent(x, OwnEvent(x, n, type))
    BY <1>15 DEF JoinNetwork, LeaveNetwork
  <2> DEFINE e == OwnEvent(x, n, type)
  <2>4. e.node = v => e.ltime <= d
    BY <1>d, <1>0, <1>4, <2>1 DEF OwnEvent, TypeOK, Call
  <2>6. Below(calls'[w])
    BY <1>0, <2>1, <1>6, <2>4 DEF Call, TypeOK, Below
  <2> QED BY <1>n, <1>m, <1>a, <1>p, <1>k, <2>4, <2>1, <2>6 DEF QueuesOK, Call
<1>16. ASSUME NEW x \in Node, NEW ev \in calls[x],
              JoinNetworkLocked(x, ev) \/ LeaveNetworkLocked(x, ev)
       PROVE  NodesOK /\ NetsOK /\ QueuesOK /\ AnswersOK
  <2>1. ev.node = x /\ ev.network \in Network
    BY <1>0 DEF CallsOwn, TypeOK, NetworkEvent
  <2>2. ev.node = v => ev.ltime <= d
    BY <1>6 DEF Below
  <2>4. Below(calls'[w])
    <3>1. calls'[w] \subseteq calls[w]
      BY ZenonT(60), <1>0, <1>16 DEF JoinNetworkLocked, LeaveNetworkLocked, Return, TypeOK
    <3> QED
      BY <1>6, <3>1 DEF Below
  <2>5. NetsOK
    <3>1. ASSUME NEW n \in Network PROVE networks'[w][v][n].ltime <= d
      <4>1. \/ networks'[w][v][n] = networks[w][v][n]
            \/ v = x /\ networks'[w][v][n] = NewNetwork(ev.ltime)
            \/ v = x /\ networks'[w][v][n] = LeftNetwork(ev.ltime)
        <5>1. CASE JoinNetworkLocked(x, ev)
          BY <1>0, <2>1, <5>1 DEF JoinNetworkLocked, TypeOK
        <5>2. CASE LeaveNetworkLocked(x, ev)
          BY <1>0, <2>1, <5>2 DEF LeaveNetworkLocked, TypeOK
        <5> QED
          BY <1>16, <5>1, <5>2
      <4> QED
        BY <1>6, <2>1, <2>2, <4>1, AttachmentFields
    <3> QED
      BY <3>1 DEF NetsOK
  <2> QED
    BY <1>n, <1>a, <1>p, <1>k, <2>2, <1>16, <2>4, <2>5 DEF QueuesOK, JoinNetworkLocked,
       LeaveNetworkLocked, Return
<1>g. ASSUME NEW y \in Node, NEW E, Below(E), NEW n \in Network
      PROVE  MergedNetworks(y, E)[v][n].ltime <= d
  BY <1>g, <1>0, <1>d, <1>6, MergedTimes DEF Below
<1>17. ASSUME NEW x \in Node, NEW y \in Node, NEW ev \in networkQ[x],
              GossipNetworkEvent(x, y, ev)
       PROVE  NodesOK /\ NetsOK /\ QueuesOK /\ AnswersOK
  <2>1. ev.node = v => ev.ltime <= d
    BY <1>6 DEF Below
  <2>3. NetsOK
    BY <1>0, <1>17, <1>g, <2>1, <1>6, Zenon DEF GossipNetworkEvent, TypeOK, NetsOK, Below
  <2> QED BY <1>n, <1>a, <1>p, <1>17, <2>3, <1>k, <2>1 DEF GossipNetworkEvent, QueuesOK
<1>h. ASSUME NEW y \in Node, NEW ev, ev.node \in Node, ev.ltime \in 0..MaxClock,
             ev.node = v => ev.ltime <= d,
             nodes' = [nodes EXCEPT ![y][ev.node] = HandledNode(y, ev)]
      PROVE  NodesOK
  BY <1>0, <1>h, <1>d, <1>6, HandledTime DEF TypeOK, NodesOK
<1>18. ASSUME NEW x \in Node, NEW y \in Node, NEW ev \in nodeQ[x],
              GossipNodeEvent(x, y, ev)
       PROVE  NodesOK /\ NetsOK /\ QueuesOK /\ AnswersOK
  <2>1. ev.node = v => ev.ltime <= d
    BY <1>6 DEF Below
  <2>2. ev.node \in Node /\ ev.ltime \in 0..MaxClock
    BY <1>0 DEF TypeOK, NodeEvent
  <2>5. Below(nodeQ'[w])
    BY <1>0, <1>18, <1>6, <2>1 DEF GossipNodeEvent, TypeOK, Below
  <2> QED BY <1>a, <1>p, <1>18, <1>h, <2>1, <2>2, <1>x, <2>5, Zenon DEF GossipNodeEvent, QueuesOK
<1>r. ASSUME NEW y \in Node, NEW pp, pp.node \in Node, pp.ltime \in 0..MaxClock,
             pp.node = v => pp.ltime <= d,
             nodes' = [nodes EXCEPT ![y][pp.node] = MergedNode(y, pp)]
      PROVE  NodesOK
  <2> DEFINE e == [type |-> "Join", ltime |-> pp.ltime, node |-> pp.node]
  <2>1. e.node = pp.node /\ e.ltime = pp.ltime
    OBVIOUS
  <2>2. nodes' = [nodes EXCEPT ![y][e.node] = HandledNode(y, e)]
    BY <1>r DEF MergedNode
  <2> HIDE DEF e
  <2> QED
    BY ZenonT(60), <1>h, <1>r, <2>1, <2>2
<1>l. ASSUME NEW x \in Node, NEW join \in BOOLEAN, join => Tick(x),
             join /\ v = x => Time(x) <= d
      PROVE  /\ LocalState(x, join) \in NetworkPushPull
             /\ LocalState(x, join).node = x
             /\ LocalState(x, join).node = v => LocalState(x, join).ltime <= d
             /\ Below(LocalState(x, join).networks)
  <2>2. /\ LocalState(x, join).node = x
        /\ LocalState(x, join).ltime = IF join THEN Time(x) ELSE networkClock[x]
    BY DEF LocalState
  <2>4. networkClock[v] <= d
    BY <1>1, <1>3, <1>4
  <2> QED BY <1>l, <1>0, LocalStateType, <2>2, <1>d, <1>6, LocalTimes, <2>4 DEF Below
<1>t. ASSUME NEW y \in Node, NEW pp \in NetworkPushPull, MergeRemoteState(y, pp),
             pp.node = v => pp.ltime <= d, Below(pp.networks)
      PROVE  NodesOK /\ NetsOK
  BY <1>r, <1>t, <1>0, <1>g, <1>6, Zenon DEF NetworkPushPull, MergeRemoteState, TypeOK, NetsOK
<1>19. ASSUME NEW x \in Node, NEW y \in Node, PushPull(x, y)
       PROVE  NodesOK /\ NetsOK /\ QueuesOK /\ AnswersOK
  BY <1>l, <1>19, <1>t, <1>q, <1>a, Zenon DEF PushPull
<1>20. ASSUME NEW x \in Node, NEW y \in Node, MemberlistJoin(x, y)
       PROVE  NodesOK /\ NetsOK /\ QueuesOK /\ AnswersOK
  <2> DEFINE push == LocalState(x, TRUE)
             answer == LocalState(y, TRUE)
  <2>1. Tick(x) /\ Tick(y) /\ x # y
    BY <1>20 DEF MemberlistJoin
  <2>2. /\ Time(x) \in 0..MaxClock /\ Time(y) \in 0..MaxClock
    BY <1>0, <2>1, ClusterAssumption DEF Tick, Time, TypeOK
  <2>3. v = x => Time(x) <= d
    BY <1>0, <1>20, <2>1, <1>4, <2>2 DEF MemberlistJoin, TypeOK
  <2>4. v = y => Time(y) <= d
    BY <1>0, <1>20, <2>1, LocalStateType, <2>2, MergedTimeType, <1>4, Zenon DEF MemberlistJoin,
       TypeOK
  <2>5. /\ push \in NetworkPushPull /\ push.node = x /\ Below(push.networks)
        /\ push.node = v => push.ltime <= d
    BY Zenon, <1>l, <2>1, <2>3
  <2>6. /\ Below(answer.networks)
        /\ answer.node = v => answer.ltime <= d
    BY ZenonT(60), <1>l, <2>1, <2>4
  <2>7. AnswersOK
    BY <1>0, <1>20, <1>6, <2>6, Zenon DEF MemberlistJoin, TypeOK, AnswersOK, Below
  <2>9. NetsOK
    <3>1. ASSUME NEW z \in Node, NEW n \in Network, v = z, Time(z) <= d
          PROVE  UpdatedNetworks(z)[n].ltime <= d
      BY <1>0, <1>6, <3>1 DEF TypeOK, UpdatedNetworks, Attachment
    <3>2. ASSUME NEW n \in Network PROVE networks'[w][v][n].ltime <= d
      <4>1. \/ networks'[w][v][n] = networks[w][v][n]
            \/ v = x /\ networks'[w][v][n] = UpdatedNetworks(x)[n]
            \/ v = y /\ networks'[w][v][n] = UpdatedNetworks(y)[n]
            \/ networks'[w][v][n] = MergedNetworks(y, push.networks)[v][n]
        <5>1. networks' = [networks EXCEPT
                 ![x][x] = UpdatedNetworks(x),
                 ![y] = [MergedNetworks(y, push.networks) EXCEPT
                             ![y] = UpdatedNetworks(y)]]
          BY <1>20 DEF MemberlistJoin
        <5>2. CASE w = y
          BY <1>0, <2>1, <5>1, <5>2, Zenon DEF TypeOK, MergedNetworks
        <5>3. CASE w # y
          BY <1>0, <2>1, <5>1, <5>3, Zenon DEF TypeOK
        <5> QED
          BY ZenonT(60), <5>2, <5>3
      <4>3. /\ v = x => UpdatedNetworks(x)[n].ltime <= d
            /\ v = y => UpdatedNetworks(y)[n].ltime <= d
        BY <2>3, <2>4, <3>1
      <4> HIDE DEF push
      <4> QED BY <1>6, <4>1, <1>g, <2>5, <4>3
    <3> QED
      BY <3>2 DEF NetsOK
  <2> QED BY <1>q, <1>20, <2>7, <2>5, <1>r, <2>9, Zenon DEF MemberlistJoin, NetworkPushPull
<1>21. ASSUME NEW x \in Node, NEW pp \in answers[x], MemberlistJoined(x, pp)
       PROVE  NodesOK /\ NetsOK /\ QueuesOK /\ AnswersOK
  <2>3. AnswersOK
    BY <1>0, <1>21, <1>6 DEF MemberlistJoined, TypeOK, AnswersOK, Below
  <2>4. Below(nodeQ'[w])
    <3> DEFINE t == MergedTime(networkClock[x], pp) + 1
               e == [type |-> "Join", ltime |-> t, node |-> x]
    <3>1. v = x => d = t
      BY <1>0, <1>4, <1>21 DEF MemberlistJoined, TypeOK
    <3>2. nodeQ'[w] \subseteq nodeQ[w] \cup {e}
      BY <1>0, <1>21 DEF MemberlistJoined, TypeOK
    <3>3. e.node = x /\ e.ltime = t
      OBVIOUS
    <3> HIDE DEF e, t
    <3> QED BY <1>6, <3>2, <1>d, <3>1, <3>3 DEF Below
  <2> QED BY <1>p, <1>21, <1>t, <1>0, <1>6, <2>3, <2>4 DEF MemberlistJoined, QueuesOK, TypeOK
<1>22. ASSUME NEW x \in Node, ReapDeadNode(x)
       PROVE  NodesOK /\ NetsOK /\ QueuesOK /\ AnswersOK
  <2>2. ReapedNode(nodes[w][v]).ltime \in {0, nodes[w][v].ltime}
    BY <1>0 DEF ReapedNode, Unknown, NodeRecord, TypeOK
  <2>3. nodes'[w][v] \in {nodes[w][v], ReapedNode(nodes[w][v])}
    BY <1>0, <1>22 DEF ReapDeadNode, TypeOK
  <2>4. NodesOK
    BY <1>d, <1>6, <2>2, <2>3 DEF NodesOK
  <2> QED
    BY <1>m, <1>q, <1>a, <1>22, <2>4 DEF ReapDeadNode
<1>23. ASSUME NEW x \in Node, ReapNetworks(x)
       PROVE  NodesOK /\ NetsOK /\ QueuesOK /\ AnswersOK
  <2>1. ASSUME NEW n \in Network PROVE networks'[w][v][n].ltime <= d
    <3>2. ReapedNetwork(networks[w][v][n]).ltime \in {0, networks[w][v][n].ltime}
      BY <1>0, AttachmentFields DEF ReapedNetwork, Attachment, TypeOK
    <3> QED BY <1>d, <1>6, <3>2, <1>0, <1>23 DEF ReapNetworks, TypeOK
  <2> QED
    BY <1>n, <1>q, <1>a, <1>23, <2>1 DEF ReapNetworks, NetsOK
<1>24. ASSUME UNCHANGED clusterVars
       PROVE  NodesOK /\ NetsOK /\ QueuesOK /\ AnswersOK
  BY <1>n, <1>m, <1>q, <1>a, <1>24 DEF clusterVars
<1>25. CASE Membership
  BY <1>10, <1>11, <1>12, <1>13, <1>14, <1>25 DEF Membership, Shutdown, Crash
<1>26. CASE Attach
  BY <1>15, <1>16, <1>26 DEF Attach
<1>27. CASE Gossip
  BY <1>17, <1>18, <1>27 DEF Gossip
<1>28. CASE Sync
  BY <1>19, <1>20, <1>21, <1>28 DEF Sync
<1>29. CASE Reap
  BY <1>22, <1>23, <1>29 DEF Reap
<1> QED
  BY <1>24, <1>25, <1>26, <1>27, <1>28, <1>29 DEF Next

LEMMA CallsStep == TimeInv /\ [Next]_clusterVars => CallsOwn'
<1> SUFFICES ASSUME TimeInv, [Next]_clusterVars, NEW w \in Node
             PROVE  \A ev \in calls'[w] : ev.node = w
  BY DEF CallsOwn
<1>1. TypeOK /\ \A ev \in calls[w] : ev.node = w
  BY DEF TimeInv, CallsOwn
<1>2. ASSUME calls'[w] \subseteq calls[w]
      PROVE  \A ev \in calls'[w] : ev.node = w
  BY <1>1, <1>2
<1>3. CASE Membership
  <2>1. ASSUME NEW x \in Node, Stop(x) PROVE calls'[w] \subseteq calls[w]
    BY <1>1, <2>1 DEF Stop, TypeOK
  <2>2. ASSUME NEW x \in Node, Start(x) \/ Close(x) PROVE calls'[w] \subseteq calls[w]
    BY <2>2 DEF Start, Close
  <2>3. ASSUME NEW x \in Node, NEW y \in Node, NotifyJoin(x, y) \/ NotifyLeave(x, y)
        PROVE  calls'[w] \subseteq calls[w]
    BY <2>3 DEF NotifyJoin, NotifyLeave
  <2> QED
    BY <1>2, <1>3, <2>1, <2>2, <2>3 DEF Membership, Shutdown, Crash
<1>4. CASE Attach
  <2>1. ASSUME NEW x \in Node, NEW n \in Network, NEW type, Call(x, OwnEvent(x, n, type))
        PROVE  \A ev \in calls'[w] : ev.node = w
    BY <1>1, <2>1 DEF Call, TypeOK, OwnEvent
  <2>2. ASSUME NEW x \in Node, NEW ev \in calls[x],
               JoinNetworkLocked(x, ev) \/ LeaveNetworkLocked(x, ev)
        PROVE  calls'[w] \subseteq calls[w]
    BY ZenonT(60), <1>1, <2>2 DEF JoinNetworkLocked, LeaveNetworkLocked, Return, TypeOK
  <2> QED
    BY <1>2, <1>4, <2>1, <2>2 DEF Attach, JoinNetwork, LeaveNetwork
<1>5. CASE Gossip
  BY Zenon, <1>1, <1>5 DEF Gossip, GossipNetworkEvent, GossipNodeEvent
<1>6. CASE Sync
  BY ZenonT(60), <1>1, <1>6 DEF Sync, PushPull, MemberlistJoin, MemberlistJoined
<1>7. CASE Reap
  BY ZenonT(60), <1>1, <1>7 DEF Reap, ReapDeadNode, ReapNetworks
<1>8. CASE UNCHANGED clusterVars
  BY Zenon, <1>1, <1>8 DEF clusterVars
<1> QED
  BY <1>3, <1>4, <1>5, <1>6, <1>7, <1>8 DEF Next

(***************************************************************************)
(* Whatever is lost, repeated or reordered, no record, queue or message in *)
(* flight holds a time of a running node that the clock of that node has   *)
(* not reached: JoinNetwork, LeaveNetwork, Close and the memberlist join   *)
(* always produce events that are newer than everything known about their  *)
(* node.                                                                   *)
(***************************************************************************)
THEOREM ClockNewest == Spec => []OwnClockNewest
<1>1. TimeInv /\ [Next]_clusterVars => TimeInv'
  BY TypeStep, TimesStep, CallsStep DEF TimeInv, TimesKnown
<1>2. TimeInv => OwnClockNewest
  BY DEF TimeInv, TimesKnown, OwnClockNewest, Up
<1> QED
  BY TimeInit, <1>1, <1>2, PTL DEF Spec
=============================================================================
