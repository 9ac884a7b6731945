----------------------- MODULE NetworkDBClusterProofs -----------------------
(***************************************************************************)
(* Proofs about NetworkDBCluster, for any number of nodes and networks:    *)
(* type correctness; networks and networkNodes, the two indexes of the     *)
(* attachments, agree; the attachments of other nodes are those of active  *)
(* nodes, and what a node knows of them never goes back in time.           *)
(***************************************************************************)
EXTENDS NetworkDBCluster, WellFoundedInduction, TLAPS

(***************************************************************************)
(* A nonempty set of Lamport times has a maximum.                          *)
(***************************************************************************)
LEMMA MaxInSet ==
    ASSUME NEW S \in SUBSET (0..MaxClock), S # {}
    PROVE  Max(S) \in S /\ \A t \in S : t <= Max(S)
<1> DEFINE B == {m \in Nat : \A t \in S : t <= m}
<1>1. B \subseteq Nat /\ B # {}
  BY ClusterAssumption
<1>2. PICK m \in B : \A k \in B : ~ (<<k, m>> \in OpToRel(<, Nat))
  BY <1>1, WFMin, NatLessThanWellFounded, Zenon
<1>3. \A k \in B : ~ (k < m)
  BY Zenon, <1>2, <1>1 DEF OpToRel
<1>4. m \in S
  <2>1. CASE m = 0
    <3>1. PICK s \in S : TRUE
      BY Zenon
    <3> QED BY <2>1, <1>1, ClusterAssumption
  <2>2. CASE m # 0 /\ m \notin S
    BY <2>2, <1>1, <1>3
  <2> QED
    BY <2>1, <2>2
<1> QED BY <1>4, <1>1, Zenon DEF Max

(***************************************************************************)
(* Types of the operators.                                                 *)
(***************************************************************************)
LEMMA RecordTypes ==
    /\ Unknown \in NodeRecord /\ NewNode \in NodeRecord
    /\ NoNetwork \in Attachment
    /\ \A t \in 0..MaxClock : NewNetwork(t) \in Attachment /\ LeftNetwork(t) \in Attachment
    /\ \A r \in NodeRecord, st \in NodeState : MovedNode(r, st) \in NodeRecord
    /\ \A r \in NodeRecord : ReapedNode(r) \in NodeRecord
    /\ \A r \in Attachment : ReapedNetwork(r) \in Attachment
  BY ClusterAssumption DEF Unknown, NewNode, NodeRecord, NodeState, NoNetwork, NewNetwork,
     LeftNetwork, Attachment, MovedNode, ReapedNode, ReapedNetwork

LEMMA FreshTypes ==
    /\ \A x \in Node : FreshNodes(x) \in [Node -> NodeRecord]
    /\ FreshNetworks \in [Node -> [Network -> Attachment]]
BY RecordTypes DEF FreshNodes, FreshNetworks

LEMMA ClockTypes ==
    ASSUME NEW c \in 0..MaxClock, NEW t \in 0..MaxClock
    PROVE  WitnessTime(c, t) \in 0..MaxClock /\ WitnessTime(c, t) >= c
BY ClusterAssumption DEF WitnessTime

LEMMA MergedTimeType ==
    ASSUME NEW c \in 0..MaxClock, NEW pp \in NetworkPushPull
    PROVE  MergedTime(c, pp) \in 0..MaxClock /\ MergedTime(c, pp) >= c
<1> DEFINE S == {pp.ltime} \cup {ev.ltime : ev \in pp.networks}
<1>2. Max(S) \in 0..MaxClock
  BY MaxInSet DEF NetworkPushPull, NetworkEvent
<1> QED
  BY <1>2, ClockTypes DEF MergedTime

LEMMA MergeTypes ==
    ASSUME TypeOK, NEW y \in Node, NEW E \in SUBSET NetworkEvent
    PROVE  /\ MergedNetworks(y, E) \in [Node -> [Network -> Attachment]]
           /\ MergedNetworkNodes(y, E) \in [Network -> SUBSET Node]
  BY RecordTypes DEF Accepted, NetworkEvent, AppliedAttachment, MergedNetworks, TypeOK,
     MergedNetworkNodes, EventNodes

LEMMA HandledNodeType ==
    ASSUME TypeOK, NEW y \in Node, NEW ev, ev.node \in Node, ev.ltime \in 0..MaxClock
    PROVE  HandledNode(y, ev) \in NodeRecord
<1>1. nodes[y][ev.node] \in NodeRecord
  BY DEF TypeOK
<1> QED BY <1>1, RecordTypes DEF HandledNode, NodeState, NodeRecord

LEMMA UpdatedNetworksType ==
    ASSUME TypeOK, NEW x \in Node, Tick(x)
    PROVE  UpdatedNetworks(x) \in [Network -> Attachment]
<1>1. Time(x) \in 0..MaxClock
  BY ClusterAssumption DEF TypeOK, Tick, Time
<1>2. \A n \in Network : networks[x][x][n] \in Attachment
  BY DEF TypeOK
<1> QED
  BY <1>1, <1>2 DEF UpdatedNetworks, Attachment

LEMMA LocalStateType ==
    ASSUME TypeOK, NEW x \in Node, NEW join \in BOOLEAN, join => Tick(x)
    PROVE  LocalState(x, join) \in NetworkPushPull
<1> DEFINE nets == IF join THEN [networks[x] EXCEPT ![x] = UpdatedNetworks(x)]
                   ELSE networks[x]
           event(z, n) == [type |-> IF nets[z][n].leaving THEN "Leave" ELSE "Join",
                           ltime |-> nets[z][n].ltime, node |-> z, network |-> n]
<1>1. nets \in [Node -> [Network -> Attachment]]
  BY UpdatedNetworksType DEF TypeOK
<1>2. \A z \in Node, n \in Network : event(z, n) \in NetworkEvent
  BY <1>1 DEF Attachment, NetworkEvent
<1>4. LocalState(x, join) =
        [ltime |-> IF join THEN Time(x) ELSE networkClock[x],
         node |-> x,
         networks |-> {event(p[1], p[2]) :
             p \in {q \in Node \X Network : nets[q[1]][q[2]].present}}]
  BY DEF LocalState
<1> HIDE DEF nets, event
<1> QED BY ClusterAssumption, <1>4, <1>2 DEF NetworkPushPull, TypeOK, Tick, Time

(***************************************************************************)
(* Type correctness.                                                       *)
(***************************************************************************)
LEMMA TypeInit == Init => TypeOK
BY FreshTypes, ClusterAssumption DEF Init, TypeOK, Status

LEMMA DropNodesType ==
    ASSUME TypeOK, NEW x \in Node, NEW D, DropNodes(x, D)
    PROVE  /\ networks' \in [Node -> [Node -> [Network -> Attachment]]]
           /\ networkNodes' \in [Node -> [Network -> SUBSET Node]]
BY ZenonT(60), FreshTypes DEF TypeOK, DropNodes

LEMMA LifeType ==
    ASSUME TypeOK, NEW x \in Node,
           Start(x) \/ Close(x) \/ Shutdown(x) \/ Crash(x)
    PROVE  TypeOK'
<1>1. CASE Start(x)
  BY <1>1 DEF Start, TypeOK, Status
<1>2. CASE Close(x)
  BY <1>2, ClusterAssumption DEF Close, Tick, Time, TypeOK, NodeEvent, Status
<1>3. CASE Stop(x)
  <2>5. /\ networkNodes' \in [Node -> [Network -> SUBSET Node]]
        /\ nodeQ' \in [Node -> SUBSET NodeEvent]
        /\ networkQ' \in [Node -> SUBSET NetworkEvent]
    BY <1>3 DEF Stop, TypeOK
  <2> QED BY <1>3, ClusterAssumption, FreshTypes, <2>5 DEF TypeOK, Stop, Status
<1> QED
  BY <1>1, <1>2, <1>3 DEF Shutdown, Crash

LEMMA NotifyType ==
    ASSUME TypeOK, NEW x \in Node, NEW y \in Node,
           NotifyJoin(x, y) \/ NotifyLeave(x, y)
    PROVE  TypeOK'
<1>1. CASE NotifyJoin(x, y)
  <2>1. ml' \in [Node -> SUBSET Node]
    BY <1>1 DEF NotifyJoin, TypeOK
  <2>2. CASE NotifyRejoin(x, y)
    BY RecordTypes, <1>1, <2>1, <2>2 DEF TypeOK, NodeState, NotifyJoin, NotifyRejoin
  <2>3. CASE NotifyNew(x, y)
    <3>1. PICK D : /\ nodes' = [nodes EXCEPT ![x] = [z \in Node |->
                          IF z = y THEN NewNode
                          ELSE IF z \in D THEN MovedNode(nodes[x][z], "left")
                          ELSE nodes[x][z]]]
                   /\ DropNodes(x, D)
      BY <2>3 DEF NotifyNew
    <3>3. nodes' \in [Node -> [Node -> NodeRecord]]
      BY <3>1, RecordTypes DEF TypeOK, NodeState
    <3> QED
      BY <1>1, <2>1, <3>1, <3>3, DropNodesType DEF NotifyJoin, TypeOK
  <2> QED
    BY <1>1, <2>2, <2>3 DEF NotifyJoin
<1>2. CASE NotifyLeave(x, y)
  <2>2. CASE nodes[x][y].state = "active"
    <3>1. DropNodes(x, {y}) /\ nodes' = [nodes EXCEPT ![x][y] = MovedNode(@, "failed")]
      BY <1>2, <2>2 DEF NotifyLeave
    <3>2. nodes' \in [Node -> [Node -> NodeRecord]]
      BY RecordTypes, <3>1 DEF TypeOK, NodeState
    <3> QED BY <1>2, <3>2, <3>1, DropNodesType, Zenon DEF NotifyLeave, TypeOK
  <2>3. CASE nodes[x][y].state # "active"
    BY <1>2, <2>3 DEF NotifyLeave, TypeOK
  <2> QED
    BY <2>2, <2>3
<1> QED
  BY <1>1, <1>2

LEMMA AttachType == ASSUME TypeOK, Attach PROVE TypeOK'
<1>1. PICK x \in Node :
        \/ \E n \in Network : JoinNetwork(x, n) \/ LeaveNetwork(x, n)
        \/ \E ev \in calls[x] : JoinNetworkLocked(x, ev) \/ LeaveNetworkLocked(x, ev)
  BY DEF Attach
<1>2. ASSUME NEW ev \in NetworkEvent, QueueNetworkEvent(x, ev)
      PROVE  networkQ' \in [Node -> SUBSET NetworkEvent]
  BY <1>2 DEF QueueNetworkEvent, TypeOK
<1>3. ASSUME Tick(x), NEW n \in Network, NEW type \in {"Join", "Leave"}
      PROVE  Time(x) \in 0..MaxClock /\ OwnEvent(x, n, type) \in NetworkEvent
  BY <1>3, ClusterAssumption DEF Tick, Time, OwnEvent, NetworkEvent, TypeOK
<1>4. CASE \E n \in Network : JoinNetwork(x, n) \/ LeaveNetwork(x, n)
  <2>1. PICK n \in Network, type \in {"Join", "Leave"} :
           /\ Call(x, OwnEvent(x, n, type))
           /\ UNCHANGED networkQ \/ QueueNetworkEvent(x, OwnEvent(x, n, type))
    BY <1>4 DEF JoinNetwork, LeaveNetwork
  <2> QED BY <2>1, <1>3, <1>2 DEF Call, TypeOK
<1>5. ASSUME NEW ev \in calls[x], JoinNetworkLocked(x, ev) \/ LeaveNetworkLocked(x, ev)
      PROVE  TypeOK'
  <2>1. ev \in NetworkEvent /\ ev.ltime \in 0..MaxClock /\ ev.network \in Network
    BY DEF TypeOK, NetworkEvent
  <2>2. /\ NewNetwork(ev.ltime) \in Attachment
        /\ LeftNetwork(ev.ltime) \in Attachment
    BY <2>1, RecordTypes
  <2>3. networkQ' \in [Node -> SUBSET NetworkEvent]
    BY <1>5, <1>2, <2>1 DEF JoinNetworkLocked, LeaveNetworkLocked, TypeOK
  <2>4. /\ networks' \in [Node -> [Node -> [Network -> Attachment]]]
        /\ networkNodes' \in [Node -> [Network -> SUBSET Node]]
    <3>1. CASE JoinNetworkLocked(x, ev)
      BY <3>1, <2>1, <2>2 DEF JoinNetworkLocked, TypeOK
    <3>2. CASE LeaveNetworkLocked(x, ev)
      BY <3>2, <2>1, <2>2 DEF LeaveNetworkLocked, TypeOK
    <3> QED
      BY <1>5, <3>1, <3>2
  <2> QED
    BY ZenonT(60), <1>5, <2>3, <2>4 DEF JoinNetworkLocked, LeaveNetworkLocked, Return, TypeOK
<1> QED
  BY <1>1, <1>4, <1>5

LEMMA GossipType == ASSUME TypeOK, Gossip PROVE TypeOK'
<1>1. ASSUME NEW x \in Node, NEW ev \in networkQ[x], NEW y \in Node,
             GossipNetworkEvent(x, y, ev)
      PROVE  TypeOK'
  <2>1. ev \in NetworkEvent /\ ev.ltime \in 0..MaxClock /\ {ev} \in SUBSET NetworkEvent
    BY DEF TypeOK, NetworkEvent
  <2>4. networkQ' \in [Node -> SUBSET NetworkEvent]
    <3>1. CASE Accepts(y, ev)
      <4>1. QueueNetworkEvent(y, ev)
        BY <1>1, <3>1 DEF GossipNetworkEvent
      <4> QED
        BY <4>1, <2>1 DEF QueueNetworkEvent, TypeOK
    <3>2. CASE ~Accepts(y, ev)
      BY <1>1, <3>2 DEF GossipNetworkEvent, TypeOK
    <3> QED
      BY <3>1, <3>2
  <2> QED BY <1>1, <2>1, ClockTypes, MergeTypes, <2>4, Zenon DEF GossipNetworkEvent, TypeOK
<1>2. ASSUME NEW x \in Node, NEW ev \in nodeQ[x], NEW y \in Node,
             GossipNodeEvent(x, y, ev)
      PROVE  TypeOK'
  <2>1. ev \in NodeEvent /\ ev.ltime \in 0..MaxClock /\ ev.node \in Node
    BY DEF TypeOK, NodeEvent
  <2> QED
    BY <1>2, <2>1, ClockTypes, HandledNodeType, DropNodesType, Zenon DEF GossipNodeEvent, TypeOK
<1> QED
  BY <1>1, <1>2 DEF Gossip

LEMMA MergeRemoteStateType ==
    ASSUME TypeOK, NEW y \in Node, NEW pp \in NetworkPushPull, MergeRemoteState(y, pp)
    PROVE  /\ nodes' \in [Node -> [Node -> NodeRecord]]
           /\ networks' \in [Node -> [Node -> [Network -> Attachment]]]
           /\ networkNodes' \in [Node -> [Network -> SUBSET Node]]
  BY HandledNodeType, MergeTypes, Zenon DEF MergedNode, NetworkPushPull, MergeRemoteState, TypeOK

LEMMA MemberlistJoinType ==
    ASSUME TypeOK, NEW x \in Node, NEW y \in Node, MemberlistJoin(x, y)
    PROVE  TypeOK'
<1>1. /\ Tick(x) /\ Tick(y)
      /\ LocalState(x, TRUE) \in NetworkPushPull
      /\ LocalState(y, TRUE) \in NetworkPushPull
  BY Zenon, LocalStateType DEF MemberlistJoin
<1>2. LocalState(x, TRUE).networks \in SUBSET NetworkEvent
  BY Zenon, <1>1 DEF NetworkPushPull
<1>4. networks' \in [Node -> [Node -> [Network -> Attachment]]]
  BY <1>1, UpdatedNetworksType, <1>2, MergeTypes, Zenon DEF MemberlistJoin, TypeOK
<1>5. networkNodes' \in [Node -> [Network -> SUBSET Node]]
  BY Zenon, <1>2, MergeTypes DEF MemberlistJoin, TypeOK
<1>6. networkClock' \in [Node -> 0..MaxClock]
  <2>1. Time(x) \in 0..MaxClock /\ Time(y) \in 0..MaxClock
    BY <1>1, ClusterAssumption DEF Tick, Time, TypeOK
  <2> QED BY <2>1, <1>1, MergedTimeType, Zenon DEF MemberlistJoin, TypeOK
<1>7. answers' \in [Node -> SUBSET NetworkPushPull]
  BY ZenonT(60), <1>1 DEF MemberlistJoin, TypeOK
<1> QED
  BY <1>1, HandledNodeType, <1>4, <1>5, <1>6, <1>7, Zenon DEF MemberlistJoin, TypeOK, MergedNode,
     NetworkPushPull

LEMMA SyncType == ASSUME TypeOK, Sync PROVE TypeOK'
<1>1. ASSUME NEW x \in Node, NEW y \in Node, PushPull(x, y)
      PROVE  TypeOK'
  BY LocalStateType, <1>1, MergedTimeType, MergeRemoteStateType, Zenon DEF PushPull, TypeOK
<1>2. ASSUME NEW x \in Node, NEW pp \in answers[x], MemberlistJoined(x, pp)
      PROVE  TypeOK'
  <2>1. pp \in NetworkPushPull
    BY DEF TypeOK
  <2>2. MergedTime(networkClock[x], pp) + 1 \in 0..MaxClock
    BY <2>1, MergedTimeType, <1>2, ClusterAssumption DEF TypeOK, MemberlistJoined
  <2>4. nodeQ' \in [Node -> SUBSET NodeEvent]
    BY <2>2, <1>2 DEF NodeEvent, MemberlistJoined, TypeOK
  <2>5. answers' \in [Node -> SUBSET NetworkPushPull]
    BY Zenon, <1>2 DEF MemberlistJoined, TypeOK
  <2>6. MergeRemoteState(x, pp)
    BY ZenonT(60), <1>2 DEF MemberlistJoined
  <2> QED BY <1>2, <2>1, <2>2, <2>4, <2>5, <2>6, MergeRemoteStateType DEF MemberlistJoined, TypeOK
<1> QED
  BY <1>1, <1>2, MemberlistJoinType DEF Sync

LEMMA ReapType == ASSUME TypeOK, Reap PROVE TypeOK'
<1>1. ASSUME NEW x \in Node, ReapDeadNode(x)
      PROVE  TypeOK'
  BY <1>1, RecordTypes DEF ReapDeadNode, TypeOK
<1>2. ASSUME NEW x \in Node, ReapNetworks(x)
      PROVE  TypeOK'
  BY <1>2, RecordTypes DEF ReapNetworks, TypeOK
<1> QED
  BY <1>1, <1>2 DEF Reap

LEMMA TypeStep == TypeOK /\ [Next]_clusterVars => TypeOK'
  BY LifeType, NotifyType, AttachType, GossipType, SyncType, ReapType, Zenon DEF Membership,
     clusterVars, TypeOK, Next

(***************************************************************************)
(* Every reachable state has the shape that the NetworkDB struct promises: *)
(* clocks and recorded times stay within the bound, every record and queue *)
(* is well formed.                                                         *)
(***************************************************************************)
THEOREM TypeCorrect == Spec => []TypeOK
BY TypeInit, TypeStep, PTL DEF Spec

(***************************************************************************)
(* The indexes of the attachments.  A merged state must not hold two       *)
(* events about one attachment, so the inductive invariant also says that  *)
(* of the answers in flight.                                               *)
(***************************************************************************)
Distinct(E) ==
    \A e, f \in E : e.node = f.node /\ e.network = f.network => e = f

AnswersDistinct == \A x \in Node : \A pp \in answers[x] : Distinct(pp.networks)

IndexInv == TypeOK /\ AttachmentIndexesAgree /\ AnswersDistinct

LEMMA AttachmentFields ==
    /\ ~NoNetwork.present
    /\ \A t : /\ NewNetwork(t).present /\ ~NewNetwork(t).leaving
              /\ NewNetwork(t).ltime = t
              /\ LeftNetwork(t).present /\ LeftNetwork(t).leaving
              /\ LeftNetwork(t).ltime = t
    /\ NoNetwork.ltime = 0
BY DEF NoNetwork, NewNetwork, LeftNetwork

LEMMA MergedApplied ==
    ASSUME NEW y \in Node, NEW E, NEW z \in Node, NEW n \in Network
    PROVE  \/ \E ev \in Accepted(y, E) :
                 /\ ev.node = z /\ ev.network = n
                 /\ MergedNetworks(y, E)[z][n] = AppliedAttachment(ev)
           \/ /\ ~ \E ev \in Accepted(y, E) : ev.node = z /\ ev.network = n
              /\ MergedNetworks(y, E)[z][n] = networks[y][z][n]
  BY Zenon DEF MergedNetworks

LEMMA MergeAgrees ==
    ASSUME TypeOK, AttachmentIndexesAgree, NEW y \in Node,
           NEW E \in SUBSET NetworkEvent, Distinct(E),
           NEW z \in Node, NEW n \in Network
    PROVE  z \in MergedNetworkNodes(y, E)[n] <=>
             /\ MergedNetworks(y, E)[z][n].present
             /\ ~MergedNetworks(y, E)[z][n].leaving
  BY AttachmentFields, MergedApplied DEF MergedNetworkNodes, Accepted, Distinct, EventNodes,
     NetworkEvent, AppliedAttachment, AttachmentIndexesAgree

LEMMA LocalStateDistinct ==
    ASSUME NEW x \in Node, NEW join \in BOOLEAN
    PROVE  Distinct(LocalState(x, join).networks)
<1> DEFINE nets == IF join THEN [networks[x] EXCEPT ![x] = UpdatedNetworks(x)]
                   ELSE networks[x]
           event(z, n) == [type |-> IF nets[z][n].leaving THEN "Leave" ELSE "Join",
                           ltime |-> nets[z][n].ltime, node |-> z, network |-> n]
           pairs == {q \in Node \X Network : nets[q[1]][q[2]].present}
<1>1. LocalState(x, join).networks = {event(p[1], p[2]) : p \in pairs}
  BY DEF LocalState
<1>3. \A z, n : event(z, n).node = z /\ event(z, n).network = n
  OBVIOUS
<1> HIDE DEF nets, event, pairs
<1> QED BY <1>1, <1>3 DEF Distinct

LEMMA DropNodesAgrees ==
    ASSUME IndexInv, NEW x \in Node, NEW D, DropNodes(x, D)
    PROVE  AttachmentIndexesAgree'
  BY AttachmentFields DEF AttachmentIndexesAgree, IndexInv, DropNodes, TypeOK, FreshNetworks

LEMMA RowAgrees ==
    ASSUME IndexInv, NEW x \in Node, NEW A, NEW B,
           networks' = [networks EXCEPT ![x] = A],
           networkNodes' = [networkNodes EXCEPT ![x] = B],
           \A z \in Node, n \in Network :
               z \in B[n] <=> A[z][n].present /\ ~A[z][n].leaving
    PROVE  AttachmentIndexesAgree'
  BY DEF IndexInv, TypeOK, AttachmentIndexesAgree

LEMMA UpdatedAgrees ==
    ASSUME TypeOK, NEW x \in Node, NEW n \in Network
    PROVE  /\ UpdatedNetworks(x)[n].present = networks[x][x][n].present
           /\ UpdatedNetworks(x)[n].leaving = networks[x][x][n].leaving
  BY DEF TypeOK, UpdatedNetworks, Attachment

LEMMA IndexStep == IndexInv /\ [Next]_clusterVars => IndexInv'
<1> SUFFICES ASSUME IndexInv, [Next]_clusterVars
             PROVE  AttachmentIndexesAgree' /\ AnswersDistinct'
  BY TypeStep DEF IndexInv
<1>a. ASSUME UNCHANGED <<networks, networkNodes>>
      PROVE  AttachmentIndexesAgree'
  BY <1>a DEF IndexInv, AttachmentIndexesAgree
<1>b. ASSUME UNCHANGED answers
      PROVE  AnswersDistinct'
  BY <1>b DEF IndexInv, AnswersDistinct
<1>1. ASSUME NEW x \in Node, Start(x) \/ Close(x)
      PROVE  AttachmentIndexesAgree' /\ AnswersDistinct'
  BY <1>1, <1>a, <1>b DEF Start, Close
<1>2. ASSUME NEW x \in Node, Stop(x)
      PROVE  AttachmentIndexesAgree' /\ AnswersDistinct'
  <2>3. AttachmentIndexesAgree'
    <3>2. \A z \in Node, n \in Network :
            z \in [m \in Network |-> {}][n] <=>
              FreshNetworks[z][n].present /\ ~FreshNetworks[z][n].leaving
      BY AttachmentFields DEF FreshNetworks
    <3> QED BY <1>2, <3>2, RowAgrees, Zenon DEF Stop
  <2> QED BY <1>2, <2>3 DEF Stop, IndexInv, TypeOK, AnswersDistinct
<1>3. ASSUME NEW x \in Node, NEW y \in Node, NotifyJoin(x, y) \/ NotifyLeave(x, y)
      PROVE  AttachmentIndexesAgree' /\ AnswersDistinct'
  BY <1>3, <1>a, <1>b, DropNodesAgrees DEF NotifyJoin, NotifyLeave, NotifyRejoin, NotifyNew
<1>4. CASE Attach
  <2>1. ASSUME NEW x \in Node, NEW n \in Network, JoinNetwork(x, n) \/ LeaveNetwork(x, n)
        PROVE  AttachmentIndexesAgree' /\ AnswersDistinct'
    BY <2>1, <1>a, <1>b DEF JoinNetwork, LeaveNetwork, Call
  <2>2. ASSUME NEW x \in Node, NEW ev \in calls[x], JoinNetworkLocked(x, ev)
        PROVE  AttachmentIndexesAgree' /\ AnswersDistinct'
    BY <2>2, <1>b, AttachmentFields DEF JoinNetworkLocked, Return, IndexInv, TypeOK,
       AttachmentIndexesAgree
  <2>3. ASSUME NEW x \in Node, NEW ev \in calls[x], LeaveNetworkLocked(x, ev)
        PROVE  AttachmentIndexesAgree' /\ AnswersDistinct'
    <3>1. AnswersDistinct'
      BY <2>3, <1>b DEF LeaveNetworkLocked, Return
    <3>2. ASSUME NEW w \in Node, NEW z \in Node, NEW n \in Network
          PROVE  z \in networkNodes'[w][n] <=>
                   networks'[w][z][n].present /\ ~networks'[w][z][n].leaving
      <4>1. CASE w = x /\ z = x /\ n = ev.network
        BY <2>3, <4>1, AttachmentFields DEF LeaveNetworkLocked, IndexInv, TypeOK
      <4>2. CASE ~(w = x /\ z = x /\ n = ev.network)
        <5>1. /\ networks'[w][z][n] = networks[w][z][n]
              /\ z \in networkNodes'[w][n] <=> z \in networkNodes[w][n]
          BY <2>3, <4>2 DEF LeaveNetworkLocked, IndexInv, TypeOK
        <5> QED
          BY <5>1 DEF IndexInv, AttachmentIndexesAgree
      <4> QED
        BY <4>1, <4>2
    <3> QED
      BY <3>1, <3>2 DEF AttachmentIndexesAgree
  <2> QED
    BY <1>4, <2>1, <2>2, <2>3 DEF Attach
<1>5. ASSUME NEW x \in Node, NEW ev \in networkQ[x], NEW y \in Node,
             GossipNetworkEvent(x, y, ev)
      PROVE  AttachmentIndexesAgree' /\ AnswersDistinct'
  <2>1. {ev} \in SUBSET NetworkEvent /\ Distinct({ev})
    BY DEF IndexInv, TypeOK, Distinct
  <2>2. AttachmentIndexesAgree'
    <3>2. \A z \in Node, n \in Network :
            z \in MergedNetworkNodes(y, {ev})[n] <=>
              /\ MergedNetworks(y, {ev})[z][n].present
              /\ ~MergedNetworks(y, {ev})[z][n].leaving
      BY <2>1, MergeAgrees DEF IndexInv
    <3> QED BY <1>5, <3>2, RowAgrees, Zenon DEF GossipNetworkEvent
  <2> QED
    BY <1>5, <1>b, <2>2 DEF GossipNetworkEvent
<1>6. ASSUME NEW x \in Node, NEW ev \in nodeQ[x], NEW y \in Node,
             GossipNodeEvent(x, y, ev)
      PROVE  AttachmentIndexesAgree' /\ AnswersDistinct'
  BY <1>6, <1>b, DropNodesAgrees DEF GossipNodeEvent
<1>7. ASSUME NEW y \in Node, NEW pp \in NetworkPushPull, Distinct(pp.networks),
             MergeRemoteState(y, pp)
      PROVE  AttachmentIndexesAgree'
  <2>1. pp.networks \in SUBSET NetworkEvent
    BY DEF NetworkPushPull
  <2> QED
    BY Zenon, <1>7, <2>1, MergeAgrees, RowAgrees DEF MergeRemoteState, IndexInv
<1>8. ASSUME NEW x \in Node, NEW y \in Node, PushPull(x, y)
      PROVE  AttachmentIndexesAgree' /\ AnswersDistinct'
  BY LocalStateType, LocalStateDistinct, <1>8, <1>7, <1>b, Zenon DEF IndexInv, PushPull
<1>9. ASSUME NEW x \in Node, NEW pp \in answers[x], MemberlistJoined(x, pp)
      PROVE  AttachmentIndexesAgree' /\ AnswersDistinct'
  BY <1>9, <1>7 DEF IndexInv, TypeOK, AnswersDistinct, MemberlistJoined
<1>10. ASSUME NEW x \in Node, NEW y \in Node, MemberlistJoin(x, y)
       PROVE  AttachmentIndexesAgree' /\ AnswersDistinct'
  <2> DEFINE E == LocalState(x, TRUE).networks
  <2>1. LocalState(x, TRUE) \in NetworkPushPull /\ Distinct(E) /\ E \in SUBSET NetworkEvent
    BY Zenon, <1>10, LocalStateType, LocalStateDistinct DEF MemberlistJoin, IndexInv, NetworkPushPull
  <2>2. x # y /\ Distinct(LocalState(y, TRUE).networks)
    BY Zenon, <1>10, LocalStateDistinct DEF MemberlistJoin
  <2>3. AnswersDistinct'
    BY Zenon, <1>10, <2>2 DEF MemberlistJoin, IndexInv, TypeOK, AnswersDistinct
  <2>4. /\ networks' = [networks EXCEPT ![x][x] = UpdatedNetworks(x),
                          ![y] = [MergedNetworks(y, E) EXCEPT ![y] = UpdatedNetworks(y)]]
        /\ networkNodes' = [networkNodes EXCEPT ![y] = MergedNetworkNodes(y, E)]
    BY <1>10 DEF MemberlistJoin
  <2>5. MergedNetworks(y, E) \in [Node -> [Network -> Attachment]]
    BY Zenon, <2>1, MergeTypes DEF IndexInv
  <2> HIDE DEF E
  <2>6. ASSUME NEW w \in Node, NEW z \in Node, NEW n \in Network
        PROVE  z \in networkNodes'[w][n] <=>
                 networks'[w][z][n].present /\ ~networks'[w][z][n].leaving
    <3>0. z \in networkNodes[w][n] <=>
            networks[w][z][n].present /\ ~networks[w][z][n].leaving
      BY DEF IndexInv, AttachmentIndexesAgree
    <3>1. CASE w = y /\ z # y
      BY <2>2, <2>4, <2>5, <3>1, <2>1, MergeAgrees, Zenon DEF IndexInv, TypeOK
    <3>2. CASE w = y /\ z = y
      <4>1. /\ networks'[w][z][n] = UpdatedNetworks(y)[n]
            /\ networkNodes'[w][n] = MergedNetworkNodes(y, E)[n]
        BY Zenon, <2>2, <2>4, <2>5, <3>2 DEF IndexInv, TypeOK
      <4>3. y \in MergedNetworkNodes(y, E)[n] <=> y \in networkNodes[y][n]
        BY DEF MergedNetworkNodes, EventNodes, Accepted, Accepts
      <4> QED
        BY <4>1, <4>3, <3>0, <3>2, UpdatedAgrees DEF IndexInv
    <3>3. CASE w = x /\ z = x
      <4>1. networks'[w][z][n] = UpdatedNetworks(x)[n] /\ networkNodes'[w] = networkNodes[w]
        BY <2>2, <2>4, <3>3 DEF IndexInv, TypeOK
      <4> QED
        BY <4>1, <3>0, <3>3, UpdatedAgrees DEF IndexInv
    <3>4. CASE w # y /\ ~(w = x /\ z = x)
      BY <2>4, <3>4, <3>0 DEF IndexInv, TypeOK
    <3> QED
      BY <3>1, <3>2, <3>3, <3>4
  <2> QED
    BY <2>3, <2>6 DEF AttachmentIndexesAgree
<1>11. ASSUME NEW x \in Node, ReapDeadNode(x)
       PROVE  AttachmentIndexesAgree' /\ AnswersDistinct'
  BY <1>11, <1>a, <1>b DEF ReapDeadNode
<1>12. ASSUME NEW x \in Node, ReapNetworks(x)
       PROVE  AttachmentIndexesAgree' /\ AnswersDistinct'
  <2> DEFINE A == [y \in Node |-> [n \in Network |-> ReapedNetwork(networks[x][y][n])]]
  <2>2. networkNodes' = [networkNodes EXCEPT ![x] = networkNodes[x]]
    BY <1>12 DEF ReapNetworks, IndexInv, TypeOK
  <2>3. ASSUME NEW z \in Node, NEW n \in Network
        PROVE  z \in networkNodes[x][n] <=> A[z][n].present /\ ~A[z][n].leaving
    BY AttachmentFields DEF IndexInv, TypeOK, ReapedNetwork, Attachment, AttachmentIndexesAgree
  <2> QED BY <1>12, <1>b, <2>2, <2>3, RowAgrees, Zenon DEF ReapNetworks
<1>13. CASE UNCHANGED clusterVars
  BY <1>13, <1>a, <1>b DEF clusterVars
<1> QED
  BY <1>1, <1>2, <1>3, <1>4, <1>5, <1>6, <1>8, <1>9, <1>10, <1>11, <1>12, <1>13
     DEF Next, Membership, Shutdown, Crash, Gossip, Sync, Reap

(***************************************************************************)
(* networkNodes and networks never disagree on who is attached to a        *)
(* network, for any number of nodes and networks (AttachmentIndexesAgree). *)
(***************************************************************************)
THEOREM IndexesAgree == Spec => []AttachmentIndexesAgree
<1>1. Init => IndexInv
  BY AttachmentFields, TypeInit DEF FreshNetworks, Init, AttachmentIndexesAgree, AnswersDistinct,
     IndexInv
<1>2. IndexInv => AttachmentIndexesAgree
  BY DEF IndexInv
<1> QED
  BY <1>1, <1>2, IndexStep, PTL DEF Spec

(***************************************************************************)
(* Attachments of remote nodes.                                            *)
(***************************************************************************)
RemoteInv == TypeOK /\ RemoteAttachmentsActive

LEMMA MergeActive ==
    ASSUME RemoteInv, NEW y \in Node, NEW E,
           NEW z \in Node \ {y}, NEW n \in Network,
           MergedNetworks(y, E)[z][n].present
    PROVE  nodes[y][z].state = "active"
  BY MergedApplied DEF RemoteInv, RemoteAttachmentsActive, Accepted, Accepts

LEMMA JoinKeepsState ==
    ASSUME TypeOK, NEW y \in Node, NEW ev, ev.node \in Node, ev.type = "Join"
    PROVE  HandledNode(y, ev).state = nodes[y][ev.node].state
  BY DEF TypeOK, Moves, HandledNode, NodeRecord

LEMMA MergedNodeState ==
    ASSUME TypeOK, NEW y \in Node, NEW pp \in NetworkPushPull
    PROVE  MergedNode(y, pp).state = nodes[y][pp.node].state
BY JoinKeepsState DEF MergedNode, NetworkPushPull

LEMMA RemoteStep == RemoteInv /\ [Next]_clusterVars => RemoteInv'
<1> SUFFICES ASSUME RemoteInv, [Next]_clusterVars,
                    NEW w \in Node, NEW z \in Node \ {w}, NEW n \in Network,
                    networks'[w][z][n].present
             PROVE  nodes'[w][z].state = "active"
  BY TypeStep DEF RemoteInv, RemoteAttachmentsActive
<1>0. networks[w][z][n].present => nodes[w][z].state = "active"
  BY DEF RemoteInv, RemoteAttachmentsActive
<1>a. ASSUME UNCHANGED <<nodes, networks>>
      PROVE  nodes'[w][z].state = "active"
  BY <1>a, <1>0
<1>1. ASSUME NEW x \in Node, Start(x) \/ Close(x)
      PROVE  nodes'[w][z].state = "active"
  BY <1>1, <1>a DEF Start, Close
<1>2. ASSUME NEW x \in Node, Stop(x)
      PROVE  nodes'[w][z].state = "active"
  BY <1>2, AttachmentFields, <1>0 DEF Stop, RemoteInv, TypeOK, FreshNetworks
<1>3. ASSUME NEW x \in Node, NEW D, DropNodes(x, D),
             nodes'[w][z].state # nodes[w][z].state =>
                 nodes'[w][z].state = "active" \/ (w = x /\ z \in D)
      PROVE  nodes'[w][z].state = "active"
  <2>1. CASE w = x /\ z \in D
    BY <1>3, <2>1, AttachmentFields DEF DropNodes, RemoteInv, TypeOK, FreshNetworks
  <2>2. CASE ~(w = x /\ z \in D)
    BY <1>3, <2>2, <1>0 DEF DropNodes, RemoteInv, TypeOK
  <2> QED
    BY <2>1, <2>2
<1>4. ASSUME NEW x \in Node, NEW y \in Node, NotifyJoin(x, y)
      PROVE  nodes'[w][z].state = "active"
  <2>1. CASE NotifyRejoin(x, y)
    BY <2>1, <1>0 DEF NotifyRejoin, MovedNode, RemoteInv, TypeOK
  <2>2. CASE NotifyNew(x, y)
    BY <2>2, <1>3 DEF NotifyNew, RemoteInv, TypeOK, NewNode
  <2> QED
    BY <1>4, <2>1, <2>2 DEF NotifyJoin
<1>5. ASSUME NEW x \in Node, NEW y \in Node, NotifyLeave(x, y)
      PROVE  nodes'[w][z].state = "active"
  <2>1. CASE nodes[x][y].state = "active"
    <3>1. DropNodes(x, {y}) /\ nodes' = [nodes EXCEPT ![x][y] = MovedNode(@, "failed")]
      BY <1>5, <2>1 DEF NotifyLeave
    <3> QED BY <3>1, <1>3 DEF RemoteInv, TypeOK
  <2>2. CASE nodes[x][y].state # "active"
    BY <1>5, <2>2, <1>a DEF NotifyLeave
  <2> QED
    BY <2>1, <2>2
<1>6. CASE Attach
  <2>2. networks'[w][z] = networks[w][z]
    <3>1. ASSUME NEW x \in Node, NEW m \in Network, JoinNetwork(x, m) \/ LeaveNetwork(x, m)
          PROVE  networks'[w][z] = networks[w][z]
      BY <3>1 DEF JoinNetwork, LeaveNetwork, Call
    <3>2. ASSUME NEW x \in Node, NEW ev \in calls[x],
                 JoinNetworkLocked(x, ev) \/ LeaveNetworkLocked(x, ev)
          PROVE  networks'[w][z] = networks[w][z]
      <4>1. PICK t : networks' = [networks EXCEPT ![x][x][ev.network] = t]
        BY <3>2 DEF JoinNetworkLocked, LeaveNetworkLocked
      <4> QED
        BY <4>1 DEF RemoteInv, TypeOK
    <3> QED
      BY <1>6, <3>1, <3>2 DEF Attach
  <2> QED
    BY <1>6, <2>2, <1>0 DEF Attach, JoinNetwork, LeaveNetwork, JoinNetworkLocked,
       LeaveNetworkLocked, Call, Return
<1>7. ASSUME NEW y \in Node, NEW E, networks' = [networks EXCEPT ![y] = MergedNetworks(y, E)],
             nodes'[w][z].state = nodes[w][z].state
      PROVE  nodes'[w][z].state = "active"
  BY <1>7, MergeActive, <1>0 DEF RemoteInv, TypeOK
<1>8. ASSUME NEW x \in Node, NEW ev \in networkQ[x], NEW y \in Node,
             GossipNetworkEvent(x, y, ev)
      PROVE  nodes'[w][z].state = "active"
  BY ZenonT(60), <1>8, <1>7 DEF GossipNetworkEvent
<1>9. ASSUME NEW x \in Node, NEW ev \in nodeQ[x], NEW y \in Node,
             GossipNodeEvent(x, y, ev)
      PROVE  nodes'[w][z].state = "active"
  <2> DEFINE D == IF Moves(y, ev) THEN {ev.node} ELSE {}
  <2>1. DropNodes(y, D) /\ nodes' = [nodes EXCEPT ![y][ev.node] = HandledNode(y, ev)]
    BY <1>9 DEF GossipNodeEvent
  <2>4. nodes'[w][z].state = nodes[w][z].state \/ (w = y /\ z \in D)
    BY <2>1 DEF RemoteInv, TypeOK, HandledNode, NodeRecord, NodeEvent
  <2> QED
    BY <2>1, <2>4, <1>3
<1>10. ASSUME NEW y \in Node, NEW pp \in NetworkPushPull,
              nodes' = [nodes EXCEPT ![y][pp.node] = MergedNode(y, pp)]
       PROVE  nodes'[w][z].state = nodes[w][z].state
  <2>1. pp.node \in Node
    BY DEF NetworkPushPull
  <2> QED
    BY <2>1, <1>10, MergedNodeState DEF RemoteInv, TypeOK
<1>11. ASSUME NEW x \in Node, NEW y \in Node, PushPull(x, y)
       PROVE  nodes'[w][z].state = "active"
  BY LocalStateType, <1>11, <1>7, <1>10, Zenon DEF RemoteInv, PushPull, MergeRemoteState
<1>12. ASSUME NEW x \in Node, NEW pp \in answers[x], MemberlistJoined(x, pp)
       PROVE  nodes'[w][z].state = "active"
  BY <1>12, <1>7, <1>10, Zenon DEF RemoteInv, TypeOK, MemberlistJoined, MergeRemoteState
<1>13. ASSUME NEW x \in Node, NEW y \in Node, MemberlistJoin(x, y)
       PROVE  nodes'[w][z].state = "active"
  <2> DEFINE E == LocalState(x, TRUE).networks
  <2>1. LocalState(x, TRUE) \in NetworkPushPull /\ LocalState(x, TRUE).node = x /\ x # y
    BY Zenon, <1>13, LocalStateType DEF MemberlistJoin, RemoteInv, LocalState
  <2>3. nodes'[w][z].state = nodes[w][z].state
    BY <1>10, <2>1, <1>13, Zenon DEF MemberlistJoin
  <2>4. networks' = [networks EXCEPT ![x][x] = UpdatedNetworks(x),
                       ![y] = [MergedNetworks(y, E) EXCEPT ![y] = UpdatedNetworks(y)]]
    BY <1>13 DEF MemberlistJoin
  <2> HIDE DEF E
  <2>6. CASE w = y
    <3> QED
      BY <2>1, <2>4, MergeTypes, <2>6, <2>3, MergeActive DEF RemoteInv, TypeOK, NetworkPushPull
  <2>7. CASE w # y
    <3>1. networks'[w][z] = networks[w][z]
      <4>1. CASE w = x
        BY <2>1, <2>4, <2>7, <4>1 DEF RemoteInv, TypeOK
      <4>2. CASE w # x
        BY <2>4, <2>7, <4>2 DEF RemoteInv, TypeOK
      <4> QED
        BY <4>1, <4>2
    <3> QED
      BY <3>1, <2>3, <1>0
  <2> QED
    BY <2>6, <2>7
<1>14. ASSUME NEW x \in Node, ReapDeadNode(x)
       PROVE  nodes'[w][z].state = "active"
  BY <1>14, <1>0 DEF ReapDeadNode, ReapedNode, RemoteInv, TypeOK
<1>15. ASSUME NEW x \in Node, ReapNetworks(x)
       PROVE  nodes'[w][z].state = "active"
  <2>2. ReapedNetwork(networks[w][z][n]).present => networks[w][z][n].present
    BY AttachmentFields DEF ReapedNetwork
  <2> QED BY <1>15, <2>2, <1>0 DEF ReapNetworks, RemoteInv, TypeOK
<1>16. CASE UNCHANGED clusterVars
  BY <1>16, <1>a DEF clusterVars
<1> QED
  BY <1>1, <1>2, <1>4, <1>5, <1>6, <1>8, <1>9, <1>11, <1>12, <1>13, <1>14, <1>15, <1>16
     DEF Next, Membership, Shutdown, Crash, Gossip, Sync, Reap

(***************************************************************************)
(* A node keeps attachments only of remote nodes in its active list, for   *)
(* any number of nodes and networks (RemoteAttachmentsActive): the state   *)
(* of a node that failed, left or was purged does not stay behind.         *)
(***************************************************************************)
THEOREM RemoteActive == Spec => []RemoteAttachmentsActive
<1>1. Init => RemoteInv
  BY AttachmentFields, TypeInit DEF FreshNetworks, Init, RemoteAttachmentsActive, RemoteInv
<1>2. RemoteInv => RemoteAttachmentsActive
  BY DEF RemoteInv
<1> QED
  BY <1>1, <1>2, RemoteStep, PTL DEF Spec

(***************************************************************************)
(* A merge never takes an attachment of another node back in time.         *)
(***************************************************************************)
LEMMA MergeMonotone ==
    ASSUME TypeOK, NEW y \in Node, NEW E \in SUBSET NetworkEvent,
           NEW v \in Node, NEW n \in Network, networks[y][v][n].present
    PROVE  networks[y][v][n].ltime <= MergedNetworks(y, E)[v][n].ltime
<1>2. networks[y][v][n].ltime \in 0..MaxClock
  BY DEF Attachment, TypeOK
<1>3. ASSUME NEW ev \in Accepted(y, E), ev.node = v, ev.network = n,
             MergedNetworks(y, E)[v][n] = AppliedAttachment(ev)
      PROVE  networks[y][v][n].ltime <= MergedNetworks(y, E)[v][n].ltime
  BY AttachmentFields, <1>3, <1>2 DEF AppliedAttachment, Accepted, NetworkEvent, Accepts
<1> QED
  BY <1>2, <1>3, MergedApplied

(***************************************************************************)
(* handleNetworkEvent drops stale events, and every other writer of a      *)
(* remote attachment either removes it or leaves its time alone: what a    *)
(* node knows of a remote attachment never goes back in time.              *)
(***************************************************************************)
THEOREM NeverBack == Spec => RemoteTimeMonotone
<1> DEFINE Mono == \A x \in Node : \A y \in Node \ {x}, n \in Network :
          networks[x][y][n].present /\ networks'[x][y][n].present
              => networks[x][y][n].ltime <= networks'[x][y][n].ltime
<1>1. TypeOK /\ [Next]_clusterVars => [Mono]_clusterVars
  <2> SUFFICES ASSUME TypeOK, [Next]_clusterVars,
                      NEW w \in Node, NEW v \in Node \ {w}, NEW n \in Network,
                      networks[w][v][n].present, networks'[w][v][n].present
               PROVE  networks[w][v][n].ltime <= networks'[w][v][n].ltime
    OBVIOUS
  <2> DEFINE old == networks[w][v][n]
             new == networks'[w][v][n]
  <2>0. old \in Attachment /\ old.ltime <= old.ltime
    BY ClusterAssumption DEF TypeOK, Attachment
  <2>a. ASSUME new = old PROVE old.ltime <= new.ltime
    BY <2>0, <2>a
  <2>b. ASSUME UNCHANGED networks PROVE old.ltime <= new.ltime
    BY <2>a, <2>b
  <2>c. ASSUME new = NoNetwork PROVE old.ltime <= new.ltime
    BY <2>c, AttachmentFields
  <2>d. ASSUME NEW x \in Node, NEW D, DropNodes(x, D) PROVE old.ltime <= new.ltime
    BY <2>d, <2>a, <2>c DEF DropNodes, FreshNetworks, TypeOK
  <2>e. ASSUME NEW y \in Node, NEW E \in SUBSET NetworkEvent,
               new = MergedNetworks(y, E)[v][n], w = y
        PROVE  old.ltime <= new.ltime
    BY <2>e, MergeMonotone
  <2>f. ASSUME NEW y \in Node, NEW E \in SUBSET NetworkEvent,
               networks' = [networks EXCEPT ![y] = MergedNetworks(y, E)]
        PROVE  old.ltime <= new.ltime
    BY <2>f, <2>a, <2>e, Zenon DEF TypeOK
  <2>1. CASE Membership
    <3>1. ASSUME NEW x \in Node, Stop(x) PROVE old.ltime <= new.ltime
      BY <3>1, <2>a, <2>c DEF Stop, FreshNetworks, TypeOK
    <3>2. ASSUME NEW x \in Node, Start(x) \/ Close(x) PROVE old.ltime <= new.ltime
      BY <2>b, <3>2 DEF Start, Close
    <3>3. ASSUME NEW x \in Node, NEW y \in Node, NotifyJoin(x, y)
          PROVE  old.ltime <= new.ltime
      BY <2>b, <2>d, <3>3 DEF NotifyJoin, NotifyRejoin, NotifyNew
    <3>4. ASSUME NEW x \in Node, NEW y \in Node, NotifyLeave(x, y)
          PROVE  old.ltime <= new.ltime
      BY <2>b, <2>d, <3>4 DEF NotifyLeave
    <3> QED
      BY <2>1, <3>1, <3>2, <3>3, <3>4 DEF Membership, Shutdown, Crash
  <2>2. CASE Attach
    <3>1. ASSUME NEW x \in Node, NEW ev \in calls[x],
                 JoinNetworkLocked(x, ev) \/ LeaveNetworkLocked(x, ev)
          PROVE  old.ltime <= new.ltime
      <4>1. PICK r : networks' = [networks EXCEPT ![x][x][ev.network] = r]
        BY <3>1 DEF JoinNetworkLocked, LeaveNetworkLocked
      <4> QED BY <2>a, <4>1 DEF TypeOK
    <3>2. ASSUME NEW x \in Node, NEW k \in Network, JoinNetwork(x, k) \/ LeaveNetwork(x, k)
          PROVE  old.ltime <= new.ltime
      BY <2>b, <3>2 DEF JoinNetwork, LeaveNetwork, Call
    <3> QED
      BY <2>2, <3>1, <3>2 DEF Attach
  <2>3. CASE Gossip
    <3>1. ASSUME NEW x \in Node, NEW ev \in networkQ[x], NEW y \in Node,
                 GossipNetworkEvent(x, y, ev)
          PROVE  old.ltime <= new.ltime
      <4>1. {ev} \in SUBSET NetworkEvent
        BY DEF TypeOK
      <4> QED
        BY ZenonT(60), <2>f, <3>1, <4>1 DEF GossipNetworkEvent
    <3>2. ASSUME NEW x \in Node, NEW ev \in nodeQ[x], NEW y \in Node,
                 GossipNodeEvent(x, y, ev)
          PROVE  old.ltime <= new.ltime
      BY <2>d, <3>2 DEF GossipNodeEvent
    <3> QED
      BY <2>3, <3>1, <3>2 DEF Gossip
  <2>4. CASE Sync
    <3>0. ASSUME NEW y \in Node, NEW pp \in NetworkPushPull, MergeRemoteState(y, pp)
          PROVE  old.ltime <= new.ltime
      BY <2>f, <3>0, Zenon DEF NetworkPushPull, MergeRemoteState
    <3>1. ASSUME NEW x \in Node, NEW y \in Node, PushPull(x, y)
          PROVE  old.ltime <= new.ltime
      BY LocalStateType, <3>0, <3>1, Zenon DEF PushPull
    <3>2. ASSUME NEW x \in Node, NEW pp \in answers[x], MemberlistJoined(x, pp)
          PROVE  old.ltime <= new.ltime
      BY <3>0, <3>2 DEF TypeOK, MemberlistJoined
    <3>3. ASSUME NEW x \in Node, NEW y \in Node, MemberlistJoin(x, y)
          PROVE  old.ltime <= new.ltime
      <4> DEFINE E == LocalState(x, TRUE).networks
      <4>1. x # y /\ Tick(x)
        BY <3>3 DEF MemberlistJoin
      <4>2. E \in SUBSET NetworkEvent
        BY ZenonT(60), <4>1, LocalStateType DEF NetworkPushPull
      <4>3. networks' = [networks EXCEPT
               ![x][x] = UpdatedNetworks(x),
               ![y] = [MergedNetworks(y, E) EXCEPT ![y] = UpdatedNetworks(y)]]
        BY <3>3 DEF MemberlistJoin
      <4> HIDE DEF E
      <4>4. CASE w = y
        <5>3. new = MergedNetworks(y, E)[v][n]
          BY <4>4, <4>1, <4>3, Zenon DEF TypeOK, MergedNetworks
        <5> QED
          BY <2>e, <4>2, <4>4, <5>3
      <4>5. CASE w # y
        <5>1. networks'[w][v] = IF w = x /\ v = x THEN UpdatedNetworks(x)
                                ELSE networks[w][v]
          BY <4>1, <4>3, <4>5 DEF TypeOK
        <5> QED
          BY <2>a, <5>1
      <4> QED
        BY ZenonT(60), <4>4, <4>5
    <3> QED
      BY <2>4, <3>1, <3>2, <3>3 DEF Sync
  <2>5. CASE Reap
    <3>1. ASSUME NEW x \in Node, ReapNetworks(x) PROVE old.ltime <= new.ltime
      <4>2. ReapedNetwork(old) = NoNetwork \/ ReapedNetwork(old).ltime = old.ltime
        BY <2>0 DEF ReapedNetwork, Attachment
      <4> QED BY <2>0, <2>a, <2>c, <3>1, <4>2 DEF ReapNetworks, TypeOK
    <3>2. ASSUME NEW x \in Node, ReapDeadNode(x) PROVE old.ltime <= new.ltime
      BY <2>b, <3>2 DEF ReapDeadNode
    <3> QED
      BY ZenonT(60), <2>5, <3>1, <3>2 DEF Reap
  <2>6. CASE UNCHANGED clusterVars
    BY <2>b, <2>6 DEF clusterVars
  <2> QED
    BY <2>1, <2>2, <2>3, <2>4, <2>5, <2>6 DEF Next
<1> QED
  BY TypeInit, TypeStep, <1>1, PTL DEF Spec, RemoteTimeMonotone
=============================================================================
