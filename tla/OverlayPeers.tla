---------------------------- MODULE OverlayPeers -----------------------------
(***************************************************************************)
(* The peer database follows overlay_peer_table and this node's endpoints,  *)
(* and the neighbours of the sandbox follow the peer database, for any set  *)
(* of endpoints and any number of networks, joins and failures.             *)
(*                                                                         *)
(* The first is so unless the routine serves its senders in one of the two  *)
(* orders WalkFirst and HandFirst exclude.  The second needs no order, but  *)
(* one MAC address per address.                                             *)
(***************************************************************************)
EXTENDS OverlayProofs

(***************************************************************************)
(* The events of the watch on their way to the routine: the one in hand,    *)
(* and those that nobody took.                                              *)
(***************************************************************************)
Ev(op, e) == [op |-> op, peer |-> e]

Waits(op, e) == \E i \in 1 .. Len(events) : events[i] = Ev(op, e)

\* On its way.
Sent(op, e) == hand = Ev(op, e) \/ Waits(op, e)

\* A peer's end comes after its beginning.
Ordered(e) ==
    /\ hand = Ev("del", e) => ~Waits("add", e)
    /\ \A i, j \in 1 .. Len(events) :
          events[i] = Ev("del", e) /\ events[j] = Ev("add", e) => j < i

LEMMA EvEqual ==
  ASSUME NEW o, NEW e, NEW p, NEW f
  PROVE  /\ Ev(o, e) = Ev(p, f) <=> o = p /\ e = f
         /\ Ev(o, e).op = o /\ Ev(o, e).peer = e
BY DEF Ev

LEMMA EvNone ==
  ASSUME NEW o \in {"add", "del"}, NEW e \in Remotes
  PROVE  Ev(o, e) \in Event /\ Ev(o, e) # None
BY PeersAssumption DEF Ev, Event

\* The table tells the watch of a peer.
LEMMA ToldSent ==
  ASSUME Handed, UNCHANGED hand, NEW o \in {"add", "del"}, NEW p \in Remotes,
         events' = Append(events, Ev(o, p)), NEW e \in Remotes
  PROVE  /\ Sent("add", e)' <=> Sent("add", e) \/ (o = "add" /\ e = p)
         /\ Sent("del", e)' <=> Sent("del", e) \/ (o = "del" /\ e = p)
         /\ Ordered(e) /\ (o = "add" /\ p = e => ~Sent("del", e)) => Ordered(e)'
<1>1. events \in Seq(Event) /\ Ev(o, p) \in Event
  BY EvNone DEF Handed
<1>2. PICK n \in Nat : n = Len(events)
  BY <1>1
<1>3. /\ Len(events') = n + 1 /\ events'[n + 1] = Ev(o, p)
      /\ \A i \in 1 .. n : events'[i] = events[i]
  BY <1>1, <1>2
<1>4. \A i : i \in 1 .. (n + 1) <=> i \in 1 .. n \/ i = n + 1
  BY <1>2
<1>5. ASSUME NEW q \in {"add", "del"}
      PROVE  Waits(q, e)' <=> Waits(q, e) \/ (o = q /\ e = p)
  BY <1>2, <1>3, <1>4, EvEqual DEF Waits
<1>6. ASSUME Ordered(e), o = "add" /\ p = e => ~Sent("del", e)
      PROVE  Ordered(e)'
  <2>2. ASSUME NEW i \in 1 .. (n + 1), NEW j \in 1 .. (n + 1),
               events'[i] = Ev("del", e), events'[j] = Ev("add", e)
        PROVE  j < i
    <3>1. CASE i \in 1 .. n /\ j \in 1 .. n
      BY <1>2, <1>3, <1>6, <2>2, <3>1 DEF Ordered
    <3>2. CASE i = n + 1 /\ j \in 1 .. n
      BY <3>2
    <3>3. CASE i \in 1 .. n /\ j = n + 1
      BY <1>2, <1>3, <2>2, <3>3, EvEqual, <1>6 DEF Waits, Sent
    <3>4. CASE i = n + 1 /\ j = n + 1
      <4>1. Ev("del", e) # Ev("add", e)
        BY DEF Ev
      <4> QED BY <2>2, <3>4, <4>1, Zenon
    <3> QED BY <1>4, <3>1, <3>2, <3>3, <3>4
  <2> QED BY <1>3, <1>5, <1>6, <2>2 DEF Ordered, Waits, Sent
<1> QED BY <1>5, <1>6 DEF Sent

\* The watch's goroutine takes an event.
LEMMA TakenSent ==
  ASSUME Handed, HandleTableEvent, NEW e \in Remotes
  PROVE  /\ Sent("add", e)' <=> Sent("add", e)
         /\ Sent("del", e)' <=> Sent("del", e)
         /\ Ordered(e) => Ordered(e)'
<1>1. /\ events \in Seq(Event) /\ events # <<>> /\ hand = None
      /\ hand' = Head(events) /\ events' = Tail(events)
  BY DEF Handed, HandleTableEvent
<1>2. PICK n \in Nat : n = Len(events) /\ n > 0
  BY <1>1
<1>3. /\ Len(events') = n - 1 /\ hand' = events[1]
      /\ \A i \in 1 .. (n - 1) : events'[i] = events[i + 1]
  BY <1>1, <1>2
<1>4. ASSUME NEW q \in {"add", "del"}
      PROVE  Sent(q, e)' <=> Sent(q, e)
  <2>2. ASSUME Sent(q, e)'
        PROVE  Sent(q, e)
    <3>1. CASE hand' = Ev(q, e)
      <4>1. 1 \in 1 .. n /\ events[1] = Ev(q, e)
        BY <1>2, <1>3, <3>1
      <4> QED BY <1>2, <4>1 DEF Sent, Waits
    <3>2. CASE Waits(q, e)'
      BY <1>3, <3>2, <1>2 DEF Waits, Sent
    <3> QED BY <2>2, <3>1, <3>2 DEF Sent
  <2>3. ASSUME Waits(q, e)
        PROVE  Sent(q, e)'
    <3>1. PICK i \in 1 .. n : events[i] = Ev(q, e)
      BY <1>2, <2>3 DEF Waits
    <3>2. CASE i = 1
      BY <1>3, <3>1, <3>2 DEF Sent
    <3>3. CASE i # 1
      <4>1. i - 1 \in 1 .. (n - 1) /\ events'[i - 1] = Ev(q, e)
        BY <1>2, <1>3, <3>1, <3>3
      <4> QED BY <1>3, <4>1 DEF Sent, Waits
    <3> QED BY <3>2, <3>3
  <2> QED BY <1>1, EvNone, <2>2, <2>3 DEF Sent
<1>5. ASSUME Ordered(e)
      PROVE  Ordered(e)'
  <2>1. ASSUME NEW i \in 1 .. (n - 1), NEW j \in 1 .. (n - 1),
               events'[i] = Ev("del", e), events'[j] = Ev("add", e)
        PROVE  j < i
    BY <1>2, <1>3, <1>5, <2>1 DEF Ordered
  <2>2. ASSUME hand' = Ev("del", e), Waits("add", e)'
        PROVE  FALSE
    <3>1. PICK i \in 1 .. (n - 1) : events'[i] = Ev("add", e)
      BY <1>3, <2>2 DEF Waits
    <3>2. i + 1 \in 1 .. n /\ 1 \in 1 .. n /\ events[i + 1] = Ev("add", e) /\ ~(i + 1 < 1)
      BY <1>2, <1>3, <3>1
    <3> QED BY <1>2, <1>3, <1>5, <2>2, <3>2, Zenon DEF Ordered
  <2> QED BY <1>3, <2>1, <2>2 DEF Ordered, Waits
<1> QED BY <1>4, <1>5

\* The routine receives the event in hand.
LEMMA ReceivedSent ==
  ASSUME hand' = None, UNCHANGED events, NEW e \in Remotes
  PROVE  /\ Sent("add", e) <=> Sent("add", e)' \/ hand = Ev("add", e)
         /\ Sent("del", e) <=> Sent("del", e)' \/ hand = Ev("del", e)
         /\ Ordered(e) => Ordered(e)'
         /\ Ordered(e) /\ hand = Ev("del", e) => ~Sent("add", e)'
  BY EvNone DEF Sent, Ordered, Waits

\* Nothing is on its way.
LEMMA NothingSent ==
  ASSUME hand = None, events = <<>>, NEW e \in Remotes
  PROVE  ~Sent("add", e) /\ ~Sent("del", e) /\ Ordered(e)
  BY EvNone DEF Sent, Ordered, Waits

(***************************************************************************)
(* The peer database and the table.  A peer the table knows is in the       *)
(* database or on its way to it; one that went is not, or its end is on its *)
(* way and will be received after whatever else is sent of it.              *)
(***************************************************************************)
Follows(e) ==
    /\ table[e] = "new" =>
          ~Sent("add", e) /\ ~Sent("del", e) /\ e \notin walk /\ e \notin peerDb
    /\ table[e] = "known" =>
          /\ ~Sent("del", e)
          /\ watch = "on" => e \in peerDb \/ e \in walk \/ Sent("add", e)
    /\ table[e] = "gone" /\ ~Sent("del", e) =>
          ~Sent("add", e) /\ e \notin walk /\ e \notin peerDb
    /\ Ordered(e)

\* The watch, its events and its walk as far as the network's creation and
\* deletion got.
Watching ==
    /\ table \in [Remotes -> {"new", "known", "gone"}]
    /\ watch \in {"off", "joined", "watching", "on"}
    /\ watch \in {"off", "joined"} => events = <<>>
    /\ watch # "on" => walk = {}
    /\ watch = "joined" => hand = None /\ peerDb \cap Remotes = {}
    /\ locked \/ flush => net = None
    /\ net = None /\ ~locked /\ ~flush => hand = None /\ peerDb = {}

Followed == watch # "off" => \A e \in Remotes : Follows(e)

\* This node's endpoints are in the database between peerAdd and peerDelete.
LocalsFollow == \A e \in Locals : e \in peerDb <=> eps[e] \in {"joined", "leaving"}

FollowInv == Watching /\ Followed /\ LocalsFollow

LEMMA FollowsFrame ==
  ASSUME NEW e \in Remotes, Follows(e), UNCHANGED <<hand, events>>, table'[e] = table[e],
         e \in walk' <=> e \in walk, e \in peerDb' <=> e \in peerDb,
         watch' = "on" => watch = "on"
  PROVE  Follows(e)'
  BY DEF Sent, Waits, Ordered, Follows

\* Steps that are none of the table, the watch or the database.
LEMMA FollowFrame ==
  ASSUME FollowInv, UNCHANGED <<table, watch, events, hand, walk, peerDb>>,
         locked' \/ flush' => net' = None,
         net' = None /\ ~locked' /\ ~flush' => hand = None /\ peerDb = {},
         \A e \in Locals : eps'[e] \in {"joined", "leaving"} <=> eps[e] \in {"joined", "leaving"}
  PROVE  FollowInv'
  BY FollowsFrame DEF FollowInv, Watching, LocalsFollow, Followed

\* A network that is there stays there in the calls of joinSandbox and
\* leaveSandbox.
LEMMA NetworkStays ==
  ASSUME Record, SandboxInv,
         PeerJoin \/ \E e \in Locals : Join(e) \/ LeaveLast(e)
  PROVE  net' = None <=> net = None
<1>1. CASE PeerJoin
  <2> DEFINE here == net # None /\ rt.net = net.gen
             n == IF here THEN net ELSE old
  <2>1. PICK fault \in Faults(n) :
           IF here THEN net' = JoinSandbox(n, fault, FALSE) ELSE UNCHANGED net
    BY <1>1, Zenon DEF PeerJoin
  <2>2. CASE here
    <3>2. Shape(net')
      BY <2>1, <2>2, JoinShape, Zenon DEF SandboxInv, Networks
    <3> QED BY <2>2, <3>2, PeersAssumption DEF Shape
  <2> QED BY <2>1, <2>2, Zenon
<1>2. ASSUME NEW e \in Locals, Join(e) \/ LeaveLast(e)
      PROVE  net # None /\ net' # None
  <2>1. eps[e] # "none" /\ UNCHANGED watch
    BY <1>2, Zenon DEF Join, LeaveLast, tableVars
  <2> QED BY <2>1, EndpointHasNetwork, <1>2, SandboxJoin, SandboxLeave DEF SandboxInv, Networks
<1> QED BY <1>1, <1>2

LEMMA FollowCreate ==
  ASSUME SandboxInv, FollowInv, CreateNetwork
  PROVE  FollowInv'
  BY SandboxCreate, NothingSent DEF CreateNetwork, apiVars, SandboxInv, Networks, FollowInv,
     Watching, LocalsFollow, Sent, Waits, Ordered, Follows, Followed

LEMMA FollowWatch ==
  ASSUME FollowInv, AddDriverWatch \/ WalkTable
  PROVE  FollowInv'
  BY FollowsFrame DEF AddDriverWatch, WalkTable, netVars, apiVars, FollowInv, Watching,
     LocalsFollow, Followed, Sent, Waits, Ordered, Follows

LEMMA FollowCancel ==
  ASSUME SandboxInv, FollowInv, CancelWatch
  PROVE  FollowInv'
  BY DEF CancelWatch, netVars, apiVars, FollowInv, Watching, SandboxInv, Networks, Followed,
     LocalsFollow

\* The table tells of a peer, or of its end.
LEMMA FollowTable ==
  ASSUME Handed, FollowInv, NEW p \in Remotes, LearnPeer(p) \/ ForgetPeer(p)
  PROVE  FollowInv'
<1>1. PICK o \in {"add", "del"} :
         /\ watch # "off" /\ UNCHANGED <<net, locked, flush, eps, watch, hand, walk, peerDb>>
         /\ table[p] = IF o = "add" THEN "new" ELSE "known"
         /\ table' = [table EXCEPT ![p] = IF o = "add" THEN "known" ELSE "gone"]
         /\ events' = IF watch \in {"watching", "on"} THEN Append(events, Ev(o, p)) ELSE events
  BY DEF LearnPeer, ForgetPeer, Told, Ev, netVars, apiVars
<1>2. /\ table' \in [Remotes -> {"new", "known", "gone"}]
      /\ table'[p] = IF o = "add" THEN "known" ELSE "gone"
      /\ \A e \in Remotes : e # p => table'[e] = table[e]
  BY <1>1 DEF FollowInv, Watching
<1>4. ASSUME NEW e \in Remotes
      PROVE  Follows(e)'
  <2>2. CASE watch \in {"watching", "on"}
    BY <1>1, <2>2, ToldSent, <1>2 DEF Follows, FollowInv, Followed
  <2>3. CASE watch = "joined"
    BY <2>3, NothingSent, <1>1 DEF FollowInv, Watching, Sent, Waits, Ordered, Follows
  <2> QED BY <1>1, <2>2, <2>3 DEF FollowInv, Watching
<1> QED BY <1>1, <1>2, <1>4 DEF FollowInv, Followed, Watching, LocalsFollow

LEMMA FollowTake ==
  ASSUME Handed, SandboxInv, FollowInv, HandleTableEvent
  PROVE  FollowInv'
  BY TakenSent DEF HandleTableEvent, netVars, apiVars, FollowInv, Watching, SandboxInv, Networks,
     LocalsFollow, Followed, Follows

\* The routine receives the event in hand: the peer's end no earlier than what
\* the walk sends of it.
LEMMA FollowEvent ==
  ASSUME Handed, FollowInv, ReceiveEvent, WalkFirst
  PROVE  FollowInv'
  BY EvEqual, PeersAssumption, ReceivedSent DEF ReceiveEvent, netVars, apiVars, Handed, Event, Ev,
     StartAdd, StartDelete, FollowInv, Watching, LocalsFollow, Followed, Follows, WalkFirst

LEMMA FollowWalk ==
  ASSUME SandboxInv, FollowInv, NEW p \in Remotes, ReceiveWalk(p)
  PROVE  FollowInv'
  BY PeersAssumption DEF ReceiveWalk, StartAdd, netVars, apiVars, FollowInv, Watching, SandboxInv,
     Networks, LocalsFollow, Followed, Sent, Waits, Ordered, Follows

LEMMA FollowLocal ==
  ASSUME SandboxInv, FollowInv, NEW p \in Locals, ReceiveLocal(p)
  PROVE  FollowInv'
  BY EndpointHasNetwork, PeersAssumption, FollowsFrame DEF ReceiveLocal, StartAdd, StartDelete,
     netVars, tableVars, SandboxInv, Networks, FollowInv, Watching, LocalsFollow, Followed

\* The database is flushed after the event in hand was received.
LEMMA FollowFlush ==
  ASSUME SandboxInv, FollowInv, ReceiveFlush, HandFirst
  PROVE  FollowInv'
  BY EndpointHasNetwork DEF ReceiveFlush, apiVars, tableVars, HandFirst, FollowInv, Watching,
     SandboxInv, Networks, Followed, LocalsFollow

LEMMA FollowStep ==
  ASSUME Handed, Record, SandboxInv, FollowInv, [Next]_vars,
         [WalkFirst /\ HandFirst]_vars
  PROVE  FollowInv'
<1>1. /\ locked \/ flush => net = None
      /\ net = None /\ ~locked /\ ~flush => hand = None /\ peerDb = {}
  BY DEF FollowInv, Watching
<1>2. ASSUME UNCHANGED <<locked, flush, eps, table, watch, events, hand, walk, peerDb>>,
             net' = None <=> net = None
      PROVE  FollowInv'
  BY <1>1, <1>2, FollowFrame
<1>3. ASSUME NEW e \in Locals, NEW t, t \notin {"joined", "leaving"},
             UNCHANGED <<locked, flush, table, watch, events, hand, walk, peerDb>>,
             net' = None <=> net = None,
             eps[e] \notin {"joined", "leaving"}, eps' = [eps EXCEPT ![e] = t]
      PROVE  FollowInv'
  BY <1>3, <1>1, FollowFrame DEF SandboxInv, Networks
<1>4. CASE UNCHANGED vars
  BY <1>2, <1>4 DEF vars
<1>5. ASSUME ~UNCHANGED vars
      PROVE  Next /\ WalkFirst /\ HandFirst
  BY <1>5
<1>6. CASE DeleteNetwork \/ PeerFlush
  BY <1>1, <1>6, FollowFrame DEF DeleteNetwork, PeerFlush, apiVars, tableVars
<1>7. ASSUME NEW e \in Locals, CreateEndpoint(e) \/ DeleteEndpoint(e) \/ JoinLinks(e)
      PROVE  FollowInv'
  BY <1>7, <1>3 DEF CreateEndpoint, DeleteEndpoint, JoinLinks, netVars, tableVars
<1>8. ASSUME NEW e \in Locals, Join(e) \/ LeaveLast(e)
      PROVE  FollowInv'
  <2> QED BY <1>3, <1>8, NetworkStays, Zenon DEF Join, LeaveLast, tableVars
<1>9. ASSUME NEW e \in Locals, Leave(e)
      PROVE  FollowInv'
  BY <1>9, <1>1, FollowFrame DEF Leave, netVars, tableVars, SandboxInv, Networks
<1>10. CASE ReceiveInit \/ Lookup \/ Program \/ Unprogram
  BY <1>2, <1>10, Zenon DEF ReceiveInit, Lookup, Program, Unprogram, netVars, apiVars, tableVars
<1>11. CASE PeerJoin
  <2> QED BY <1>2, <1>11, NetworkStays, Zenon DEF PeerJoin, apiVars, tableVars
<1>12. CASE Routine
  BY <1>4, <1>5, <1>10, <1>11, <1>12, FollowEvent, FollowWalk, FollowLocal, FollowFlush
     DEF Routine
<1> QED BY <1>4, <1>5, <1>6, <1>7, <1>8, <1>9, <1>12, FollowCreate, FollowWatch,
     FollowCancel, FollowTable, FollowTake DEF Next

LEMMA FollowInit == Init => FollowInv
BY DEF Init, FollowInv, Watching, Followed, LocalsFollow

\* With nothing on its way, the database is the table and the endpoints here.
LEMMA FollowQuiet ==
  ASSUME Handed, SandboxInv, FollowInv
  PROVE  PeersFollowTable
  BY NothingSent, PeersAssumption DEF PeersFollowTable, Quiet, FollowInv, Watching, Followed,
     Follows, LocalsFollow, Handed, Peers

\* Once every operation was applied, the peer database holds the endpoints the
\* table knows and those that joined here, and is empty once the network went,
\* however the senders of the operations interleave: unless a peer's end is
\* received before the walk sent the peer, or FLUSH before the event in hand
\* (peerAddOp, peerDeleteOp, peerFlushOp).
THEOREM PeersAlwaysFollow ==
  Spec /\ [][WalkFirst /\ HandFirst]_vars => []PeersFollowTable
<1> DEFINE Inv == IInv /\ Record /\ SandboxInv /\ FollowInv
<1>1. Init => Inv
  BY InitOne, SandboxInit, FollowInit
<1>2. Inv /\ [Next]_vars /\ [WalkFirst /\ HandFirst]_vars => Inv'
  BY StepOne, RecordStep, SandboxStep, FollowStep DEF IInv
<1>3. Inv => PeersFollowTable
  BY FollowQuiet DEF IInv
<1> QED BY <1>1, <1>2, <1>3, PTL DEF Spec

-----------------------------------------------------------------------------
(***************************************************************************)
(* The neighbours of the sandbox and the peer database.  The database only  *)
(* changes while the routine is idle, so that what an operation has left to *)
(* do is known from the entries it found.                                   *)
(***************************************************************************)

\* peerDbSearch finds an entry by its address alone: the entries of an address
\* have one MAC address.
OneMac == \A x, y \in Peers : IpOf[x] = IpOf[y] => MacOf[x] = MacOf[y]

Ats == {"idle", "add", "join", "program", "del", "unprogram"}

\* What the routine works on is in the database, or was just deleted from it.
Errand ==
    /\ rt.at \in Ats
    /\ rt.at \in {"add", "join", "program"} => rt.peer \in peerDb \cap Remotes
    /\ rt.todo \subseteq peerDb \cap Remotes
    /\ rt.at \in {"idle", "del", "unprogram"} => rt.todo = {}
    /\ rt.at \in {"del", "unprogram"} =>
          rt.peer \in Peers \ peerDb /\ rt.left = Cardinality(SameKey(peerDb, rt.peer))

\* The routine has a pointer to a sandbox.
Points == rt.at \in {"join", "program", "unprogram"}

\* A sandbox the routine has no pointer to is a later one: INIT is still to come
\* for it, and nothing was programmed in it.
Pointers ==
    /\ inits \in Nat
    /\ net # None => net.sbox <= epoch
    /\ Points => rt.sbox \in 1 .. epoch
    /\ ~HasSandbox(net) => nbrs = {}
    /\ Points /\ HasSandbox(net) /\ net.sbox # rt.sbox => inits > 0 /\ nbrs = {}
    /\ locked \/ flush => net = None

\* A forwarding entry is that of a peer in the database, or of the peer whose
\* deletion is under way.
Backed ==
    \A x \in Remotes : FdbOf(x) \in nbrs =>
       \E y \in Remotes : /\ FdbOf(y) = FdbOf(x)
                          /\ y \in peerDb \/ (rt.at \in {"del", "unprogram"} /\ y = rt.peer)

\* The operation under way will configure the key of a peer.
Pending(e) ==
    \/ rt.at \in {"add", "join", "program"} /\ KeyOf(rt.peer) = KeyOf(e)
    \/ \E x \in rt.todo : KeyOf(x) = KeyOf(e)
    \/ rt.at \in {"del", "unprogram"} /\ KeyOf(rt.peer) = KeyOf(e) /\ rt.peer \in Locals

\* The keys that remote peers have, this node has not, and no operation gave up
\* on.
Wanted(e) == SameKey(peerDb, e) # {} /\ SameKey(peerDb, e) \subseteq Remotes \ missed

Served ==
    HasSandbox(net) /\ inits = 0 =>
      \A e \in Remotes : Wanted(e) => Configured(e) # {} \/ Pending(e)

\* An operation gives up on a key, not on a peer.
MissedKeys == \A x, y \in Remotes : x \in missed /\ KeyOf(x) = KeyOf(y) => y \in missed

NeighborInv == Errand /\ Pointers /\ Backed /\ Served /\ MissedKeys

\* joinSandbox and leaveSandbox change the sandbox, or leave it.
Same ==
    /\ HasSandbox(net') <=> HasSandbox(net)
    /\ net' # None => net # None /\ net'.sbox = net.sbox
    /\ epoch' \in Nat /\ epoch' >= epoch /\ inits' \in Nat /\ inits' >= inits
    /\ UNCHANGED nbrs

Renewed ==
    /\ HasSandbox(net') /\ net' # None /\ net'.sbox = epoch'
    /\ epoch' \in Nat /\ epoch' > epoch /\ inits' \in Nat /\ inits' > 0
    /\ nbrs' = {}

Emptied ==
    ~HasSandbox(net') /\ nbrs' = {} /\ UNCHANGED <<epoch, inits>>

\* joinSandbox brings a new sandbox exactly when it initialises one.
LEMMA JoinBrings ==
  ASSUME epoch \in Nat, NEW n, Shape(n), NEW fault \in Faults(n), NEW inc \in BOOLEAN,
         NEW m, m = JoinSandbox(n, fault, inc)
  PROVE  /\ Initializes(n, fault) => m.sbox = epoch + 1
         /\ ~Initializes(n, fault) => m.sbox = n.sbox
<1>2. ASSUME Initializes(n, fault)
      PROVE  m.sbox = epoch + 1
  BY <1>2 DEF Shape, NetRecord, Initialized, Initializes, JoinSandbox
<1> QED BY JoinShape, <1>2 DEF Shape

LEMMA JoinRenews ==
  ASSUME SandboxInv, Pointers, net # None, NEW fault \in Faults(net), NEW inc \in BOOLEAN,
         net' = JoinSandbox(net, fault, inc), SandboxBrought(net, fault),
         nbrs' = IF Initializes(net, fault) THEN {} ELSE nbrs
  PROVE  net' # None /\ (Same \/ Renewed)
  BY JoinShape, PeersAssumption, JoinBrings DEF SandboxInv, Networks, Pointers, Shape,
     SandboxBrought, Renewed, HasSandbox, Same

LEMMA PointersKept ==
  ASSUME epoch \in Nat, net = None \/ net.sbox \in Nat, Pointers,
         Same \/ Renewed \/ Emptied,
         Points' => Points /\ rt'.sbox = rt.sbox,
         locked' \/ flush' => net' = None
  PROVE  Pointers'
  BY DEF Pointers, Points, Same, HasSandbox, Renewed, Emptied

LEMMA BackedKept ==
  ASSUME Backed, UNCHANGED peerDb, nbrs' = nbrs \/ nbrs' = {},
         rt.at \in {"del", "unprogram"} =>
            nbrs' = {} \/ (rt'.at \in {"del", "unprogram"} /\ rt'.peer = rt.peer)
  PROVE  Backed'
BY DEF Backed

LEMMA ServedKept ==
  ASSUME Served, UNCHANGED peerDb,
         HasSandbox(net') /\ inits' = 0 =>
            /\ HasSandbox(net) /\ inits = 0
            /\ UNCHANGED nbrs /\ missed \subseteq missed'
            /\ \A e \in Remotes : Wanted(e)' /\ Pending(e) => Pending(e)'
  PROVE  Served'
<1> SUFFICES ASSUME HasSandbox(net'), inits' = 0, NEW e \in Remotes, Wanted(e)'
             PROVE  Configured(e)' # {} \/ Pending(e)'
  BY DEF Served
<1>1. Wanted(e)
  BY DEF Wanted, SameKey
<1>2. Configured(e) # {} \/ Pending(e)
  BY <1>1 DEF Served
<1> QED BY <1>2 DEF Configured

\* What the network's calls change while the routine does not move.
LEMMA NeighborKept ==
  ASSUME SandboxInv, NeighborInv, Same \/ Renewed \/ Emptied, UNCHANGED <<peerDb, rt>>,
         missed' = missed \/ (Emptied /\ missed' = {}), locked' \/ flush' => net' = None
  PROVE  NeighborInv'
<1>1. epoch \in Nat /\ (net = None \/ net.sbox \in Nat) /\ inits \in Nat
  BY Zenon DEF SandboxInv, Networks, Shape, NetRecord, NeighborInv, Pointers
<1>2. Errand'
  BY Zenon DEF NeighborInv, Errand, SameKey
<1>3. Pointers'
  BY <1>1, PointersKept DEF NeighborInv, Points
<1>4. Backed'
  BY BackedKept, Zenon DEF NeighborInv, Same, Renewed, Emptied
<1>5. HasSandbox(net') /\ inits' = 0 =>
         HasSandbox(net) /\ inits = 0 /\ UNCHANGED nbrs /\ missed' = missed
  BY <1>1 DEF Same, Renewed, Emptied
<1>6. Served'
  <2>1. \A e \in Remotes : Pending(e) => Pending(e)'
    BY Zenon DEF Pending
  <2> QED BY <1>5, <2>1, ServedKept DEF NeighborInv
<1>7. MissedKeys'
  BY DEF NeighborInv, MissedKeys
<1> QED BY <1>2, <1>3, <1>4, <1>6, <1>7 DEF NeighborInv

LEMMA NeighborCalls ==
  ASSUME SandboxInv, NeighborInv,
         \/ CreateNetwork \/ DeleteNetwork
         \/ \E e \in Locals : Join(e) \/ LeaveLast(e)
  PROVE  NeighborInv'
<1>1. /\ epoch \in Nat /\ inits \in Nat /\ Pointers
      /\ locked \/ flush => net = None
  BY DEF SandboxInv, Networks, NeighborInv, Pointers
<1>2. CASE CreateNetwork
  BY <1>2, <1>1, NeighborKept DEF CreateNetwork, NewNet, HasSandbox, Pointers, Emptied
<1>3. CASE DeleteNetwork
  BY <1>3, NeighborKept DEF DeleteNetwork, Emptied, HasSandbox
<1>4. ASSUME NEW e \in Locals, Join(e)
      PROVE  NeighborInv'
  BY <1>4, EndpointHasNetwork, <1>1, JoinRenews, NeighborKept, Zenon DEF Join
<1>5. ASSUME NEW e \in Locals, LeaveLast(e)
      PROVE  NeighborInv'
  <2>1. /\ net' = LeaveSandbox(net) /\ eps[e] = "left"
        /\ IF net'.sbox = 0 THEN nbrs' = {} /\ missed' = {} ELSE UNCHANGED <<nbrs, missed>>
        /\ UNCHANGED <<locked, flush, epoch, inits, peerDb, rt>>
    BY <1>5, Zenon DEF LeaveLast
  <2>2. net # None /\ Shape(net)
    BY <2>1, EndpointHasNetwork
  <2>5. net' # None
    <3>1. watch # "off" /\ UNCHANGED watch
      BY <1>5, <2>1, EndpointHasNetwork DEF LeaveLast, tableVars
    <3> QED BY <1>5, <3>1, SandboxLeave DEF SandboxInv, Networks
  <2>6. CASE net'.sbox = 0
    BY <1>1, <2>1, <2>2, <2>6, NeighborKept DEF Emptied, HasSandbox
  <2>7. CASE net'.sbox # 0
    BY <1>1, <2>1, <2>2, <2>5, <2>7, NeighborKept DEF Same, HasSandbox, Shape, NetRecord, NewNet,
       LeaveSandbox
  <2> QED BY <2>6, <2>7
<1> QED BY <1>2, <1>3, <1>4, <1>5

\* Nothing is pending while the routine is idle.
LEMMA IdleNothing ==
  ASSUME rt = Idle
  PROVE  /\ rt.at = "idle" /\ rt.todo = {}
         /\ \A e \in Remotes : ~Pending(e)
  BY DEF Idle, Pending

\* What an operation of the routine leaves alone.
Elsewhere == UNCHANGED <<net, locked, flush, epoch, inits, missed>>

LEMMA PointersRoutine ==
  ASSUME Pointers, Elsewhere, nbrs' \subseteq nbrs,
         Points' => \/ Points /\ rt'.sbox = rt.sbox
                    \/ HasSandbox(net) /\ rt'.sbox = net.sbox /\ net.sbox \in 1 .. epoch
  PROVE  Pointers'
BY DEF Pointers, Elsewhere, Points, HasSandbox

\* peerAddOp writes its entry.
LEMMA NeighborStartAdd ==
  ASSUME NeighborInv, Handed, rt = Idle, NEW p \in Peers, StartAdd(p), Elsewhere, UNCHANGED nbrs
  PROVE  NeighborInv'
<1>2. /\ p \in Locals => rt'.at = "idle" /\ rt'.todo = {}
      /\ p \notin Locals => rt'.at = "add" /\ rt'.peer = p /\ rt'.todo = {}
  BY StartAddDoing DEF Doing
<1>4. rt.at = "idle" /\ \A e \in Remotes : ~Pending(e)
  BY IdleNothing
<1> QED
  BY <1>2, PointersRoutine, <1>4, PeersAssumption DEF NeighborInv, MissedKeys, Elsewhere, Errand,
     Ats, Peers, Points, Backed, Served, Wanted, SameKey, Pending, Configured, StartAdd

\* peerDeleteOp removes its entry.
LEMMA NeighborStartDelete ==
  ASSUME NeighborInv, Handed, rt = Idle, NEW p \in Peers, StartDelete(p), Elsewhere,
         UNCHANGED nbrs
  PROVE  NeighborInv'
<1>2. /\ rt'.at = "del" /\ rt'.peer = p /\ rt'.todo = {}
      /\ rt'.left = Cardinality(SameKey(peerDb', p))
  BY StartDeleteDoing DEF Doing
<1> QED
  BY <1>2, PointersRoutine, IdleNothing DEF NeighborInv, Errand, Ats, Backed, Served, Pending,
     Wanted, SameKey, Elsewhere, Peers, MissedKeys, Configured, StartDelete, Points

\* peerInitOp takes one entry of every key.
LEMMA NeighborInit ==
  ASSUME NeighborInv, ReceiveInit
  PROVE  NeighborInv'
<1>1. /\ rt = Idle /\ inits > 0 /\ inits' = inits - 1
      /\ UNCHANGED <<net, locked, flush, epoch, peerDb, nbrs, missed>>
  BY Zenon DEF ReceiveInit, netVars
<1>2. rt.at = "idle" /\ rt.todo = {}
  BY <1>1, IdleNothing
<1>3. PICK S \in Selections(peerDb) :
         IF S \cap Remotes = {} THEN UNCHANGED rt
         ELSE \E e \in S \cap Remotes :
                 rt' = Doing("add", e, 0, 0, 0, (S \cap Remotes) \ {e})
  BY InitDoing
<1>4. S \subseteq peerDb /\ \A e \in peerDb : Cardinality(SameKey(S, e)) = 1
  BY DEF Selections
<1>5. /\ S \cap Remotes = {} => rt'.at = "idle" /\ rt'.todo = {}
      /\ S \cap Remotes # {} =>
            /\ rt'.at = "add" /\ rt'.peer \in S \cap Remotes
            /\ rt'.todo = (S \cap Remotes) \ {rt'.peer}
  BY <1>2, <1>3 DEF Doing
<1>6. Errand'
  BY <1>1, <1>4, <1>5 DEF Errand, Ats
<1>7. Pointers'
  BY <1>1, <1>5 DEF NeighborInv, Pointers, Points, HasSandbox
<1>8. Backed'
  BY <1>1, <1>2, BackedKept DEF NeighborInv
<1>9. Served'
  <2> SUFFICES ASSUME NEW e \in Remotes, Wanted(e)'
               PROVE  Pending(e)'
    BY DEF Served
  <2>1. PICK z \in peerDb : KeyOf(z) = KeyOf(e)
    BY <1>1 DEF Wanted, SameKey
  <2>2. SameKey(S, z) # {}
    BY <1>4, FS_EmptySet
  <2>3. PICK x \in S : KeyOf(x) = KeyOf(e)
    BY <2>1, <2>2 DEF SameKey
  <2>4. x \in S \cap Remotes
    BY <1>1, <1>4, <2>3 DEF Wanted, SameKey
  <2> QED BY <1>5, <2>3, <2>4 DEF Pending
<1>10. MissedKeys'
  BY <1>1 DEF NeighborInv, MissedKeys
<1> QED BY <1>6, <1>7, <1>8, <1>9, <1>10 DEF NeighborInv

LEMMA NeighborFlush ==
  ASSUME NeighborInv, ReceiveFlush
  PROVE  NeighborInv'
<1>1. /\ rt = Idle /\ flush /\ ~flush' /\ ~locked' /\ peerDb' = {}
      /\ UNCHANGED <<net, epoch, inits, nbrs, rt, missed>>
  BY DEF ReceiveFlush
<1>2. rt.at = "idle" /\ rt.todo = {}
  BY <1>1, IdleNothing
<1>3. net = None /\ nbrs = {}
  BY <1>1 DEF NeighborInv, Pointers, HasSandbox
<1>4. Errand' /\ Backed' /\ MissedKeys'
  BY <1>1, <1>2, <1>3, Zenon DEF NeighborInv, Errand, Ats, Backed, MissedKeys
<1>5. Pointers'
  BY <1>1, <1>2 DEF NeighborInv, Pointers, Points, HasSandbox
<1>6. Served'
  BY <1>1 DEF Served, Wanted, SameKey
<1> QED BY <1>4, <1>5, <1>6 DEF NeighborInv

\* INIT goes on with the peers it has left.
LEMMA ContinueErrand ==
  ASSUME Errand, UNCHANGED peerDb, rt' \in Continue
  PROVE  /\ Errand' /\ rt'.at \in {"idle", "add"}
         /\ \A e \in Remotes : (\E x \in rt.todo : KeyOf(x) = KeyOf(e)) => Pending(e)'
  BY ContinueDoing DEF Doing, Errand, Ats, Pending

LEMMA NeighborLookup ==
  ASSUME NeighborInv, SandboxInv, Record, Lookup
  PROVE  NeighborInv'
<1>1. Elsewhere /\ UNCHANGED <<peerDb, nbrs>> /\ rt.at \in {"add", "del"}
  BY DEF Lookup, Elsewhere, netVars
<1>2. MissedKeys'
  BY <1>1 DEF NeighborInv, MissedKeys, Elsewhere
<1>3. CASE ~HasSandbox(net) /\ rt' \in Continue
  <2>1. Errand' /\ rt'.at \in {"idle", "add"}
    BY <1>1, <1>3, ContinueErrand, Zenon DEF NeighborInv
  <2>2. nbrs = {}
    BY <1>3 DEF NeighborInv, Pointers
  <2>3. Pointers'
    BY <1>1, <2>1, PointersRoutine DEF NeighborInv, Points
  <2>4. Backed' /\ Served'
    BY <1>1, <1>3, <2>2 DEF Backed, Served, Elsewhere
  <2> QED BY <1>2, <2>1, <2>3, <2>4 DEF NeighborInv
<1>4. CASE /\ HasSandbox(net)
           /\ rt' = Doing(IF rt.at = "add" THEN "join" ELSE "unprogram", rt.peer, rt.left,
                          net.sbox, net.gen, rt.todo)
  <2>1. /\ rt'.at = IF rt.at = "add" THEN "join" ELSE "unprogram"
        /\ rt'.peer = rt.peer /\ rt'.left = rt.left /\ rt'.todo = rt.todo
        /\ rt'.sbox = net.sbox
    BY <1>4 DEF Doing
  <2>2. Errand'
    BY <1>1, <2>1 DEF NeighborInv, Errand, Ats, SameKey
  <2>3. net.sbox \in 1 .. epoch
    BY <1>4 DEF HasSandbox, SandboxInv, Networks, Shape, NetRecord, NeighborInv, Pointers
  <2>4. Pointers'
    BY <1>1, <1>4, <2>1, <2>3, PointersRoutine, Zenon DEF NeighborInv
  <2>5. Backed'
    BY <1>1, <2>1, BackedKept DEF NeighborInv
  <2>6. \A e \in Remotes : Pending(e) => Pending(e)'
    BY <1>1, <2>1 DEF Pending
  <2>7. Served'
    BY <1>1, <2>6, ServedKept DEF NeighborInv, Elsewhere
  <2> QED BY <1>2, <2>2, <2>4, <2>5, <2>7 DEF NeighborInv
<1> QED BY <1>3, <1>4, LookupDoing

\* joinSandbox on the network the routine looked up.  A key it gives up on is
\* missed.
LEMMA NeighborPeerJoin ==
  ASSUME NeighborInv, SandboxInv, Record, PeerJoin
  PROVE  NeighborInv'
<1> DEFINE here == net # None /\ rt.net = net.gen
           n == IF here THEN net ELSE old
<1>1. rt.at = "join" /\ UNCHANGED <<locked, flush, peerDb>>
  BY DEF PeerJoin
<1>2. PICK fault \in Faults(n) :
         /\ IF here THEN net' = JoinSandbox(n, fault, FALSE) ELSE UNCHANGED net
         /\ SandboxBrought(n, fault)
         /\ nbrs' = IF here /\ Initializes(n, fault) THEN {} ELSE nbrs
         /\ \/ rt' = [rt EXCEPT !.at = "program"] /\ UNCHANGED missed
            \/ rt' \in Continue /\ missed' = missed \cup SameKey(Remotes, rt.peer)
  BY Zenon DEF PeerJoin
<1>3. epoch \in Nat /\ inits \in Nat /\ (net = None \/ net.sbox \in Nat)
  BY DEF SandboxInv, Networks, Shape, NetRecord, NeighborInv, Pointers
<1>4. Same \/ Renewed
  <2>1. CASE here
    BY <1>2, <2>1, JoinRenews, Zenon DEF NeighborInv
  <2>2. CASE ~here
    <3>1. UNCHANGED <<net, nbrs>>
      BY <1>2, <2>2, Zenon
    <3>2. \/ epoch' = epoch + 1 /\ inits' = inits + 1
          \/ UNCHANGED <<epoch, inits>>
      BY <1>2 DEF SandboxBrought
    <3>3. epoch' \in Nat /\ epoch' >= epoch /\ inits' \in Nat /\ inits' >= inits
      BY <1>3, <3>2
    <3> QED BY <3>1, <3>3 DEF Same
  <2> QED BY <2>1, <2>2
<1>5. locked' \/ flush' => net' = None
  <2>1. locked \/ flush => net = None
    BY DEF NeighborInv, Pointers
  <2> QED BY <1>1, <1>2, <2>1, Zenon
<1>6. HasSandbox(net') /\ inits' = 0 => HasSandbox(net) /\ inits = 0 /\ UNCHANGED nbrs
  <2>1. CASE Renewed
    <3>1. inits' # 0
      BY <2>1 DEF Renewed
    <3> QED BY <3>1
  <2>2. CASE Same
    <3>1. /\ HasSandbox(net') <=> HasSandbox(net)
          /\ UNCHANGED nbrs /\ inits' \in Nat /\ inits' >= inits
      BY <2>2, Zenon DEF Same
    <3>2. inits' = 0 => inits = 0
      BY <1>3, <3>1
    <3> QED BY <3>1, <3>2, Zenon
  <2> QED BY <1>4, <2>1, <2>2, Zenon
<1>7. nbrs' = nbrs \/ nbrs' = {}
  BY <1>4 DEF Same, Renewed
<1>8. Backed'
  BY <1>1, <1>7, BackedKept, Zenon DEF NeighborInv
<1>9. CASE rt' = [rt EXCEPT !.at = "program"] /\ UNCHANGED missed
  <2>1. rt' = Doing("program", rt.peer, rt.left, rt.sbox, rt.net, rt.todo)
    BY <1>9 DEF Record, Doing
  <2>2. /\ rt'.at = "program" /\ rt'.peer = rt.peer /\ rt'.todo = rt.todo
        /\ rt'.sbox = rt.sbox
    BY <2>1, Zenon DEF Doing
  <2>3. Errand'
    BY <1>1, <2>2, Zenon DEF NeighborInv, Errand, Ats
  <2>4. Pointers'
    BY <1>1, <1>3, <1>4, <1>5, <2>2, PointersKept DEF NeighborInv, Points
  <2>5. \A e \in Remotes : Pending(e) => Pending(e)'
    BY <1>1, <2>2, Zenon DEF Pending
  <2>6. Served'
    BY <1>1, <1>6, <1>9, <2>5, ServedKept DEF NeighborInv
  <2>7. MissedKeys'
    BY <1>9 DEF NeighborInv, MissedKeys
  <2> QED BY <1>8, <2>3, <2>4, <2>6, <2>7 DEF NeighborInv
<1>10. CASE rt' \in Continue /\ missed' = missed \cup SameKey(Remotes, rt.peer)
  <2>1. /\ Errand' /\ rt'.at \in {"idle", "add"}
        /\ \A e \in Remotes : (\E x \in rt.todo : KeyOf(x) = KeyOf(e)) => Pending(e)'
    BY <1>1, <1>10, ContinueErrand, Zenon DEF NeighborInv
  <2>2. Pointers'
    BY <1>3, <1>4, <1>5, <2>1, PointersKept, Zenon DEF NeighborInv, Points
  <2>3. rt.peer \in peerDb \cap Remotes
    BY <1>1, Zenon DEF NeighborInv, Errand
  <2>4. ASSUME NEW e \in Remotes, Wanted(e)', Pending(e)
        PROVE  Pending(e)'
    <3>1. KeyOf(rt.peer) # KeyOf(e)
      BY <1>1, <1>10, <2>3, <2>4, Zenon DEF Wanted, SameKey
    <3> QED BY <1>1, <2>1, <2>4, <3>1, Zenon DEF Pending
  <2>5. Served'
    BY <1>1, <1>6, <1>10, <2>4, ServedKept, Zenon DEF NeighborInv
  <2>6. MissedKeys'
    BY <1>10, Zenon DEF NeighborInv, MissedKeys, SameKey
  <2> QED BY <1>8, <2>1, <2>2, <2>5, <2>6 DEF NeighborInv
<1> QED BY <1>2, <1>9, <1>10

LEMMA NeighborProgram ==
  ASSUME NeighborInv, SandboxInv, OneConfiguration', Program
  PROVE  NeighborInv'
<1> DEFINE p == rt.peer
<1>1. /\ Elsewhere /\ UNCHANGED peerDb /\ rt.at = "program" /\ rt' \in Continue
      /\ nbrs' = IF Current THEN AddNeighbors(p) ELSE nbrs
  BY DEF Program, Elsewhere, netVars
<1>2. p \in peerDb \cap Remotes /\ rt.sbox \in 1 .. epoch /\ epoch \in Nat
  BY <1>1, Zenon DEF NeighborInv, Errand, Pointers, Points, SandboxInv, Networks
<1>3. /\ Errand' /\ rt'.at \in {"idle", "add"}
      /\ \A e \in Remotes : (\E x \in rt.todo : KeyOf(x) = KeyOf(e)) => Pending(e)'
  BY <1>1, ContinueErrand, Zenon DEF NeighborInv
<1>4. Current => HasSandbox(net)
  BY <1>2 DEF Current, HasSandbox
<1>5. Pointers'
  BY <1>1, <1>3, <1>4, Zenon DEF NeighborInv, Pointers, Points, Elsewhere, HasSandbox
<1>6. nbrs \subseteq nbrs' /\ nbrs' \subseteq nbrs \cup {KeyOf(p), FdbOf(p)}
  BY <1>1 DEF AddNeighbors
<1>7. Backed'
  <2> SUFFICES ASSUME NEW x \in Remotes, FdbOf(x) \in nbrs'
               PROVE  \E y \in Remotes : FdbOf(y) = FdbOf(x) /\ y \in peerDb
    BY <1>1 DEF Backed
  <2>1. FdbOf(x) # KeyOf(p)
    BY <1>2, AddressAssumption DEF FdbOf, KeyOf
  <2>2. CASE FdbOf(x) \in nbrs
    BY <1>1, <2>2 DEF NeighborInv, Backed
  <2>3. CASE FdbOf(x) = FdbOf(p)
    BY <1>2, <2>3
  <2> QED BY <1>6, <2>1, <2>2, <2>3
<1>8. Served'
  <2> SUFFICES ASSUME HasSandbox(net), inits = 0, NEW e \in Remotes, Wanted(e)
               PROVE  Configured(e)' # {} \/ Pending(e)'
    BY <1>1 DEF Served, Elsewhere, Wanted, SameKey, HasSandbox
  <2>1. Current
    BY <1>1 DEF NeighborInv, Pointers, Points, Current, HasSandbox
  <2>2. CASE KeyOf(p) = KeyOf(e)
    <3>1. KeyOf(e) \in nbrs'
      BY <1>1, <2>1, <2>2 DEF AddNeighbors
    <3> QED BY <3>1 DEF OneConfiguration
  <2>3. CASE Configured(e) # {}
    BY <1>6, <2>3 DEF Configured
  <2>4. CASE Pending(e) /\ KeyOf(p) # KeyOf(e)
    BY <1>1, <1>3, <2>4, Zenon DEF Pending
  <2> QED BY <2>2, <2>3, <2>4 DEF NeighborInv, Served
<1>9. MissedKeys'
  BY <1>1 DEF NeighborInv, MissedKeys, Elsewhere
<1> QED BY <1>3, <1>5, <1>7, <1>8, <1>9, Zenon DEF NeighborInv

\* The rest of peerDeleteOp: whoever else has the key is configured in the
\* place of the deleted peer.
LEMMA NeighborUnprogram ==
  ASSUME OneMac, NeighborInv, SandboxInv, Handed, OneConfiguration, Unprogram
  PROVE  NeighborInv'
<1> DEFINE p == rt.peer
           gone == \/ p \in Locals
                   \/ Current /\ {FdbOf(p), KeyOf(p)} \subseteq nbrs
<1>1. /\ Elsewhere /\ UNCHANGED peerDb /\ rt.at = "unprogram"
      /\ nbrs' = IF Current /\ p \in Remotes THEN DeleteNeighbors(p) ELSE nbrs
  BY Zenon DEF Unprogram, Elsewhere, netVars
<1>2. /\ p \in Peers \ peerDb /\ rt.left = Cardinality(SameKey(peerDb, p))
      /\ rt.todo = {} /\ rt.sbox \in 1 .. epoch /\ epoch \in Nat
  BY <1>1, Zenon DEF NeighborInv, Errand, Pointers, Points, SandboxInv, Networks
<1>3. \/ rt'.at = "idle" /\ rt'.todo = {}
      \/ rt'.at = "add" /\ rt'.peer \in peerDb /\ rt'.todo = {}
  BY UnprogramDoing DEF Doing, Candidates
<1>4. rt'.at = "add" => rt'.peer \notin Locals
  <2>1. Idle.at = "idle" /\ \A x : [Idle EXCEPT !.at = "add", !.peer = x].peer = x
    BY DEF Idle
  <2>2. rt' = Idle \/ \E x \in Candidates(p) : rt' = IF x \in Locals THEN Idle
                                             ELSE [Idle EXCEPT !.at = "add", !.peer = x]
    BY Zenon DEF Unprogram
  <2> QED BY <2>1, <2>2, Zenon
<1>5. gone /\ rt.left # 0 =>
         \E x \in Candidates(p) :
            x \in Locals \/ (rt'.at = "add" /\ rt'.peer = x)
  <2>1. \A x : /\ [Idle EXCEPT !.at = "add", !.peer = x].at = "add"
              /\ [Idle EXCEPT !.at = "add", !.peer = x].peer = x
    BY DEF Idle
  <2>2. gone /\ rt.left # 0 =>
           \E x \in Candidates(p) : rt' = IF x \in Locals THEN Idle
                                    ELSE [Idle EXCEPT !.at = "add", !.peer = x]
    BY Zenon DEF Unprogram
  <2> QED BY <2>1, <2>2, Zenon
<1>6. nbrs' \subseteq nbrs /\ nbrs \ {KeyOf(p), FdbOf(p)} \subseteq nbrs'
  BY <1>1 DEF DeleteNeighbors
<1>7. Errand'
  <2>1. peerDb \subseteq Locals \cup Remotes
    BY DEF Handed, Peers
  <2> QED BY <1>1, <1>3, <1>4, <2>1, Zenon DEF Errand, Ats
<1>8. Pointers'
  BY <1>1, <1>3, <1>6, PointersRoutine, Zenon DEF NeighborInv, Points
<1>9. nbrs # {} => Current
  BY <1>1 DEF NeighborInv, Pointers, Points, Current, HasSandbox
<1>10. Backed'
  <2> SUFFICES ASSUME NEW x \in Remotes, FdbOf(x) \in nbrs'
               PROVE  \E y \in Remotes : FdbOf(y) = FdbOf(x) /\ y \in peerDb
    BY <1>1, Zenon DEF Backed
  <2>1. PICK y \in Remotes : FdbOf(y) = FdbOf(x) /\ (y \in peerDb \/ y = p)
    BY <1>6 DEF NeighborInv, Backed
  <2>2. y # p
    BY <1>1, <1>6, <1>9, <2>1 DEF DeleteNeighbors
  <2> QED BY <2>1, <2>2
<1>11. Served'
  <2> SUFFICES ASSUME HasSandbox(net), inits = 0, NEW e \in Remotes, Wanted(e)
               PROVE  Configured(e)' # {} \/ Pending(e)'
    BY <1>1 DEF Served, Elsewhere, Wanted, SameKey, HasSandbox
  <2>1. Current
    BY <1>1 DEF NeighborInv, Pointers, Points, Current, HasSandbox
  <2>2. Configured(e) # {} \/ (KeyOf(p) = KeyOf(e) /\ p \in Locals)
    BY <1>1, <1>2, Zenon DEF NeighborInv, Served, Pending
  <2>3. CASE KeyOf(p) # KeyOf(e)
    <3>1. PICK x \in Remotes : KeyOf(x) = KeyOf(e) /\ FdbOf(x) \in nbrs
      BY <2>2, <2>3 DEF Configured
    <3>2. FdbOf(x) # KeyOf(p)
      BY <1>2, AddressAssumption, Zenon DEF FdbOf, KeyOf, Peers
    <3>3. FdbOf(x) # FdbOf(p)
      BY <1>2, <2>3, <3>1, AddressAssumption, Zenon DEF FdbOf, KeyOf, Peers
    <3> QED BY <1>6, <3>1, <3>2, <3>3 DEF Configured
  <2>4. CASE KeyOf(p) = KeyOf(e) /\ gone
    <3>1. rt.left # 0
      <4>1. SameKey(peerDb, p) # {} /\ SameKey(peerDb, p) \subseteq Peers
        BY <2>4 DEF Wanted, SameKey, Handed
      <4>2. IsFiniteSet(SameKey(peerDb, p))
        BY <4>1, PeersAssumption, FS_Subset DEF Peers
      <4> QED BY <1>2, <4>1, <4>2, FS_EmptySet, Zenon
    <3>2. PICK x \in peerDb :
             IpOf[x] = IpOf[p] /\ (x \in Locals \/ (rt'.at = "add" /\ rt'.peer = x))
      BY <1>5, <2>4, <3>1, Zenon DEF Candidates
    <3>3. KeyOf(x) = KeyOf(e)
      <4>1. MacOf[x] = MacOf[p]
        BY <1>2, <3>2, Zenon DEF OneMac, Handed
      <4>2. KeyOf(x) = KeyOf(p)
        BY <3>2, <4>1 DEF KeyOf
      <4> QED BY <2>4, <4>2
    <3>4. x \notin Locals
      BY <3>2, <3>3, PeersAssumption DEF Wanted, SameKey
    <3> QED BY <3>2, <3>3, <3>4, Zenon DEF Pending
  <2>5. CASE KeyOf(p) = KeyOf(e) /\ ~gone
    <3>1. p \in Remotes /\ Configured(e) # {}
      BY <1>2, <2>2, <2>5, Zenon DEF Peers
    <3>2. FdbOf(p) \notin nbrs
      BY <2>1, <2>5, <3>1, Zenon DEF OneConfiguration, Configured
    <3>3. nbrs' = nbrs
      BY <1>1, <3>2 DEF DeleteNeighbors
    <3> QED BY <3>1, <3>3 DEF Configured
  <2> QED BY <2>3, <2>4, <2>5
<1>12. MissedKeys'
  BY <1>1 DEF NeighborInv, MissedKeys, Elsewhere
<1> QED BY <1>7, <1>8, <1>10, <1>11, <1>12 DEF NeighborInv

LEMMA NeighborStep ==
  ASSUME OneMac, IInv, IInv', Record, SandboxInv, NeighborInv, [Next]_vars
  PROVE  NeighborInv'
<1>1. /\ Handed /\ OneConfiguration /\ OneConfiguration'
      /\ epoch \in Nat /\ inits \in Nat /\ (locked \/ flush => net = None)
  BY DEF IInv, SandboxInv, Networks, NeighborInv, Pointers
<1>2. ASSUME UNCHANGED <<net, epoch, inits, peerDb, nbrs, rt, missed>>,
             locked' \/ flush' => locked \/ flush
      PROVE  NeighborInv'
  BY <1>1, <1>2, NeighborKept DEF Same, HasSandbox
<1>3. CASE \/ AddDriverWatch \/ WalkTable \/ CancelWatch \/ PeerFlush \/ HandleTableEvent
           \/ UNCHANGED vars
  <2>1. UNCHANGED <<net, epoch, inits, peerDb, nbrs, rt, missed>>
    BY <1>3, Zenon DEF AddDriverWatch, WalkTable, CancelWatch, PeerFlush, HandleTableEvent,
       netVars, vars
  <2>2. UNCHANGED <<locked, flush>> \/ locked
    BY <1>3, Zenon DEF AddDriverWatch, WalkTable, CancelWatch, PeerFlush, HandleTableEvent,
       netVars, vars
  <2> QED BY <1>2, <2>1, <2>2, Zenon
<1>4. CASE \E e \in Remotes : LearnPeer(e) \/ ForgetPeer(e)
  <2>1. UNCHANGED <<net, epoch, inits, peerDb, nbrs, rt, missed, locked, flush>>
    BY <1>4, Zenon DEF LearnPeer, ForgetPeer, netVars
  <2> QED BY <1>2, <2>1, Zenon
<1>5. CASE \E e \in Locals : CreateEndpoint(e) \/ DeleteEndpoint(e) \/ JoinLinks(e) \/ Leave(e)
  <2>1. UNCHANGED <<net, epoch, inits, peerDb, nbrs, rt, missed, locked, flush>>
    BY <1>5, Zenon DEF CreateEndpoint, DeleteEndpoint, JoinLinks, Leave, netVars
  <2> QED BY <1>2, <2>1, Zenon
<1>6. CASE ReceiveEvent
  <2>1. hand.peer \in Peers
    BY <1>1, <1>6, Zenon DEF ReceiveEvent, Handed, Event, Peers
  <2>2. rt = Idle /\ Elsewhere /\ UNCHANGED nbrs
    BY <1>6, Zenon DEF ReceiveEvent, Elsewhere, netVars
  <2> QED BY <1>1, <1>6, <2>1, <2>2, NeighborStartAdd, NeighborStartDelete, Zenon DEF ReceiveEvent
<1>7. ASSUME NEW e \in Remotes, ReceiveWalk(e)
      PROVE  NeighborInv'
  <2>1. e \in Peers /\ rt = Idle /\ Elsewhere /\ UNCHANGED nbrs /\ StartAdd(e)
    BY <1>7 DEF ReceiveWalk, Elsewhere, netVars, Peers
  <2> QED BY <1>1, <2>1, NeighborStartAdd
<1>8. ASSUME NEW e \in Locals, ReceiveLocal(e)
      PROVE  NeighborInv'
  <2>1. e \in Peers /\ rt = Idle /\ Elsewhere /\ UNCHANGED nbrs
    BY <1>8 DEF ReceiveLocal, Elsewhere, netVars, Peers
  <2> QED BY <1>1, <1>8, <2>1, NeighborStartAdd, NeighborStartDelete DEF ReceiveLocal
<1>9. CASE Routine
  BY <1>1, <1>6, <1>7, <1>8, <1>9, NeighborInit, NeighborFlush, NeighborLookup,
     NeighborPeerJoin, NeighborProgram, NeighborUnprogram DEF Routine
<1> QED BY <1>3, <1>4, <1>5, <1>9, NeighborCalls DEF Next

LEMMA NeighborStart == Init => NeighborInv
  BY DEF Init, Idle, NeighborInv, Errand, Ats, Pointers, Points, Backed, Served, MissedKeys,
     HasSandbox

\* With nothing on its way, the neighbours are those of peers in the database.
LEMMA NeighborQuiet == NeighborInv => NeighborsFollowPeers
<1> SUFFICES ASSUME NeighborInv, Quiet, HasSandbox(net), NEW e \in Remotes
             PROVE  LET there == SameKey(peerDb, e) IN
                    /\ Configured(e) # {} =>
                          \E x \in there \cap Remotes : FdbOf(x) \in nbrs
                    /\ there # {} /\ there \subseteq Remotes \ missed => Configured(e) # {}
  BY DEF NeighborsFollowPeers
<1>1. rt.at = "idle" /\ ~Pending(e) /\ inits = 0
  BY IdleNothing DEF Quiet
<1>2. ASSUME Configured(e) # {}
      PROVE  \E x \in SameKey(peerDb, e) \cap Remotes : FdbOf(x) \in nbrs
  <2>1. PICK x \in Remotes : KeyOf(x) = KeyOf(e) /\ FdbOf(x) \in nbrs
    BY <1>2 DEF Configured
  <2>2. PICK y \in Remotes : FdbOf(y) = FdbOf(x) /\ y \in peerDb
    BY <1>1, <2>1 DEF NeighborInv, Backed
  <2>3. KeyOf(y) = KeyOf(e)
    BY <2>1, <2>2, AddressAssumption DEF FdbOf, KeyOf
  <2> QED BY <2>1, <2>2, <2>3 DEF SameKey
<1>3. Wanted(e) => Configured(e) # {}
  BY <1>1 DEF NeighborInv, Served
<1> QED BY <1>2, <1>3 DEF Wanted

\* Once every operation was applied, no neighbour is left of an endpoint that
\* went, and every key of remote endpoints is configured, whatever happens to
\* the sandbox while the routine works; unless this node has the key, or an
\* operation gave up on it as a subnet failed (peerAddOp, peerDeleteOp,
\* peerInitOp).
THEOREM NeighborsAlwaysFollow ==
  ASSUME OneMac
  PROVE  Spec => []NeighborsFollowPeers
<1> DEFINE Inv == IInv /\ Record /\ SandboxInv /\ NeighborInv
<1>1. Init => Inv
  BY InitOne, SandboxInit, NeighborStart
<1>2. Inv /\ [Next]_vars => Inv'
  BY StepOne, RecordStep, SandboxStep, NeighborStep
<1>3. Inv => NeighborsFollowPeers
  BY NeighborQuiet
<1> QED BY <1>1, <1>2, <1>3, PTL DEF Spec
=============================================================================
