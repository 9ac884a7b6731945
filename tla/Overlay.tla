------------------------------- MODULE Overlay -------------------------------
(***************************************************************************)
(* The peers of one overlay network on one node of a swarm                  *)
(* (drivers/overlay).  The node's peer database is written by one           *)
(* goroutine, peerOpRoutine, which receives the operations ADD, DELETE,     *)
(* INIT and FLUSH over an unbuffered channel from                           *)
(*   - the watch of overlay_peer_table, an event at a time (EventNotify);   *)
(*   - the walk of that table when the network is created;                  *)
(*   - Join and Leave of the node's own endpoints;                          *)
(*   - a goroutine started when the network's sandbox is initialised;       *)
(*   - DeleteNetwork.                                                       *)
(* The routine programs the neighbours of the network's sandbox, which      *)
(* Join and Leave create and destroy meanwhile.                             *)
(*                                                                         *)
(* A sender waits until the routine receives, and nobody can tell a sender  *)
(* that waits from one about to send; so the routine takes, whenever it is  *)
(* idle, the operation of any sender that has one.                          *)
(*                                                                         *)
(* An endpoint id fixes the endpoint's address and tunnel end, so the peer  *)
(* database is a set of endpoints, the entries of a key <ip,mac> being the  *)
(* endpoints with that key.  The sandbox's neighbours are the pairs         *)
(* <address, mac> its namespace object records: <ip, mac> for the           *)
(* neighbour entry and <tunnel end, mac> for the forwarding entry.          *)
(***************************************************************************)
EXTENDS Integers, FiniteSets, Sequences

CONSTANTS
    Locals,      \* the endpoints of this node
    Remotes,     \* the endpoints of other nodes
    IpOf,        \* the address of an endpoint
    MacOf,       \* its MAC address
    VtepOf,      \* the tunnel end of the node it runs on
    None,        \* no endpoint, no event
    MaxNets,     \* bound on the creations of the network
    MaxJoins,    \* bound on the calls of Join
    MaxFails     \* bound on the failures of the operating system

\* The networks of the driver: how often joined, which sandbox, and what of the
\* sandbox and of its subnet was initialised.
NetRecord == [gen : Nat, joinCnt : Nat, sbox : Nat, sboxInit : BOOLEAN,
              initErr : BOOLEAN, subInit : BOOLEAN]

\* The events of the watch.
Event == [op : {"add", "del"}, peer : Remotes]

ASSUME PeersAssumption ==
    /\ Locals \cap Remotes = {}
    /\ \A f \in {IpOf, MacOf, VtepOf} : DOMAIN f = Locals \cup Remotes
    /\ None \notin Locals \cup Remotes
    /\ None \notin NetRecord /\ None \notin Event
    /\ IsFiniteSet(Locals \cup Remotes)
    /\ {MaxNets, MaxJoins, MaxFails} \subseteq Nat

\* A MAC address belongs to one IP address, as when it is made from it, and the
\* addresses inside the network are not those of the nodes.
ASSUME AddressAssumption ==
    \A x, y \in Locals \cup Remotes :
       /\ MacOf[x] = MacOf[y] => IpOf[x] = IpOf[y]
       /\ IpOf[x] # VtepOf[y]

VARIABLES
    net,      \* the network in the driver's table, or None
    gen,      \* how many times the network was created
    locked,   \* whether DeleteNetwork holds the driver's lock
    flush,    \* whether DeleteNetwork waits to send FLUSH
    eps,      \* where each endpoint of this node is between create and delete
    joins,    \* how many calls of Join there were
    epoch,    \* how many sandboxes the network had
    inits,    \* how many goroutines wait to send INIT
    peerDb,   \* the entries of the peer database
    nbrs,     \* the neighbours of the network's sandbox
    rt,       \* what peerOpRoutine is doing
    table,    \* this node's copy of overlay_peer_table
    watch,    \* how far the network's creation got with its watch
    events,   \* the events of the watch that nobody took
    hand,     \* the event the watch's goroutine is notifying the driver of
    walk,     \* the entries the walk still has to notify the driver of
    fails,    \* how many failures there were
    lost,     \* joins of the network that failed after they were counted
    revived,  \* whether the routine initialised a sandbox
    missed,   \* peers whose key an operation gave up on, as the subnet failed
    old       \* the network the driver deleted last, or None

vars == <<net, gen, locked, flush, eps, joins, epoch, inits, peerDb, nbrs, rt,
          table, watch, events, hand, walk, fails, lost, revived, missed,
          old>>

netVars == <<net, gen, locked, flush, old>>
apiVars == <<eps, joins, lost>>
tableVars == <<table, watch, events, hand, walk>>

Peers == Locals \cup Remotes

\* The key of a peer in the database.
KeyOf(e) == <<IpOf[e], MacOf[e]>>

\* The forwarding entry of a peer.
FdbOf(e) == <<VtepOf[e], MacOf[e]>>

\* The entries of a peer's key.
SameKey(db, e) == {x \in db : KeyOf(x) = KeyOf(e)}

\* The routine between two operations.
Idle == [at |-> "idle", peer |-> None, left |-> 0, sbox |-> 0, net |-> 0,
         todo |-> {}]

\* A network as CreateNetwork makes it.
NewNet(g) == [gen |-> g, joinCnt |-> 0, sbox |-> 0, sboxInit |-> FALSE,
              initErr |-> FALSE, subInit |-> FALSE]

HasSandbox(n) == IF n = None THEN FALSE ELSE n.sbox # 0

TypeOK ==
    /\ {net, old} \subseteq {None} \cup
         [gen : 1 .. MaxNets, joinCnt : 0 .. MaxJoins, sbox : 0 .. epoch,
          sboxInit : BOOLEAN, initErr : BOOLEAN, subInit : BOOLEAN]
    /\ gen \in 0 .. MaxNets /\ joins \in 0 .. MaxJoins
    /\ epoch \in Nat /\ inits \in Nat
    /\ fails \in 0 .. MaxFails /\ lost \in 0 .. MaxFails
    /\ {locked, flush, revived} \subseteq BOOLEAN
    /\ eps \in [Locals -> {"none", "created", "joining", "adding", "joined",
                           "leaving", "left"}]
    /\ peerDb \subseteq Peers /\ missed \subseteq Remotes
    /\ nbrs \subseteq {KeyOf(e) : e \in Peers} \cup {FdbOf(e) : e \in Peers}
    /\ rt \in [at : {"idle", "add", "join", "program", "del", "unprogram"},
               peer : Peers \cup {None}, left : 0 .. Cardinality(Peers),
               sbox : 0 .. epoch, net : 0 .. gen, todo : SUBSET Remotes]
    /\ table \in [Remotes -> {"new", "known", "gone"}]
    /\ watch \in {"off", "joined", "watching", "on"}
    /\ events \in Seq(Event) /\ hand \in Event \cup {None}
    /\ walk \subseteq Remotes

Init ==
    /\ net = None /\ gen = 0 /\ locked = FALSE /\ flush = FALSE
    /\ eps = [e \in Locals |-> "none"] /\ joins = 0 /\ epoch = 0 /\ inits = 0
    /\ peerDb = {} /\ nbrs = {} /\ rt = Idle
    /\ table = [e \in Remotes |-> "new"] /\ watch = "off"
    /\ events = <<>> /\ hand = None /\ walk = {}
    /\ fails = 0 /\ lost = 0 /\ revived = FALSE /\ missed = {} /\ old = None

-----------------------------------------------------------------------------
(***************************************************************************)
(* joinSandbox and leaveSandbox, both under the network's lock.             *)
(***************************************************************************)

\* What may fail in a call of joinSandbox: the sandbox, the subnet, or nothing.
Faults(n) ==
    {"nothing"} \cup
    IF fails = MaxFails \/ n.initErr THEN {}
    ELSE (IF n.sboxInit THEN {} ELSE {"sandbox"}) \cup
         (IF n.subInit THEN {} ELSE {"subnet"})

\* The network after the first part of joinSandbox.  A sandbox that cannot be
\* initialised is not tried again; a subnet is.
Initialized(n, fault) ==
    LET n1 == IF n.sboxInit THEN n
              ELSE [n EXCEPT !.sboxInit = TRUE,
                             !.initErr = fault = "sandbox",
                             !.sbox = IF fault = "sandbox" THEN 0 ELSE epoch + 1]
    IN  IF n1.initErr \/ n1.subInit THEN n1
        ELSE [n1 EXCEPT !.subInit = fault # "subnet"]

\* Whether joinSandbox returns no error.
Ready(n) == ~n.initErr /\ n.subInit

JoinSandbox(n, fault, inc) ==
    LET n1 == Initialized(n, fault) IN
    IF Ready(n1) /\ inc THEN [n1 EXCEPT !.joinCnt = @ + 1] ELSE n1

\* What a call of joinSandbox does besides: a new sandbox has no neighbours,
\* and a goroutine is started that will send INIT.
Initializes(n, fault) == ~n.sboxInit /\ fault # "sandbox"

\* Mutant: the last leave keeps the sandbox.
LeaveSandboxKeeps(n) == [n EXCEPT !.joinCnt = @ - 1]

LeaveSandbox(n) ==
    IF n.joinCnt # 1 THEN [n EXCEPT !.joinCnt = @ - 1]
    ELSE [NewNet(n.gen) EXCEPT !.joinCnt = 0]

\* What a call of joinSandbox on a network leaves besides the network: the
\* failure, and the sandbox and the goroutine it may have brought.
SandboxBrought(n, fault) ==
    /\ fails' = IF fault = "nothing" THEN fails ELSE fails + 1
    /\ IF Initializes(n, fault)
       THEN epoch' = epoch + 1 /\ inits' = inits + 1
       ELSE UNCHANGED <<epoch, inits>>

-----------------------------------------------------------------------------
(***************************************************************************)
(* The network and its watch.                                               *)
(***************************************************************************)

\* The driver's CreateNetwork, then JoinNetwork of the database.
CreateNetwork ==
    /\ net = None /\ ~locked /\ ~flush /\ gen < MaxNets
    /\ net' = NewNet(gen + 1) /\ gen' = gen + 1
    /\ watch' = "joined"
    /\ UNCHANGED <<locked, flush, old, apiVars, epoch, inits, peerDb, nbrs,
                   rt, table, events, hand, walk, fails, revived, missed>>

\* addDriverWatches: the watch starts...
AddDriverWatch ==
    /\ watch = "joined"
    /\ watch' = "watching"
    /\ UNCHANGED <<netVars, apiVars, epoch, inits, peerDb, nbrs, rt, table,
                   events, hand, walk, fails, revived, missed>>

\* ... and the walk takes its copy of the table.
WalkTable ==
    /\ watch = "watching"
    /\ watch' = "on"
    /\ walk' = {e \in Remotes : table[e] = "known"}
    /\ UNCHANGED <<netVars, apiVars, epoch, inits, peerDb, nbrs, rt, table,
                   events, hand, fails, revived, missed>>

\* The deletion of the network, which has no endpoints: the watch is cancelled
\* and the node leaves the network's gossip, which empties its table.  The
\* event in hand stays in hand.
CancelWatch ==
    /\ watch = "on" /\ walk = {} /\ \A e \in Locals : eps[e] = "none"
    /\ watch' = "off" /\ events' = <<>>
    /\ table' = [e \in Remotes |-> IF table[e] = "known" THEN "new" ELSE table[e]]
    /\ UNCHANGED <<netVars, apiVars, epoch, inits, peerDb, nbrs, rt, hand, walk,
                   fails, revived, missed>>

\* DeleteNetwork under the driver's lock.  It does not look at the sandbox.
DeleteNetwork ==
    /\ net # None /\ watch = "off" /\ ~locked
    /\ locked' = TRUE /\ net' = None
    /\ old' = net
    /\ nbrs' = {} /\ missed' = {} /\ lost' = 0
    /\ UNCHANGED <<gen, flush, eps, joins, epoch, inits, peerDb, rt, tableVars,
                   fails, revived>>

\* Mutant: FLUSH is sent before the lock is given back.
FlushLocked ==
    /\ locked /\ ~flush
    /\ flush' = TRUE
    /\ UNCHANGED <<net, gen, locked, old, apiVars, epoch, inits, peerDb,
                   nbrs, rt, tableVars, fails, revived, missed>>

\* The deferred function: the lock is given back, then FLUSH is sent.
PeerFlush ==
    /\ locked /\ ~flush
    /\ locked' = FALSE /\ flush' = TRUE
    /\ UNCHANGED <<net, gen, old, apiVars, epoch, inits, peerDb, nbrs, rt,
                   tableVars, fails, revived, missed>>

-----------------------------------------------------------------------------
(***************************************************************************)
(* The table.  NetworkDB tells this node of an endpoint of another node     *)
(* and, later, of its end, once it joined the network; the watch, if it     *)
(* has started, is sent the event.                                          *)
(***************************************************************************)

Told(op, e) ==
    events' = IF watch \in {"watching", "on"}
              THEN Append(events, [op |-> op, peer |-> e]) ELSE events

LearnPeer(e) ==
    /\ watch # "off" /\ table[e] = "new"
    /\ table' = [table EXCEPT ![e] = "known"]
    /\ Told("add", e)
    /\ UNCHANGED <<netVars, apiVars, epoch, inits, peerDb, nbrs, rt, watch,
                   hand, walk, fails, revived, missed>>

ForgetPeer(e) ==
    /\ watch # "off" /\ table[e] = "known"
    /\ table' = [table EXCEPT ![e] = "gone"]
    /\ Told("del", e)
    /\ UNCHANGED <<netVars, apiVars, epoch, inits, peerDb, nbrs, rt, watch,
                   hand, walk, fails, revived, missed>>

\* handleTableEvents takes an event, and calls EventNotify.
HandleTableEvent ==
    /\ hand = None /\ events # <<>>
    /\ hand' = Head(events) /\ events' = Tail(events)
    /\ UNCHANGED <<netVars, apiVars, epoch, inits, peerDb, nbrs, rt, table,
                   watch, walk, fails, revived, missed>>

-----------------------------------------------------------------------------
(***************************************************************************)
(* The endpoints of this node.                                              *)
(***************************************************************************)

CreateEndpoint(e) ==
    /\ net # None /\ watch # "off" /\ eps[e] = "none" /\ joins < MaxJoins
    /\ eps' = [eps EXCEPT ![e] = "created"]
    /\ UNCHANGED <<netVars, joins, lost, epoch, inits, peerDb, nbrs, rt,
                   tableVars, fails, revived, missed>>

DeleteEndpoint(e) ==
    /\ eps[e] = "created"
    /\ eps' = [eps EXCEPT ![e] = "none"]
    /\ UNCHANGED <<netVars, joins, lost, epoch, inits, peerDb, nbrs, rt,
                   tableVars, fails, revived, missed>>

\* Join, up to joinSandbox.
Join(e) ==
    /\ eps[e] = "created" /\ joins < MaxJoins
    /\ joins' = joins + 1
    /\ \E fault \in Faults(net) :
          /\ net' = JoinSandbox(net, fault, TRUE)
          /\ SandboxBrought(net, fault)
          /\ nbrs' = IF Initializes(net, fault) THEN {} ELSE nbrs
    /\ eps' = [eps EXCEPT ![e] = IF Ready(net') THEN "joining" ELSE "created"]
    /\ UNCHANGED <<gen, locked, flush, old, lost, peerDb, rt, tableVars,
                   revived, missed>>

\* Join, up to peerAdd: the veth pair, its links and its names.  An error here
\* leaves the join counted.
JoinLinks(e) ==
    /\ eps[e] = "joining"
    /\ \/ /\ eps' = [eps EXCEPT ![e] = "adding"]
          /\ UNCHANGED <<lost, fails>>
       \/ /\ fails < MaxFails
          /\ eps' = [eps EXCEPT ![e] = "created"]
          /\ lost' = lost + 1 /\ fails' = fails + 1
    /\ UNCHANGED <<netVars, joins, epoch, inits, peerDb, nbrs, rt, tableVars,
                   revived, missed>>

\* Leave, up to peerDelete.
Leave(e) ==
    /\ eps[e] = "joined"
    /\ eps' = [eps EXCEPT ![e] = "leaving"]
    /\ UNCHANGED <<netVars, joins, lost, epoch, inits, peerDb, nbrs, rt,
                   tableVars, fails, revived, missed>>

\* Leave, once peerDelete returned.
LeaveLast(e) ==
    /\ eps[e] = "left"
    /\ eps' = [eps EXCEPT ![e] = "created"]
    /\ net' = LeaveSandbox(net)
    /\ IF net'.sbox = 0 THEN nbrs' = {} /\ missed' = {}
       ELSE UNCHANGED <<nbrs, missed>>
    /\ UNCHANGED <<gen, locked, flush, old, joins, lost, epoch, inits, peerDb,
                   rt, tableVars, fails, revived>>

-----------------------------------------------------------------------------
(***************************************************************************)
(* peerOpRoutine.  An operation starts when the routine receives it, and    *)
(* the sender goes on.                                                      *)
(***************************************************************************)

\* The routine after an operation: INIT goes on with the peers it has left.
Continue ==
    IF rt.todo = {} THEN {Idle}
    ELSE {[Idle EXCEPT !.at = "add", !.peer = e, !.todo = rt.todo \ {e}] :
             e \in rt.todo}

\* Mutant: a peer without a sandbox to configure is not recorded.
StartAddConfigured(e) ==
    /\ peerDb' = IF HasSandbox(net)
                 THEN peerDb \cup {e} ELSE peerDb
    /\ rt' = IF e \in Locals THEN Idle
             ELSE [Idle EXCEPT !.at = "add", !.peer = e]

\* peerAddOp and peerDeleteOp update the database first.  A local peer has no
\* further configuration to add; its deletion goes on.
StartAdd(e) ==
    /\ peerDb' = peerDb \cup {e}
    /\ rt' = IF e \in Locals THEN Idle
             ELSE [Idle EXCEPT !.at = "add", !.peer = e]

StartDelete(e) ==
    /\ peerDb' = peerDb \ {e}
    /\ rt' = [Idle EXCEPT !.at = "del", !.peer = e,
                          !.left = Cardinality(SameKey(peerDb', e))]

\* An event of the watch.
ReceiveEvent ==
    /\ rt = Idle /\ hand # None
    /\ IF hand.op = "add" THEN StartAdd(hand.peer) ELSE StartDelete(hand.peer)
    /\ hand' = None
    /\ UNCHANGED <<netVars, apiVars, epoch, inits, nbrs, table, watch, events,
                   walk, fails, revived, missed>>

\* An entry of the walk.
ReceiveWalk(e) ==
    /\ rt = Idle /\ e \in walk
    /\ StartAdd(e)
    /\ walk' = walk \ {e}
    /\ UNCHANGED <<netVars, apiVars, epoch, inits, nbrs, table, watch, events,
                   hand, fails, revived, missed>>

\* peerAdd of Join and peerDelete of Leave.
ReceiveLocal(e) ==
    /\ rt = Idle /\ eps[e] \in {"adding", "leaving"}
    /\ IF eps[e] = "adding" THEN StartAdd(e) ELSE StartDelete(e)
    /\ eps' = [eps EXCEPT ![e] = IF @ = "adding" THEN "joined" ELSE "left"]
    /\ UNCHANGED <<netVars, joins, lost, epoch, inits, nbrs, tableVars, fails,
                   revived, missed>>

\* The selections of one entry for every key, which is what peerDbNetworkWalk
\* passes on: the set's elements have no order.
Selections(db) ==
    {S \in SUBSET db : \A e \in db : Cardinality(SameKey(S, e)) = 1}

\* peerInitOp: the selected peers that are not local.
ReceiveInit ==
    /\ rt = Idle /\ inits > 0
    /\ inits' = inits - 1
    /\ \E S \in Selections(peerDb) :
          IF S \cap Remotes = {} THEN UNCHANGED rt
          ELSE \E e \in S \cap Remotes :
                  rt' = [Idle EXCEPT !.at = "add", !.peer = e,
                                     !.todo = (S \cap Remotes) \ {e}]
    /\ UNCHANGED <<netVars, apiVars, epoch, peerDb, nbrs, tableVars, fails,
                   revived, missed>>

\* peerFlushOp.
ReceiveFlush ==
    /\ rt = Idle /\ flush
    /\ peerDb' = {}
    /\ flush' = FALSE /\ locked' = FALSE
    /\ UNCHANGED <<net, gen, old, apiVars, epoch, inits, nbrs, rt, tableVars,
                   fails, revived, missed>>

-----------------------------------------------------------------------------

\* d.network and n.sandbox: without a network or a sandbox there is nothing to
\* configure.
Lookup ==
    /\ rt.at \in {"add", "del"} /\ ~locked
    /\ IF ~HasSandbox(net) THEN rt' \in Continue
       ELSE rt' = [rt EXCEPT !.at = IF @ = "add" THEN "join" ELSE "unprogram",
                             !.sbox = net.sbox, !.net = net.gen]
    /\ UNCHANGED <<netVars, apiVars, epoch, inits, peerDb, nbrs, tableVars,
                   fails, revived, missed>>

\* joinSandbox, on the network the routine looked up, which need not have a
\* sandbox any more, nor be a network of the driver.
PeerJoin ==
    /\ rt.at = "join"
    /\ LET here == net # None /\ rt.net = net.gen
           n == IF here THEN net ELSE old
       IN  \E fault \in Faults(n) :
              LET n1 == JoinSandbox(n, fault, FALSE) IN
              /\ IF here THEN net' = n1 /\ UNCHANGED old
                 ELSE old' = n1 /\ UNCHANGED net
              /\ SandboxBrought(n, fault)
              /\ nbrs' = IF here /\ Initializes(n, fault) THEN {} ELSE nbrs
              /\ revived' = (revived \/ Initializes(n, fault))
              /\ IF Ready(n1)
                 THEN rt' = [rt EXCEPT !.at = "program"] /\ UNCHANGED missed
                 ELSE /\ rt' \in Continue
                      /\ missed' = missed \cup SameKey(Remotes, rt.peer)
    /\ UNCHANGED <<gen, locked, flush, apiVars, peerDb, tableVars>>

\* Whether the sandbox the routine has a pointer to is the network's.
Current == net # None /\ net.sbox = rt.sbox

\* Mutant: AddNeighbor is always forced.
AddNeighborsForced(e) == nbrs \cup {KeyOf(e), FdbOf(e)}

\* AddNeighbor twice.  A neighbour that is there is an error, and so ends the
\* operation.
AddNeighbors(e) ==
    IF KeyOf(e) \in nbrs THEN nbrs ELSE nbrs \cup {KeyOf(e), FdbOf(e)}

Program ==
    /\ rt.at = "program"
    /\ nbrs' = IF Current THEN AddNeighbors(rt.peer) ELSE nbrs
    /\ rt' \in Continue
    /\ UNCHANGED <<netVars, apiVars, epoch, inits, peerDb, tableVars, fails,
                   revived, missed>>

\* DeleteNeighbor twice, unless the peer is local.
DeleteNeighbors(e) ==
    IF FdbOf(e) \notin nbrs THEN nbrs ELSE nbrs \ {KeyOf(e), FdbOf(e)}

\* peerDbSearch: an entry that the walk may pass on, looked up by address.
Candidates(e) == {x \in peerDb : IpOf[x] = IpOf[e]}

\* Mutant: nothing is restored.
UnprogramOnly ==
    /\ rt.at = "unprogram"
    /\ nbrs' = IF Current /\ rt.peer \in Remotes
               THEN DeleteNeighbors(rt.peer) ELSE nbrs
    /\ rt' = Idle
    /\ UNCHANGED <<netVars, apiVars, epoch, inits, peerDb, tableVars, fails,
                   revived, missed>>

\* The rest of peerDeleteOp: the neighbours go; if they were there and other
\* entries have the key, one of them is configured.
Unprogram ==
    LET e == rt.peer
        gone == \/ e \in Locals
                \/ Current /\ {FdbOf(e), KeyOf(e)} \subseteq nbrs
    IN
    /\ rt.at = "unprogram"
    /\ nbrs' = IF Current /\ e \in Remotes THEN DeleteNeighbors(e) ELSE nbrs
    /\ IF ~gone \/ rt.left = 0 THEN rt' = Idle
       ELSE \E x \in Candidates(e) :
               rt' = IF x \in Locals THEN Idle
                     ELSE [Idle EXCEPT !.at = "add", !.peer = x]
    /\ UNCHANGED <<netVars, apiVars, epoch, inits, peerDb, tableVars, fails,
                   revived, missed>>

-----------------------------------------------------------------------------

Routine ==
    \/ ReceiveEvent \/ ReceiveInit \/ ReceiveFlush
    \/ \E e \in Remotes : ReceiveWalk(e)
    \/ \E e \in Locals : ReceiveLocal(e)
    \/ Lookup \/ PeerJoin \/ Program \/ Unprogram

Next ==
    \/ CreateNetwork \/ AddDriverWatch \/ WalkTable
    \/ CancelWatch \/ DeleteNetwork \/ PeerFlush
    \/ \E e \in Remotes : LearnPeer(e) \/ ForgetPeer(e)
    \/ HandleTableEvent
    \/ \E e \in Locals : CreateEndpoint(e) \/ DeleteEndpoint(e)
    \/ \E e \in Locals : Join(e) \/ JoinLinks(e) \/ Leave(e) \/ LeaveLast(e)
    \/ Routine

\* The routine keeps receiving and working, the watch's goroutine keeps taking
\* events, and a call that started goes on.  Nothing obliges anybody to create,
\* join, leave or delete, and no sender is preferred: there are finitely many
\* operations.
Fairness ==
    /\ WF_vars(Routine) /\ WF_vars(HandleTableEvent) /\ WF_vars(PeerFlush)
    /\ \A e \in Locals : WF_vars(LeaveLast(e))

Spec == Init /\ [][Next]_vars /\ Fairness

-----------------------------------------------------------------------------
(***************************************************************************)
(* Properties.                                                              *)
(***************************************************************************)

\* Nothing is on its way to the peer database.
Quiet ==
    /\ rt = Idle /\ inits = 0 /\ ~flush /\ ~locked
    /\ hand = None /\ events = <<>> /\ walk = {} /\ watch \in {"off", "on"}
    /\ \A e \in Locals : eps[e] \notin {"adding", "leaving"}

\* Two orders of the senders, which the code does not exclude, break
\* PeersFollowTable: the routine receives the end of a peer before the walk,
\* which read the table earlier, sends the peer; or it receives FLUSH before the
\* event that the cancelled watch's goroutine had in hand.
WalkFirst ==
    hand # None /\ hand' = None /\ hand.op = "del" => hand.peer \notin walk

HandFirst == flush /\ ~flush' => hand = None

\* Once every operation was applied, the peer database holds the endpoints of
\* overlay_peer_table and those of this node that joined; and nothing once the
\* network is deleted (peerAddOp, peerDeleteOp and peerFlushOp, whoever sent
\* the operation and in whatever order the senders were served).
PeersFollowTable ==
    Quiet =>
      /\ net = None => peerDb = {}
      /\ watch = "on" => peerDb = {e \in Remotes : table[e] = "known"} \cup
                                  {e \in Locals : eps[e] = "joined"}

\* The tunnel ends a peer's packets may be sent to.
Configured(e) == {x \in Remotes : KeyOf(x) = KeyOf(e) /\ FdbOf(x) \in nbrs}

\* At most one configuration per <ip,mac> is programmed at any time, even while
\* several endpoints have the key (the transient case of peerAddOp), and a
\* neighbour entry goes with its forwarding entry.
OneConfiguration ==
    \A e \in Remotes :
       /\ \A x, y \in Configured(e) : VtepOf[x] = VtepOf[y]
       /\ KeyOf(e) \in nbrs <=> Configured(e) # {}

\* Once every operation was applied, a sandbox sends the packets of a key to an
\* endpoint that is there: no neighbour is left of an endpoint that went, and
\* every key that has remote endpoints is configured, unless this node has it
\* too or an operation met a subnet that could not be initialised.
NeighborsFollowPeers ==
    Quiet /\ HasSandbox(net) =>
      \A e \in Remotes :
         LET there == SameKey(peerDb, e) IN
         /\ Configured(e) # {} =>
               \E x \in there \cap Remotes : FdbOf(x) \in nbrs
         /\ there # {} /\ there \subseteq Remotes \ missed => Configured(e) # {}

\* The joins that count are those of endpoints that joined or are between the
\* two parts of Join or Leave, and those that failed after they were counted.
\* A sandbox without a join is one that the routine brought back, or whose
\* subnet could not be initialised (joinSandbox, leaveSandbox).
SandboxCounted ==
    /\ net # None =>
         /\ net.joinCnt = lost + Cardinality({e \in Locals :
               eps[e] \in {"joining", "adding", "joined", "leaving", "left"}})
         /\ net.joinCnt > 0 => net.sbox # 0 /\ Ready(net)
         /\ net.sbox # 0 /\ net.joinCnt = 0 => revived \/ fails > 0
    /\ HasSandbox(old) => revived \/ fails > 0

\* Whoever sends an operation to the routine is served: Join, Leave and the
\* deletion of the network return, and the walk ends.
SendersServed ==
    /\ \A e \in Locals : eps[e] = "adding" ~> eps[e] = "joined"
    /\ \A e \in Locals : eps[e] = "leaving" ~> eps[e] = "created"
    /\ locked ~> ~locked /\ ~flush
    /\ walk # {} ~> walk = {}

====
