---------------------------- MODULE OverlayProofs ----------------------------
(***************************************************************************)
(* At most one configuration per <ip,mac>, for any set of endpoints, any    *)
(* number of networks, joins and failures, and every order in which the     *)
(* senders are served.                                                      *)
(*                                                                         *)
(* The neighbours change only where the routine programs a peer, removes    *)
(* one, or a sandbox comes or goes.  The property is inductive once it is   *)
(* known that the routine programs remote peers only; which follows from    *)
(* what the watch, the walk and the database hand it.                       *)
(***************************************************************************)
EXTENDS Overlay, FiniteSetTheorems, TLAPS

\* What the senders hand the routine: remote peers by the watch and the walk.
Handed ==
    /\ events \in Seq(Event) /\ hand \in Event \cup {None}
    /\ walk \subseteq Remotes
    /\ peerDb \subseteq Peers

\* What the routine works on.
Working ==
    /\ rt.at \in {"add", "join", "program"} => rt.peer \in Remotes
    /\ rt.at \in {"del", "unprogram"} => rt.peer \in Peers
    /\ rt.todo \subseteq Remotes

IInv == Handed /\ Working /\ OneConfiguration

\* Adding the neighbours of a remote peer keeps one configuration per key:
\* AddNeighbor is not forced, and so does nothing while the key has one.
LEMMA AddKeepsOne ==
  ASSUME NEW p \in Remotes, OneConfiguration, nbrs' = AddNeighbors(p)
  PROVE  OneConfiguration'
<1>1. CASE KeyOf(p) \in nbrs
  BY <1>1 DEF OneConfiguration, AddNeighbors, Configured, KeyOf, FdbOf
<1>2. CASE KeyOf(p) \notin nbrs
  <2>1. nbrs' = nbrs \cup {KeyOf(p), FdbOf(p)}
    BY <1>2 DEF AddNeighbors
  <2>2. Configured(p) = {}
    BY <1>2 DEF OneConfiguration
  <2>3. ASSUME NEW e \in Remotes
        PROVE  /\ \A x, y \in Configured(e)' : VtepOf[x] = VtepOf[y]
               /\ KeyOf(e) \in nbrs' <=> Configured(e)' # {}
    <3>1. CASE KeyOf(e) = KeyOf(p)
      BY <2>1, <2>2, <3>1, AddressAssumption DEF Configured, KeyOf, FdbOf, Peers
    <3>2. CASE KeyOf(e) # KeyOf(p)
      <4>2. Configured(e)' = Configured(e)
        BY <2>1, <3>2, AddressAssumption DEF Configured, KeyOf, FdbOf
      <4> QED BY <4>2, <2>1, <3>2, AddressAssumption DEF OneConfiguration, KeyOf, FdbOf
    <3> QED BY <3>1, <3>2
  <2> QED BY <2>3 DEF OneConfiguration
<1> QED BY <1>1, <1>2

\* Deleting the neighbours of a peer takes the whole configuration of its key.
LEMMA DeleteKeepsOne ==
  ASSUME NEW p \in Remotes, OneConfiguration, nbrs' = DeleteNeighbors(p)
  PROVE  OneConfiguration'
<1>1. CASE FdbOf(p) \notin nbrs
  BY <1>1 DEF OneConfiguration, DeleteNeighbors, Configured, KeyOf, FdbOf
<1>2. CASE FdbOf(p) \in nbrs
  <2>1. nbrs' = nbrs \ {KeyOf(p), FdbOf(p)}
    BY <1>2 DEF DeleteNeighbors
  <2>3. ASSUME NEW e \in Remotes
        PROVE  /\ \A x, y \in Configured(e)' : VtepOf[x] = VtepOf[y]
               /\ KeyOf(e) \in nbrs' <=> Configured(e)' # {}
    <3>1. CASE KeyOf(e) = KeyOf(p)
      <4>1. \A x \in Configured(p) : FdbOf(x) = FdbOf(p)
        <5>2. \A x \in Configured(p) : MacOf[x] = MacOf[p]
          BY DEF Configured, KeyOf
        <5> QED BY <1>2, <5>2 DEF FdbOf, OneConfiguration, Configured
      <4> QED BY <2>1, <3>1, <4>1 DEF Configured
    <3>2. CASE KeyOf(e) # KeyOf(p)
      BY <3>2, AddressAssumption, <2>1 DEF KeyOf, FdbOf, Configured, OneConfiguration
    <3> QED BY <3>1, <3>2
  <2> QED BY <2>3 DEF OneConfiguration
<1> QED BY <1>1, <1>2

\* A sandbox without neighbours has no configuration.
LEMMA NoneKeepsOne ==
  ASSUME nbrs' = {}
  PROVE  OneConfiguration'
BY DEF OneConfiguration, Configured

\* Neither has it another one while the neighbours do not change.
LEMMA SameKeepsOne ==
  ASSUME OneConfiguration, nbrs' = nbrs
  PROVE  OneConfiguration'
BY DEF OneConfiguration, Configured, KeyOf, FdbOf

\* The peer an operation goes on with is one INIT had left.
LEMMA ContinueWorks ==
  ASSUME Working, rt' \in Continue
  PROVE  Working'
<1>1. CASE rt' = Idle
  BY <1>1 DEF Working, Idle
<1>2. ASSUME NEW e \in rt.todo,
             rt' = [Idle EXCEPT !.at = "add", !.peer = e, !.todo = rt.todo \ {e}]
      PROVE  Working'
  BY <1>2 DEF Working, Idle
<1> QED BY <1>1, <1>2, Zenon DEF Continue

\* The property holds before the first network...
LEMMA InitOne == Init => IInv
BY DEF Init, IInv, Handed, Working, OneConfiguration, Configured, Idle, Peers,
       Event, KeyOf, FdbOf

\* ... and every step keeps it.
LEMMA StepOne == IInv /\ [Next]_vars => IInv'
<1> SUFFICES ASSUME IInv, [Next]_vars PROVE IInv'
  OBVIOUS
<1> USE DEF IInv
<1>1. CASE UNCHANGED vars
  BY <1>1, SameKeepsOne DEF vars, Handed, Working
<1>2. CASE CreateNetwork \/ AddDriverWatch \/ PeerFlush
  BY <1>2, SameKeepsOne DEF CreateNetwork, AddDriverWatch, PeerFlush, Handed,
     Working, apiVars, netVars, tableVars
<1>3. CASE WalkTable
  BY <1>3, SameKeepsOne DEF WalkTable, Handed, Working, apiVars, netVars
<1>4. CASE CancelWatch
  BY <1>4, SameKeepsOne DEF CancelWatch, Handed, Working, apiVars, netVars
<1>5. CASE DeleteNetwork
  BY <1>5, NoneKeepsOne DEF DeleteNetwork, Handed, Working, tableVars
<1>6. ASSUME NEW e \in Remotes, LearnPeer(e) \/ ForgetPeer(e)
      PROVE  IInv'
  <2>1. [op |-> "add", peer |-> e] \in Event /\ [op |-> "del", peer |-> e] \in Event
    BY DEF Event
  <2>2. events' \in Seq(Event)
    BY <1>6, <2>1 DEF LearnPeer, ForgetPeer, Told, Handed
  <2> QED BY <1>6, <2>2, SameKeepsOne DEF LearnPeer, ForgetPeer, Handed, Working
<1>7. CASE HandleTableEvent
  BY <1>7, SameKeepsOne DEF HandleTableEvent, Handed, Working
<1>8. ASSUME NEW e \in Locals, CreateEndpoint(e) \/ DeleteEndpoint(e) \/ Leave(e)
      PROVE  IInv'
  BY <1>8, SameKeepsOne DEF CreateEndpoint, DeleteEndpoint, Leave, Handed,
     Working, tableVars
<1>9. ASSUME NEW e \in Locals, Join(e)
      PROVE  IInv'
  BY <1>9, SameKeepsOne, NoneKeepsOne DEF Join, Handed, Working, tableVars
<1>10. ASSUME NEW e \in Locals, JoinLinks(e)
       PROVE  IInv'
  BY <1>10, SameKeepsOne DEF JoinLinks, Handed, Working, tableVars
<1>11. ASSUME NEW e \in Locals, LeaveLast(e)
       PROVE  IInv'
  BY <1>11, SameKeepsOne, NoneKeepsOne DEF LeaveLast, Handed, Working, tableVars
<1>12. CASE ReceiveEvent
  <2>1. hand.peer \in Remotes /\ hand.peer \in Peers
    BY <1>12 DEF ReceiveEvent, Handed, Event, Peers
  <2> QED
    BY <1>12, <2>1, SameKeepsOne, Zenon DEF ReceiveEvent, Handed, StartAdd, StartDelete, Working,
       Idle
<1>13. ASSUME NEW e \in Remotes, ReceiveWalk(e)
       PROVE  IInv'
  BY <1>13, SameKeepsOne DEF ReceiveWalk, StartAdd, Working, Handed, Idle, Peers
<1>14. ASSUME NEW e \in Locals, ReceiveLocal(e)
       PROVE  IInv'
  <2>1. Working' /\ peerDb' \subseteq Peers
    BY <1>14, Zenon DEF ReceiveLocal, StartAdd, StartDelete, Working, Handed, Idle, Peers
  <2> QED BY <1>14, <2>1, SameKeepsOne DEF ReceiveLocal, Handed, tableVars
<1>15. CASE ReceiveInit
  <2>1. Working'
    BY <1>15, Zenon DEF ReceiveInit, Working, Idle
  <2> QED BY <1>15, <2>1, SameKeepsOne, Zenon DEF ReceiveInit, Handed, tableVars
<1>16. CASE ReceiveFlush
  BY <1>16, SameKeepsOne DEF ReceiveFlush, Handed, Working, tableVars
<1>17. CASE Lookup
  <2>1. Working'
    <3>1. CASE rt' \in Continue
      BY <3>1, ContinueWorks
    <3>2. CASE rt' = [rt EXCEPT !.at = IF @ = "add" THEN "join" ELSE "unprogram",
                                !.sbox = net.sbox, !.net = net.gen]
      BY <1>17, <3>2 DEF Lookup, Working
    <3> QED BY <1>17, <3>1, <3>2 DEF Lookup
  <2> QED BY <1>17, <2>1, SameKeepsOne DEF Lookup, Handed, tableVars
<1>18. CASE PeerJoin
  <2>3. Working'
    <3>1. CASE rt' = [rt EXCEPT !.at = "program"]
      BY <1>18, <3>1 DEF PeerJoin, Working, Peers
    <3> QED BY <1>18, <3>1, ContinueWorks, Zenon DEF PeerJoin
  <2> QED BY <1>18, <2>3, SameKeepsOne, NoneKeepsOne DEF PeerJoin, Handed, tableVars
<1>19. CASE Program
  BY <1>19, AddKeepsOne, SameKeepsOne, ContinueWorks DEF Program, Working, Handed, tableVars
<1>20. CASE Unprogram
  <2>1. OneConfiguration'
    BY <1>20, DeleteKeepsOne, SameKeepsOne, Zenon DEF Unprogram
  <2>2. Working'
    <3>1. \A x \in peerDb : x \in Remotes \/ x \in Locals
      BY DEF Handed, Peers
    <3>2. CASE rt' = Idle
      BY <3>2 DEF Working, Idle
    <3>3. ASSUME NEW x \in Remotes, rt' = [Idle EXCEPT !.at = "add", !.peer = x]
          PROVE  Working'
      BY <3>3 DEF Working, Idle
    <3> QED BY <1>20, <3>1, <3>2, <3>3, Zenon DEF Unprogram, Candidates
  <2> QED BY <1>20, <2>1, <2>2, Zenon DEF Unprogram, Handed, tableVars
<1> QED
  BY <1>1, <1>2, <1>3, <1>4, <1>5, <1>6, <1>7, <1>8, <1>9, <1>10, <1>11, <1>12,
     <1>13, <1>14, <1>15, <1>16, <1>17, <1>18, <1>19, <1>20 DEF Next, Routine

\* Whatever the order of the operations, at most one configuration is
\* programmed per <ip,mac> and it is whole (peerAddOp, peerDeleteOp).
THEOREM OneConfigurationAlways == Spec => []OneConfiguration
<1>1. IInv => OneConfiguration
  BY DEF IInv
<1> QED BY InitOne, StepOne, <1>1, PTL DEF Spec

-----------------------------------------------------------------------------
(***************************************************************************)
(* What the routine is doing, field by field.                               *)
(***************************************************************************)
Doing(at, peer, left, sbox, nw, todo) ==
    [at |-> at, peer |-> peer, left |-> left, sbox |-> sbox, net |-> nw, todo |-> todo]

Record == rt = Doing(rt.at, rt.peer, rt.left, rt.sbox, rt.net, rt.todo)

LEMMA ContinueDoing ==
  ASSUME rt' \in Continue
  PROVE  \/ rt.todo = {} /\ rt' = Doing("idle", None, 0, 0, 0, {})
         \/ \E e \in rt.todo : rt' = Doing("add", e, 0, 0, 0, rt.todo \ {e})
BY Zenon DEF Continue, Idle, Doing

LEMMA StartAddDoing ==
  ASSUME NEW e, StartAdd(e)
  PROVE  /\ e \in Locals => rt' = Doing("idle", None, 0, 0, 0, {})
         /\ e \notin Locals => rt' = Doing("add", e, 0, 0, 0, {})
BY Zenon DEF StartAdd, Idle, Doing

LEMMA StartDeleteDoing ==
  ASSUME NEW e, StartDelete(e)
  PROVE  rt' = Doing("del", e, Cardinality(SameKey(peerDb', e)), 0, 0, {})
BY Zenon DEF StartDelete, Idle, Doing

LEMMA LookupDoing ==
  ASSUME Record, Lookup
  PROVE  \/ ~HasSandbox(net) /\ rt' \in Continue
         \/ /\ HasSandbox(net)
            /\ rt' = Doing(IF rt.at = "add" THEN "join" ELSE "unprogram", rt.peer, rt.left,
                           net.sbox, net.gen, rt.todo)
  BY Zenon DEF Lookup, Record, Doing

LEMMA PeerJoinDoing ==
  ASSUME Record, PeerJoin
  PROVE  \/ rt' \in Continue
         \/ rt' = Doing("program", rt.peer, rt.left, rt.sbox, rt.net, rt.todo)
  BY Zenon DEF PeerJoin, Record, Doing

LEMMA UnprogramDoing ==
  ASSUME Unprogram
  PROVE  \/ rt' = Doing("idle", None, 0, 0, 0, {})
         \/ \E x \in Candidates(rt.peer) : rt' = Doing("add", x, 0, 0, 0, {})
BY Zenon DEF Unprogram, Idle, Doing

LEMMA InitDoing ==
  ASSUME ReceiveInit
  PROVE  \E S \in Selections(peerDb) :
            IF S \cap Remotes = {} THEN UNCHANGED rt
            ELSE \E e \in S \cap Remotes :
                    rt' = Doing("add", e, 0, 0, 0, (S \cap Remotes) \ {e})
BY Zenon DEF ReceiveInit, Idle, Doing

\* Every operation starts from an idle routine, and leaves all its fields.
LEMMA RecordStep ==
  ASSUME Record, [Next]_vars
  PROVE  Record'
<1>1. CASE UNCHANGED rt
  BY <1>1 DEF Record, Doing
<1>2. ASSUME NEW a, NEW b, NEW c, NEW d, NEW f, NEW g, rt' = Doing(a, b, c, d, f, g)
      PROVE  Record'
  BY <1>2 DEF Record, Doing
<1>3. CASE rt' \in Continue
  BY <1>2, <1>3, ContinueDoing, Zenon
<1>4. CASE Lookup
  BY <1>2, <1>3, <1>4, LookupDoing
<1>5. CASE PeerJoin
  BY <1>2, <1>3, <1>5, PeerJoinDoing
<1>6. CASE Program
  BY <1>3, <1>6 DEF Program
<1>7. CASE Unprogram
  BY <1>2, <1>7, UnprogramDoing
<1>8. CASE ReceiveInit
  BY <1>8, InitDoing, <1>1, <1>2, Zenon
<1>9. ASSUME NEW e, StartAdd(e) \/ StartDelete(e)
      PROVE  Record'
  BY <1>2, <1>9, StartAddDoing, StartDeleteDoing
<1>10. CASE ReceiveEvent \/ (\E e \in Remotes : ReceiveWalk(e)) \/ \E e \in Locals : ReceiveLocal(e)
  BY <1>9, <1>10 DEF ReceiveEvent, ReceiveWalk, ReceiveLocal
<1>11. CASE ReceiveFlush
  BY <1>1, <1>11 DEF ReceiveFlush
<1>12. CASE UNCHANGED vars
  BY <1>1, <1>12 DEF vars
<1>13. CASE \/ CreateNetwork \/ AddDriverWatch \/ WalkTable
            \/ CancelWatch \/ DeleteNetwork \/ PeerFlush \/ HandleTableEvent
  BY <1>1, <1>13, Zenon DEF CreateNetwork, AddDriverWatch, WalkTable, CancelWatch, DeleteNetwork,
     PeerFlush, HandleTableEvent
<1>14. CASE \E e \in Remotes : LearnPeer(e) \/ ForgetPeer(e)
  BY <1>1, <1>14 DEF LearnPeer, ForgetPeer
<1>15. CASE \E e \in Locals : \/ CreateEndpoint(e) \/ DeleteEndpoint(e) \/ Join(e)
                             \/ JoinLinks(e) \/ Leave(e) \/ LeaveLast(e)
  BY <1>15, <1>1, Zenon DEF CreateEndpoint, DeleteEndpoint, Join, JoinLinks, Leave, LeaveLast
<1> QED BY <1>4, <1>5, <1>6, <1>7, <1>8, <1>10, <1>11, <1>12, <1>13, <1>14, <1>15
     DEF Next, Routine

-----------------------------------------------------------------------------
(***************************************************************************)
(* The joins of the network and its sandbox.                                *)
(***************************************************************************)

\* A network has a sandbox when it was initialised without an error.
Shape(n) ==
    /\ n \in NetRecord
    /\ n.sbox # 0 <=> n.sboxInit /\ ~n.initErr
    /\ n.initErr => n.sboxInit

EpState == {"none", "created", "joining", "adding", "joined", "leaving", "left"}

\* The endpoints whose join counts.
Counted(f) == {e \in Locals : f[e] \in {"joining", "adding", "joined", "leaving", "left"}}

\* What the networks, the endpoints and the watch know of each other.
Networks ==
    /\ net = None \/ Shape(net)
    /\ old = None \/ Shape(old)
    /\ gen \in Nat /\ epoch \in Nat /\ lost \in Nat /\ fails \in Nat
    /\ rt.at = "join" => (net # None /\ rt.net = net.gen) \/ old # None
    /\ eps \in [Locals -> EpState]
    /\ watch # "off" => net # None
    /\ watch = "off" => \A e \in Locals : eps[e] = "none"
    /\ net = None => lost = 0
    /\ lost > 0 => fails > 0

SandboxInv == Networks /\ SandboxCounted

\* joinSandbox, up to its counter: what is initialised stays so, a new sandbox
\* is brought or none, and an error of a network without one is a failure.
LEMMA InitializedShape ==
  ASSUME epoch \in Nat, NEW n, Shape(n), NEW fault \in Faults(n)
  PROVE  /\ Shape(Initialized(n, fault))
         /\ Initialized(n, fault).joinCnt = n.joinCnt
         /\ Initialized(n, fault).gen = n.gen
         /\ \/ Initialized(n, fault).sbox = n.sbox
            \/ Initialized(n, fault).sbox = 0 /\ fault = "sandbox"
            \/ Initialized(n, fault).sbox = epoch + 1 /\ Initializes(n, fault)
         /\ n.sbox # 0 => Initialized(n, fault).sbox = n.sbox
         /\ Ready(n) /\ n.sbox # 0 => Initialized(n, fault) = n
         /\ ~Ready(Initialized(n, fault)) => fault # "nothing" \/ n.initErr
         /\ n.initErr => ~Initializes(n, fault) /\ Initialized(n, fault) = n
         /\ Initialized(n, fault).sboxInit
<1> DEFINE n1 == IF n.sboxInit THEN n
                 ELSE [n EXCEPT !.sboxInit = TRUE,
                                !.initErr = fault = "sandbox",
                                !.sbox = IF fault = "sandbox" THEN 0 ELSE epoch + 1]
           n2 == IF n1.initErr \/ n1.subInit THEN n1
                 ELSE [n1 EXCEPT !.subInit = fault # "subnet"]
<1>1. Initialized(n, fault) = n2
  BY DEF Initialized
<1>3. /\ Shape(n1) /\ n1.joinCnt = n.joinCnt /\ n1.gen = n.gen /\ n1.subInit = n.subInit
      /\ n1.sboxInit
      /\ n.sboxInit => n1 = n
      /\ ~n.sboxInit => n1.initErr = (fault = "sandbox")
                        /\ n1.sbox = IF fault = "sandbox" THEN 0 ELSE epoch + 1
  <2>1. CASE n.sboxInit
    BY <2>1
  <2>2. CASE ~n.sboxInit /\ fault = "sandbox"
    BY <2>2, Zenon DEF Shape, NetRecord
  <2>3. CASE ~n.sboxInit /\ fault # "sandbox"
    <3>0. PICK b \in Nat : b = epoch + 1 /\ b # 0
      OBVIOUS
    <3> QED BY <2>3, <3>0, Zenon DEF Shape, NetRecord
  <2> QED BY <2>1, <2>2, <2>3
<1> HIDE DEF n1
<1>4. /\ Shape(n2) /\ n2.joinCnt = n1.joinCnt /\ n2.gen = n1.gen /\ n2.sbox = n1.sbox
      /\ n2.initErr = n1.initErr /\ n2.sboxInit = n1.sboxInit
      /\ n1.subInit \/ n1.initErr => n2 = n1
      /\ n2.subInit = (n1.subInit \/ (~n1.initErr /\ fault # "subnet"))
  BY <1>3, Zenon DEF Shape, NetRecord
<1> HIDE DEF n2
<1> QED BY <1>1, <1>3, <1>4, Zenon DEF Initializes, Ready, Shape

\* joinSandbox with its counter, which goes up when there is no error.
LEMMA JoinShape ==
  ASSUME epoch \in Nat, NEW n, Shape(n), NEW fault \in Faults(n), NEW inc \in BOOLEAN,
         NEW m, m = JoinSandbox(n, fault, inc)
  PROVE  /\ Shape(m) /\ m.gen = n.gen
         /\ m.joinCnt = n.joinCnt + (IF Ready(m) /\ inc THEN 1 ELSE 0)
         /\ m.sbox = n.sbox \/ m.sbox = 0 \/ (m.sbox = epoch + 1 /\ Initializes(n, fault))
         /\ n.sbox # 0 => m.sbox = n.sbox
         /\ Ready(n) /\ n.sbox # 0 => Ready(m)
         /\ Ready(m) => m.sbox # 0
         /\ ~Ready(m) => fault # "nothing" \/ (n.initErr /\ m.sbox = n.sbox)
<1> DEFINE n1 == Initialized(n, fault)
<1>1. /\ Shape(n1) /\ n1.joinCnt = n.joinCnt /\ n1.gen = n.gen
      /\ n1.sbox = n.sbox \/ n1.sbox = 0 \/ (n1.sbox = epoch + 1 /\ Initializes(n, fault))
      /\ n.sbox # 0 => n1.sbox = n.sbox
      /\ Ready(n) /\ n.sbox # 0 => n1 = n
      /\ ~Ready(n1) => fault # "nothing" \/ n.initErr
      /\ n.initErr => n1 = n
      /\ n1.sboxInit
  BY InitializedShape
<1>2. m = IF Ready(n1) /\ inc THEN [n1 EXCEPT !.joinCnt = @ + 1] ELSE n1
  BY DEF JoinSandbox
<1> HIDE DEF n1
<1>3. /\ m \in NetRecord /\ m.gen = n1.gen /\ m.sbox = n1.sbox /\ m.sboxInit = n1.sboxInit
      /\ m.initErr = n1.initErr /\ m.subInit = n1.subInit
      /\ m.joinCnt = n1.joinCnt + (IF Ready(n1) /\ inc THEN 1 ELSE 0)
  <2>1. n1 \in NetRecord /\ n1.joinCnt \in Nat
    BY <1>1 DEF Shape, NetRecord
  <2>2. PICK c \in Nat : c = n1.joinCnt + 1
    BY <2>1
  <2>3. CASE Ready(n1) /\ inc
    BY <1>2, <2>2, <2>3, <2>1 DEF NetRecord
  <2>4. CASE ~(Ready(n1) /\ inc)
    BY <1>2, <2>1, <2>4
  <2> QED BY <2>3, <2>4, Zenon
<1> QED BY <1>1, <1>3 DEF Shape, Ready

\* leaveSandbox: the last leave takes the sandbox.
LEMMA LeaveShape ==
  ASSUME NEW n, Shape(n), n.joinCnt > 0, NEW m, m = LeaveSandbox(n)
  PROVE  /\ Shape(m) /\ m.gen = n.gen /\ m.joinCnt = n.joinCnt - 1
         /\ IF n.joinCnt = 1 THEN m.sbox = 0
            ELSE m.sbox = n.sbox /\ (Ready(m) <=> Ready(n))
<1>1. n \in NetRecord /\ n.joinCnt \in Nat /\ n.gen \in Nat
  BY DEF Shape, NetRecord
<1>2. CASE n.joinCnt = 1
  <2>2. /\ m \in NetRecord /\ m.gen = n.gen /\ m.joinCnt = 0 /\ m.sbox = 0
        /\ ~m.sboxInit /\ ~m.initErr
    BY <1>1, <1>2, Zenon DEF NewNet, NetRecord, LeaveSandbox
  <2> QED BY <1>2, <2>2 DEF Shape
<1>3. CASE n.joinCnt # 1
  BY <1>1, <1>3 DEF LeaveSandbox, NetRecord, Shape, Ready
<1> QED BY <1>2, <1>3

\* The endpoints whose join counts, when one of them goes on.
LEMMA CountedStep ==
  ASSUME eps \in [Locals -> EpState], NEW e \in Locals, NEW s \in EpState
  PROVE  LET f == [eps EXCEPT ![e] = s]
             in == {"joining", "adding", "joined", "leaving", "left"}
         IN  /\ f \in [Locals -> EpState]
             /\ Cardinality(Counted(eps)) \in Nat
             /\ (eps[e] \in in <=> s \in in) => Counted(f) = Counted(eps)
             /\ eps[e] \notin in /\ s \in in =>
                   Cardinality(Counted(f)) = Cardinality(Counted(eps)) + 1
             /\ eps[e] \in in /\ s \notin in =>
                   /\ Cardinality(Counted(f)) = Cardinality(Counted(eps)) - 1
                   /\ Cardinality(Counted(eps)) > 0
<1> DEFINE f == [eps EXCEPT ![e] = s]
           in == {"joining", "adding", "joined", "leaving", "left"}
           C == Counted(eps)
           D == Counted(f)
<1>2. IsFiniteSet(C) /\ Cardinality(C) \in Nat
  BY PeersAssumption, FS_Subset, FS_CardinalityType DEF Counted
<1> HIDE DEF C, D
<1>6. e \notin C => Cardinality(C \cup {e}) = Cardinality(C) + 1
  BY <1>2, FS_AddElement
<1>7. e \in C => Cardinality(C \ {e}) = Cardinality(C) - 1 /\ Cardinality(C) > 0
  BY <1>2, FS_RemoveElement, FS_EmptySet
<1> QED BY <1>2, <1>6, <1>7, Zenon DEF C, D, Counted

\* The routine looks for a network that is the driver's, or was until now.
JoinKnown == rt.at = "join" => (net # None /\ rt.net = net.gen) \/ old # None

\* Steps that leave the networks and the counted joins alone.
LEMMA SandboxFrame ==
  ASSUME SandboxInv, UNCHANGED <<net, old, gen, epoch, lost, fails, revived>>,
         eps' \in [Locals -> EpState], Counted(eps') = Counted(eps), JoinKnown',
         watch' # "off" => net # None,
         watch' = "off" => \A e \in Locals : eps'[e] = "none"
  PROVE  SandboxInv'
  BY Zenon DEF SandboxInv, Networks, JoinKnown, Shape, SandboxCounted, Counted, HasSandbox, Ready

\* The steps of an endpoint that are none of its joins.
LEMMA SandboxEndpoint ==
  ASSUME SandboxInv, UNCHANGED <<net, old, gen, epoch, lost, fails, revived, watch>>,
         JoinKnown', watch # "off", NEW e \in Locals, NEW s \in EpState,
         eps' = [eps EXCEPT ![e] = s],
         eps[e] \in {"joining", "adding", "joined", "leaving", "left"}
           <=> s \in {"joining", "adding", "joined", "leaving", "left"}
  PROVE  SandboxInv'
  BY CountedStep, SandboxFrame, Zenon DEF SandboxInv, Networks

\* The routine between its operations does not join.
LEMMA JoinKnownContinue ==
  ASSUME rt' \in Continue
  PROVE  JoinKnown'
<1>1. CASE rt' = Idle
  BY <1>1 DEF JoinKnown, Idle
<1>2. ASSUME NEW e, rt' = [Idle EXCEPT !.at = "add", !.peer = e, !.todo = rt.todo \ {e}]
      PROVE  JoinKnown'
  BY <1>2 DEF JoinKnown, Idle
<1> QED BY <1>1, <1>2, Zenon DEF Continue

\* An endpoint that is there has a network.
LEMMA EndpointHasNetwork ==
  ASSUME SandboxInv, NEW e \in Locals, eps[e] # "none"
  PROVE  watch # "off" /\ net # None /\ Shape(net)
BY DEF SandboxInv, Networks

LEMMA SandboxCreate ==
  ASSUME SandboxInv, CreateNetwork
  PROVE  SandboxInv'
<1>1. /\ net = None /\ net' = NewNet(gen + 1) /\ gen' = gen + 1 /\ watch' = "joined"
      /\ UNCHANGED <<old, epoch, lost, fails, revived, eps, rt>>
  BY DEF CreateNetwork, apiVars
<1>4. gen + 1 \in Nat
  BY DEF SandboxInv, Networks
<1>5. /\ Shape(net') /\ net'.joinCnt = 0 /\ net'.sbox = 0 /\ net' # None
  <2>1. PICK g \in Nat : net' = NewNet(g)
    BY <1>1, <1>4
  <2>2. /\ net' \in NetRecord /\ net'.joinCnt = 0 /\ net'.sbox = 0
        /\ ~net'.sboxInit /\ ~net'.initErr
    BY <2>1 DEF NewNet, NetRecord
  <2> QED BY <2>2, PeersAssumption DEF Shape
<1> QED
  BY <1>1, <1>4, <1>5, FS_EmptySet DEF SandboxInv, Networks, Shape, SandboxCounted, Counted,
     HasSandbox, Ready

LEMMA SandboxDelete ==
  ASSUME SandboxInv, DeleteNetwork
  PROVE  SandboxInv'
  BY FS_EmptySet DEF DeleteNetwork, tableVars, SandboxInv, Networks, Shape, Counted,
     SandboxCounted, HasSandbox

\* What joinSandbox leaves besides the network.
LEMMA Brought ==
  ASSUME epoch \in Nat, fails \in Nat, NEW n, NEW fault, SandboxBrought(n, fault)
  PROVE  /\ epoch' \in Nat /\ fails' \in Nat
         /\ fails > 0 => fails' > 0
         /\ fault # "nothing" => fails' > 0
         /\ epoch' = epoch + (IF Initializes(n, fault) THEN 1 ELSE 0)
BY DEF SandboxBrought

LEMMA SandboxJoin ==
  ASSUME SandboxInv, NEW e \in Locals, Join(e)
  PROVE  SandboxInv'
<1>1. eps[e] = "created" /\ UNCHANGED <<old, gen, lost, rt, watch, revived>>
  BY DEF Join, tableVars
<1>2. watch # "off" /\ net # None /\ Shape(net)
  BY <1>1, EndpointHasNetwork
<1>3. PICK fault \in Faults(net) : net' = JoinSandbox(net, fault, TRUE) /\ SandboxBrought(net, fault)
  BY Zenon DEF Join
<1>4. PICK s \in EpState : /\ eps' = [eps EXCEPT ![e] = s]
                           /\ s = IF Ready(net') THEN "joining" ELSE "created"
  BY Zenon DEF Join, EpState
<1>5. epoch \in Nat /\ lost \in Nat /\ fails \in Nat /\ eps \in [Locals -> EpState]
  BY DEF SandboxInv, Networks
<1>6. /\ Shape(net') /\ net'.gen = net.gen
      /\ net'.joinCnt = net.joinCnt + (IF Ready(net') THEN 1 ELSE 0)
      /\ net.sbox # 0 => net'.sbox = net.sbox
      /\ Ready(net) /\ net.sbox # 0 => Ready(net')
      /\ Ready(net') => net'.sbox # 0
      /\ ~Ready(net') => fault # "nothing" \/ (net.initErr /\ net'.sbox = net.sbox)
  <2>1. PICK m : m = JoinSandbox(net, fault, TRUE)
    BY Zenon
  <2>2. /\ Shape(m) /\ m.gen = net.gen
        /\ m.joinCnt = net.joinCnt + (IF Ready(m) /\ TRUE THEN 1 ELSE 0)
        /\ net.sbox # 0 => m.sbox = net.sbox
        /\ Ready(net) /\ net.sbox # 0 => Ready(m)
        /\ Ready(m) => m.sbox # 0
        /\ ~Ready(m) => fault # "nothing" \/ (net.initErr /\ m.sbox = net.sbox)
    BY <1>2, <1>5, <2>1, JoinShape, Zenon
  <2> QED BY <2>2, <1>3, <2>1, Zenon
<1>8. /\ epoch' \in Nat /\ fails' \in Nat /\ (fails > 0 => fails' > 0)
      /\ fault # "nothing" => fails' > 0
  BY <1>3, <1>5, Brought
<1>9. /\ eps' \in [Locals -> EpState]
      /\ Cardinality(Counted(eps)) \in Nat
      /\ Cardinality(Counted(eps')) = Cardinality(Counted(eps)) + (IF Ready(net') THEN 1 ELSE 0)
  <2>1. CASE Ready(net')
    BY <1>1, <1>4, <1>5, <2>1, CountedStep, Zenon
  <2>2. CASE ~Ready(net')
    <3>2. /\ eps' \in [Locals -> EpState] /\ Counted(eps') = Counted(eps)
          /\ Cardinality(Counted(eps)) \in Nat
      BY <1>1, <1>4, <1>5, <2>2, CountedStep, Zenon
    <3> QED BY <2>2, <3>2
  <2> QED BY <2>1, <2>2
<1>10. Networks'
  BY <1>1, <1>2, <1>6, PeersAssumption, <1>8, <1>9 DEF SandboxInv, Networks, Shape
<1>11. net.joinCnt = lost + Cardinality(Counted(eps)) /\ net.joinCnt \in Nat
  BY <1>2 DEF SandboxInv, SandboxCounted, Counted, Shape, NetRecord
<1>12. net'.joinCnt = lost' + Cardinality(Counted(eps'))
  BY <1>1, <1>5, <1>6, <1>9, <1>11
<1> QED
  BY <1>10, <1>12, <1>2, <1>6, <1>11, <1>8, <1>5, <1>1 DEF SandboxInv, SandboxCounted, Counted,
     HasSandbox, Ready

LEMMA SandboxLinks ==
  ASSUME SandboxInv, NEW e \in Locals, JoinLinks(e)
  PROVE  SandboxInv'
<1>1. eps[e] = "joining" /\ UNCHANGED <<net, old, gen, epoch, rt, watch, revived>>
  BY DEF JoinLinks, netVars, tableVars
<1>2. watch # "off" /\ net # None /\ Shape(net)
  BY <1>1, EndpointHasNetwork
<1>3. lost \in Nat /\ fails \in Nat /\ eps \in [Locals -> EpState]
  BY DEF SandboxInv, Networks
<1>4. CASE eps' = [eps EXCEPT ![e] = "adding"] /\ UNCHANGED <<lost, fails>>
  <2> QED BY <1>1, <1>2, <1>4, SandboxEndpoint, Zenon DEF SandboxInv, Networks, JoinKnown, EpState
<1>5. CASE eps' = [eps EXCEPT ![e] = "created"] /\ lost' = lost + 1 /\ fails' = fails + 1
  <2>1. /\ eps' \in [Locals -> EpState]
        /\ Cardinality(Counted(eps)) \in Nat
        /\ Cardinality(Counted(eps')) = Cardinality(Counted(eps)) - 1
    <3> QED BY <1>1, <1>3, <1>5, CountedStep, Zenon DEF EpState
  <2> QED
    BY <1>3, <1>5, <1>1, <1>2, <2>1 DEF SandboxInv, Networks, Shape, SandboxCounted, Counted,
       HasSandbox, Ready
<1> QED BY <1>4, <1>5 DEF JoinLinks

LEMMA SandboxLeave ==
  ASSUME SandboxInv, NEW e \in Locals, LeaveLast(e)
  PROVE  SandboxInv'
<1>1. /\ eps[e] = "left" /\ eps' = [eps EXCEPT ![e] = "created"] /\ net' = LeaveSandbox(net)
      /\ UNCHANGED <<old, gen, epoch, lost, fails, rt, watch, revived>>
  BY DEF LeaveLast, tableVars
<1>2. watch # "off" /\ net # None /\ Shape(net)
  BY <1>1, EndpointHasNetwork
<1>3. lost \in Nat /\ fails \in Nat /\ eps \in [Locals -> EpState] /\ net.joinCnt \in Nat
  BY <1>2 DEF SandboxInv, Networks, Shape, NetRecord
<1>4. /\ eps' \in [Locals -> EpState]
      /\ Cardinality(Counted(eps)) \in Nat /\ Cardinality(Counted(eps)) > 0
      /\ Cardinality(Counted(eps')) = Cardinality(Counted(eps)) - 1
  <2>1. "created" \in EpState
    BY DEF EpState
  <2> QED BY <1>1, <1>3, <2>1, CountedStep, Zenon
<1>5. net.joinCnt = lost + Cardinality(Counted(eps))
  BY <1>2 DEF SandboxInv, SandboxCounted, Counted
<1>6. /\ Shape(net') /\ net'.gen = net.gen /\ net'.joinCnt = net.joinCnt - 1
      /\ IF net.joinCnt = 1 THEN net'.sbox = 0
         ELSE net'.sbox = net.sbox /\ (Ready(net') <=> Ready(net))
  <2>1. net.joinCnt > 0
    BY <1>3, <1>4, <1>5
  <2> QED BY <1>1, <1>2, <2>1, LeaveShape
<1>11. /\ net'.joinCnt > 0 => net'.sbox # 0 /\ Ready(net')
       /\ net'.joinCnt = 0 => net'.sbox = 0
  BY <1>3, <1>6, <1>2, <1>4, <1>5 DEF SandboxInv, SandboxCounted
<1> QED
  BY <1>1, <1>2, <1>4, <1>6, PeersAssumption, <1>5, <1>3, <1>11 DEF SandboxInv, SandboxCounted,
     Counted, HasSandbox, Ready, Networks, Shape

LEMMA SandboxPeerJoin ==
  ASSUME Record, SandboxInv, PeerJoin
  PROVE  SandboxInv'
<1> DEFINE here == net # None /\ rt.net = net.gen
           n == IF here THEN net ELSE old
<1>1. /\ rt.at = "join" /\ UNCHANGED <<gen, eps, lost, watch>>
  BY DEF PeerJoin, apiVars, tableVars
<1>2. n # None /\ Shape(n)
  BY <1>1, Zenon DEF SandboxInv, Networks
<1>3. PICK fault \in Faults(n) :
         /\ IF here THEN net' = JoinSandbox(n, fault, FALSE) /\ UNCHANGED old
            ELSE old' = JoinSandbox(n, fault, FALSE) /\ UNCHANGED net
         /\ SandboxBrought(n, fault)
         /\ revived' = (revived \/ Initializes(n, fault))
  BY Zenon DEF PeerJoin
<1>4. epoch \in Nat /\ lost \in Nat /\ fails \in Nat
  BY DEF SandboxInv, Networks
<1> HIDE DEF n
<1>5. PICK m : m = JoinSandbox(n, fault, FALSE)
  BY Zenon
<1>6. /\ Shape(m) /\ m.joinCnt = n.joinCnt
      /\ m.sbox = n.sbox \/ m.sbox = 0 \/ (m.sbox = epoch + 1 /\ Initializes(n, fault))
      /\ n.sbox # 0 => m.sbox = n.sbox
      /\ Ready(n) /\ n.sbox # 0 => Ready(m)
  <2>2. m.joinCnt = n.joinCnt + 0
    BY <1>2, <1>4, <1>5, JoinShape, Zenon
  <2>4. /\ Shape(m)
        /\ m.sbox = n.sbox \/ m.sbox = 0 \/ (m.sbox = epoch + 1 /\ Initializes(n, fault))
        /\ n.sbox # 0 => m.sbox = n.sbox
        /\ Ready(n) /\ n.sbox # 0 => Ready(m)
    BY <1>2, <1>4, <1>5, JoinShape, Zenon
  <2> QED BY <1>2, <2>2, <2>4 DEF Shape, NetRecord
<1>7. m # None
  BY <1>6, PeersAssumption, Zenon DEF Shape
<1>8. epoch' \in Nat /\ fails' \in Nat /\ (fails > 0 => fails' > 0)
  BY <1>3, <1>4, Brought, Zenon
<1>9. JoinKnown'
  BY PeerJoinDoing, JoinKnownContinue DEF Doing, JoinKnown
<1>10. revived \/ fails > 0 => revived' \/ fails' > 0
  BY <1>3, <1>8, Zenon
<1>11. m.sbox # 0 /\ n.sbox = 0 => revived'
  BY <1>3, <1>6, Zenon
<1>12. CASE here
  <2>1. n = net /\ net' = m /\ UNCHANGED old
    BY <1>3, <1>5, <1>12, Zenon DEF n
  <2>2. Networks'
    BY <1>1, <1>6, <1>7, <1>8, <1>9, <1>12, <2>1, Zenon DEF SandboxInv, Networks, Shape, JoinKnown
  <2>4. HasSandbox(old) => revived' \/ fails' > 0
    BY <1>10 DEF SandboxInv, SandboxCounted
  <2>5. SandboxCounted'
    BY <1>1, <2>1, <1>6, <1>10, <1>11, <1>12, <2>4 DEF SandboxCounted, Counted, HasSandbox, Ready,
       SandboxInv
  <2> QED BY <2>2, <2>5 DEF SandboxInv
<1>13. CASE ~here
  <2>1. n = old /\ old' = m /\ UNCHANGED net
    BY <1>3, <1>5, <1>13, Zenon DEF n
  <2> QED
    BY <1>1, <1>6, <1>7, <1>8, <1>9, <2>1, <1>10, <1>2, <1>11 DEF SandboxInv, SandboxCounted,
       Counted, HasSandbox, Ready, Networks, Shape, JoinKnown
<1> QED BY <1>12, <1>13, Zenon

LEMMA SandboxRoutine ==
  ASSUME Record, SandboxInv, Routine, ~PeerJoin
  PROVE  SandboxInv'
<1>2. ASSUME UNCHANGED <<net, old, gen, epoch, lost, fails, revived, eps, watch>>, JoinKnown'
      PROVE  SandboxInv'
  BY <1>2, SandboxFrame DEF SandboxInv, Networks
<1>3. ASSUME NEW e, StartAdd(e) \/ StartDelete(e)
      PROVE  JoinKnown'
  BY <1>3, StartAddDoing, StartDeleteDoing DEF Doing, JoinKnown
<1>4. CASE ReceiveEvent
  BY <1>2, <1>3, <1>4 DEF ReceiveEvent, netVars, apiVars
<1>5. ASSUME NEW e \in Remotes, ReceiveWalk(e)
      PROVE  SandboxInv'
  BY <1>2, <1>3, <1>5 DEF ReceiveWalk, netVars, apiVars
<1>6. ASSUME NEW e \in Locals, ReceiveLocal(e)
      PROVE  SandboxInv'
  <2>4. PICK t \in {"joined", "left"} : eps' = [eps EXCEPT ![e] = t]
    BY <1>6, Zenon DEF ReceiveLocal
  <2> QED
    BY <1>3, <1>6, EndpointHasNetwork, <2>4, SandboxEndpoint, Zenon DEF ReceiveLocal, netVars,
       tableVars, EpState
<1>7. CASE ReceiveInit
  <2>1. rt.at # "join" /\ UNCHANGED <<net, old, gen, epoch, lost, fails, revived, eps, watch>>
    BY <1>7, Zenon DEF ReceiveInit, netVars, apiVars, tableVars, Idle
  <2> QED BY <1>2, <2>1, <1>7, InitDoing DEF Doing, JoinKnown
<1>8. CASE ReceiveFlush
  BY <1>8, <1>2 DEF ReceiveFlush, apiVars, tableVars, Idle, JoinKnown
<1>9. CASE Lookup
  BY <1>9, JoinKnownContinue, LookupDoing, <1>2 DEF Lookup, netVars, apiVars, tableVars, Doing,
     JoinKnown, HasSandbox
<1>10. CASE Program
  BY <1>2, <1>10, JoinKnownContinue DEF Program, netVars, apiVars, tableVars
<1>11. CASE Unprogram
  <2>1. UNCHANGED <<net, old, gen, epoch, lost, fails, revived, eps, watch>>
    BY <1>11, Zenon DEF Unprogram, netVars, apiVars, tableVars
  <2> QED BY <1>2, <2>1, <1>11, UnprogramDoing DEF Doing, JoinKnown
<1> QED BY <1>4, <1>5, <1>6, <1>7, <1>8, <1>9, <1>10, <1>11 DEF Routine

LEMMA SandboxStep ==
  ASSUME Record, SandboxInv, [Next]_vars
  PROVE  SandboxInv'
<1>1. eps \in [Locals -> EpState] /\ JoinKnown
  BY DEF SandboxInv, Networks, JoinKnown
<1>2. ASSUME UNCHANGED <<net, old, gen, epoch, lost, fails, revived, eps, rt>>,
             watch' # "off" => net # None,
             watch' = "off" => \A e \in Locals : eps[e] = "none"
      PROVE  SandboxInv'
  BY <1>1, <1>2, SandboxFrame, Zenon DEF JoinKnown
<1>3. ASSUME UNCHANGED <<net, old, gen, epoch, lost, fails, revived, eps, rt, watch>>
      PROVE  SandboxInv'
  BY <1>2, <1>3, Zenon DEF SandboxInv, Networks
<1>4. CASE AddDriverWatch \/ WalkTable
  BY <1>2, <1>4, Zenon DEF AddDriverWatch, WalkTable, netVars, apiVars, SandboxInv, Networks
<1>5. CASE CancelWatch
  BY <1>2, <1>5 DEF CancelWatch, netVars, apiVars
<1>6. CASE PeerFlush \/ HandleTableEvent
  BY <1>3, <1>6 DEF PeerFlush, HandleTableEvent, netVars, apiVars, tableVars
<1>7. CASE \E e \in Remotes : LearnPeer(e) \/ ForgetPeer(e)
  BY <1>3, <1>7 DEF LearnPeer, ForgetPeer, netVars, apiVars
<1>8. ASSUME NEW e \in Locals, CreateEndpoint(e) \/ DeleteEndpoint(e) \/ Leave(e)
      PROVE  SandboxInv'
  BY <1>8, EndpointHasNetwork, <1>1, SandboxEndpoint DEF CreateEndpoint, DeleteEndpoint, Leave,
     netVars, tableVars, EpState, JoinKnown
<1>9. CASE UNCHANGED vars
  BY <1>3, <1>9 DEF vars
<1>10. CASE Routine
  BY <1>10, SandboxRoutine, SandboxPeerJoin
<1> QED BY <1>4, <1>5, <1>6, <1>7, <1>8, <1>9, <1>10, SandboxCreate, SandboxDelete,
     SandboxJoin, SandboxLinks, SandboxLeave DEF Next

LEMMA SandboxInit == Init => Record /\ SandboxInv
  BY DEF Init, Record, Doing, Idle, Networks, EpState, SandboxInv, SandboxCounted, HasSandbox

\* The network's counter is the number of its joins, whatever fails; it has a
\* sandbox while it is joined, and one without a join only when the routine
\* brought it back or something failed (joinSandbox, leaveSandbox).
THEOREM SandboxCountedAlways == Spec => []SandboxCounted
<1>1. Record /\ SandboxInv /\ [Next]_vars => Record' /\ SandboxInv'
  BY RecordStep, SandboxStep
<1>2. SandboxInv => SandboxCounted
  BY DEF SandboxInv
<1> QED BY SandboxInit, <1>1, <1>2, PTL DEF Spec
=============================================================================
