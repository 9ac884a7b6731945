----------------------------- MODULE Lifecycle -----------------------------
(***************************************************************************)
(* The life of networks, endpoints and sandboxes: controller.go,           *)
(* network.go, endpoint.go, endpoint_cnt.go, sandbox.go, sandbox_store.go  *)
(* and store.go, for networks of local scope.                              *)
(*                                                                         *)
(* Calls run concurrently, each in the steps between which the store, the  *)
(* driver or a lock shows what it has done.  The daemon may crash at any   *)
(* step; the store and the driver keep their state, and the controller     *)
(* cleans up before it serves calls again.                                 *)
(***************************************************************************)
EXTENDS Naturals, Sequences, FiniteSets
LOCAL INSTANCE SequencesExt
LOCAL INSTANCE Functions

CONSTANTS
    Net, Endpoint, Sandbox,
    NetOf,      \* NetOf[e]: the network of endpoint e
    Rank,       \* the order of the endpoints of a sandbox (endpoint.Less)
    Caller,     \* the goroutines of the daemon's API
    Main,       \* the goroutine that runs New
    MayFail,    \* the driver's functions that may fail
    MaxIndex,   \* bound: the times an endpoint is stored before a join or rename
    MaxFaults, MaxCrashes,
    None

Proc == Caller \cup {Main}

ASSUME LifecycleAssumption ==
    /\ NetOf \in [Endpoint -> Net] /\ Rank \in [Endpoint -> Nat]
    /\ Main \notin Caller
    /\ MayFail \subseteq {"CreateNetwork", "DeleteNetwork", "CreateEndpoint",
                          "DeleteEndpoint", "Join", "ProgramExternalConnectivity"}

VARIABLES
    nets,       \* the store: nets[n] is None, "live" or "inDelete"
    cnts,       \* the store: the endpoint count of a network
    eps,        \* the store: the endpoints, with their index and sandboxID
    sbs,        \* the store: the endpoints that a sandbox lists
    drvNets, drvEps, \* the networks and endpoints of the driver
    ext,        \* the endpoints that the driver has given external connectivity
    pools, addrs,    \* the networks and endpoints that IPAM has given addresses
    sandboxes,  \* controller.sandboxes: endpoints, inDelete and isStub
    copies,     \* the endpoints in these, with the count their network was read with
    joinLeave,  \* joinLeave[s]: whose join or leave is in progress
    locked,     \* networkLocker
    proc,       \* proc[p]: the call of p and how far it has come
    active,     \* the sandboxes that outlive the daemon's crash
    made,       \* the identities given so far: they are random, and never reused
    faults, crashes

store == <<nets, cnts, eps, sbs>>
driver == <<drvNets, drvEps, ext>>
ipam == <<pools, addrs>>
memory == <<sandboxes, copies, joinLeave, locked>>
others == <<active, made, crashes>>
vars == <<store, driver, ipam, memory, proc, faults, others>>

-----------------------------------------------------------------------------
(* Calls.                                                                  *)

Idle == [pc |-> "idle", op |-> None, n |-> None, e |-> None, s |-> None,
         cnt |-> 0,         \* the endpoint count as it was read
         index |-> 0,       \* the index of p's copy of the endpoint
         sandboxID |-> None,\* its sandbox, when p may have to put it back
         extEp |-> None, force |-> FALSE, retain |-> FALSE,
         todo |-> <<>>, done |-> <<>>, ns |-> {}]

Serving == proc[Main].pc = "idle"

Calls(p) == p \in Caller /\ Serving /\ proc[p].pc = "idle"

At(p, pc) == proc[p].pc = pc

Continue(p, r) == proc' = [proc EXCEPT ![p] = r]

Goto(p, pc) == Continue(p, [proc[p] EXCEPT !.pc = pc])

\* A call returns to its caller: to the client, or to the code that cleans up.
Return(p) ==
    LET r == proc[p] IN
    Continue(p, CASE r.op = "sandbox.delete" -> [r EXCEPT !.pc = "nextEndpoint"]
                  [] r.op = "cleanupLocalEndpoints" -> [r EXCEPT !.pc = "nextStale"]
                  [] p = Main -> [Idle EXCEPT !.pc = "networkCleanup"]
                  [] OTHER -> Idle)

Fails(what) == what \in MayFail /\ faults < MaxFaults /\ faults' = faults + 1

Succeeds == UNCHANGED faults

Unlock(n) == locked' = [locked EXCEPT ![n] = None]

EndpointsOf(n) == {e \in Endpoint : eps[e] # None /\ NetOf[e] = n}

-----------------------------------------------------------------------------
(* The endpoints of a sandbox.                                             *)

\* Stubs are hidden from the daemon.
Visible(s) == sandboxes[s] # None /\ ~sandboxes[s].isStub

Listed(s) == IF sandboxes[s] = None THEN <<>> ELSE sandboxes[s].eps

\* getGatewayEndpoint, for networks whose driver sets a gateway.
Gateway(list) == IF list = <<>> THEN None ELSE Head(list)

addEndpoint(list, e) ==
    LET i == Cardinality({j \in DOMAIN list : Rank[list[j]] <= Rank[e]})
    IN SubSeq(list, 1, i) \o <<e>> \o SubSeq(list, i + 1, Len(list))

removeEndpoint(list, e) == RemoveFirst(list, e)

\* Faulty variant: the sandbox is never stored again.
StoreUpdateNever(s, list) == UNCHANGED sbs

\* storeUpdate, unless the sandbox is being deleted.
StoreUpdate(s, list) ==
    sbs' = IF sandboxes[s].inDelete THEN sbs ELSE [sbs EXCEPT ![s] = list]

SetListed(s, list) ==
    sandboxes' = IF sandboxes[s] = None THEN sandboxes
                 ELSE [sandboxes EXCEPT ![s].eps = list]

-----------------------------------------------------------------------------
(* Networks.                                                               *)

NewNetwork(p, n) ==
    /\ Calls(p) /\ locked[n] = None /\ n \notin made
    /\ locked' = [locked EXCEPT ![n] = p]
    /\ made' = made \cup {n}
    /\ pools' = pools \cup {n}
    /\ Continue(p, [Idle EXCEPT !.pc = "addNetwork", !.n = n])
    /\ UNCHANGED <<store, driver, addrs, sandboxes, copies, joinLeave, faults, active, crashes>>

addNetwork(p) ==
    LET n == proc[p].n IN
    /\ At(p, "addNetwork")
    /\ \/ /\ Succeeds
          /\ drvNets' = drvNets \cup {n} /\ Goto(p, "storeCount")
          /\ UNCHANGED <<locked, pools>>
       \/ /\ Fails("CreateNetwork")
          /\ pools' = pools \ {n} /\ Unlock(n) /\ Return(p)
          /\ UNCHANGED drvNets
    /\ UNCHANGED <<store, drvEps, ext, addrs, sandboxes, copies, joinLeave, others>>

storeCount(p) ==
    /\ At(p, "storeCount")
    /\ cnts' = [cnts EXCEPT ![proc[p].n] = 0]
    /\ Goto(p, "storeNetwork")
    /\ UNCHANGED <<nets, eps, sbs, driver, ipam, memory, faults, others>>

storeNetwork(p) ==
    LET n == proc[p].n IN
    /\ At(p, "storeNetwork")
    /\ nets' = [nets EXCEPT ![n] = "live"]
    /\ Unlock(n) /\ Return(p)
    /\ UNCHANGED <<cnts, eps, sbs, driver, ipam, sandboxes, copies, joinLeave, faults, others>>

\* Faulty variant: the count is not checked.
DeleteNetworkUnchecked(p, n) ==
    /\ Calls(p) /\ locked[n] = None
    /\ nets[n] # None /\ cnts[n] # None
    /\ locked' = [locked EXCEPT ![n] = p]
    /\ nets' = [nets EXCEPT ![n] = "inDelete"]
    /\ Continue(p, [Idle EXCEPT !.pc = "deleteNetwork", !.n = n])
    /\ UNCHANGED <<cnts, eps, sbs, driver, ipam, sandboxes, copies, joinLeave, faults, others>>

\* network.delete up to the mark; it is refused while endpoints are counted.
DeleteNetwork(p, n) ==
    /\ Calls(p) /\ locked[n] = None
    /\ nets[n] # None /\ cnts[n] = 0
    /\ locked' = [locked EXCEPT ![n] = p]
    /\ nets' = [nets EXCEPT ![n] = "inDelete"]
    /\ Continue(p, [Idle EXCEPT !.pc = "deleteNetwork", !.n = n])
    /\ UNCHANGED <<cnts, eps, sbs, driver, ipam, sandboxes, copies, joinLeave, faults, others>>

\* ipamRelease and the driver; the driver takes its endpoints with it.
deleteNetwork(p) ==
    LET n == proc[p].n IN
    /\ At(p, "deleteNetwork")
    /\ pools' = pools \ {n}
    /\ \/ /\ Succeeds
          /\ drvNets' = drvNets \ {n}
          /\ drvEps' = {e \in drvEps : NetOf[e] # n}
          /\ Goto(p, "removeCount") /\ UNCHANGED locked
       \/ /\ Fails("DeleteNetwork")
          /\ IF proc[p].force THEN Goto(p, "removeCount") /\ UNCHANGED locked
                              ELSE Unlock(n) /\ Return(p)
          /\ UNCHANGED <<drvNets, drvEps>>
    /\ UNCHANGED <<store, ext, addrs, sandboxes, copies, joinLeave, others>>

\* The network read from the store has no count when the count is not stored:
\* deleteFromStore follows a nil pointer.
removeCount(p) ==
    LET n == proc[p].n IN
    /\ At(p, "removeCount")
    /\ IF cnts[n] = None THEN Goto(p, "panic") /\ UNCHANGED cnts
                         ELSE Goto(p, "removeNetwork") /\ cnts' = [cnts EXCEPT ![n] = None]
    /\ UNCHANGED <<nets, eps, sbs, driver, ipam, memory, faults, others>>

removeNetwork(p) ==
    LET n == proc[p].n IN
    /\ At(p, "removeNetwork")
    /\ nets' = [nets EXCEPT ![n] = None]
    /\ Unlock(n) /\ Return(p)
    /\ UNCHANGED <<cnts, eps, sbs, driver, ipam, sandboxes, copies, joinLeave, faults, others>>

-----------------------------------------------------------------------------
(* Endpoints.                                                              *)

\* createEndpoint up to assignAddress, which fails without the pool.
CreateEndpoint(p, e) ==
    LET n == NetOf[e] IN
    /\ Calls(p) /\ e \notin made
    /\ locked[n] = None /\ nets[n] # None /\ n \in pools
    /\ locked' = [locked EXCEPT ![n] = p]
    /\ made' = made \cup {e}
    /\ addrs' = addrs \cup {e}
    /\ Continue(p, [Idle EXCEPT !.pc = "addEndpoint", !.n = n, !.e = e])
    /\ UNCHANGED <<store, driver, pools, sandboxes, copies, joinLeave, faults, active, crashes>>

addEndpointToDriver(p) ==
    LET r == proc[p] IN
    /\ At(p, "addEndpoint")
    /\ \/ /\ Succeeds
          /\ drvEps' = drvEps \cup {r.e} /\ Goto(p, "storeEndpoint")
          /\ UNCHANGED <<addrs, locked>>
       \/ /\ Fails("CreateEndpoint")
          /\ addrs' = addrs \ {r.e} /\ Unlock(r.n) /\ Return(p)
          /\ UNCHANGED drvEps
    /\ UNCHANGED <<store, drvNets, ext, pools, sandboxes, copies, joinLeave, others>>

storeEndpoint(p) ==
    /\ At(p, "storeEndpoint")
    /\ eps' = [eps EXCEPT ![proc[p].e] = [index |-> 0, sandboxID |-> None]]
    /\ Goto(p, "IncEndpointCnt")
    /\ UNCHANGED <<nets, cnts, sbs, driver, ipam, memory, faults, others>>

IncEndpointCnt(p) ==
    LET n == proc[p].n IN
    /\ At(p, "IncEndpointCnt")
    /\ cnts' = [cnts EXCEPT ![n] = @ + 1]
    /\ Unlock(n) /\ Return(p)
    /\ UNCHANGED <<nets, eps, sbs, driver, ipam, sandboxes, copies, joinLeave, faults, others>>

-----------------------------------------------------------------------------
(* Join and Leave.                                                         *)

JoinLeaveStart(p, s) ==
    /\ joinLeave[s] = None
    /\ joinLeave' = [joinLeave EXCEPT ![s] = p]

\* Faulty variant: nobody is told.
JoinLeaveEndSilent(p) == UNCHANGED joinLeave

JoinLeaveEnd(p) ==
    joinLeave' = [s \in Sandbox |-> IF joinLeave[s] = p THEN None ELSE joinLeave[s]]

\* sbJoin up to d.Join; an endpoint of another sandbox is refused.
Join(p, e, s) ==
    /\ Calls(p) /\ Visible(s)
    /\ eps[e] # None /\ nets[NetOf[e]] # None
    /\ eps[e].sandboxID = None /\ eps[e].index < MaxIndex
    /\ JoinLeaveStart(p, s)
    /\ Continue(p, [Idle EXCEPT !.pc = "populate", !.e = e, !.s = s,
                                !.index = eps[e].index, !.cnt = cnts[NetOf[e]]])
    /\ UNCHANGED <<store, driver, ipam, sandboxes, copies, locked, faults, others>>

\* d.Join, addEndpoint and populateNetworkResources.
populateNetworkResources(p) ==
    LET r == proc[p]
        joined == addEndpoint(Listed(r.s), r.e)
    IN
    /\ At(p, "populate")
    /\ IF sandboxes[r.s] # None
       THEN \/ /\ Succeeds
               /\ SetListed(r.s, joined) /\ StoreUpdate(r.s, joined)
               /\ copies' = [copies EXCEPT ![r.e] = [index |-> r.index, cnt |-> r.cnt]]
               /\ Continue(p, [r EXCEPT !.pc = "storeJoin", !.extEp = Gateway(Listed(r.s))])
               /\ UNCHANGED joinLeave
            \/ /\ Fails("Join")
               /\ JoinLeaveEnd(p) /\ Return(p)
               /\ UNCHANGED <<sandboxes, copies, sbs>>
       ELSE /\ Succeeds
            /\ JoinLeaveEnd(p) /\ Return(p)
            /\ UNCHANGED <<sandboxes, copies, sbs>>
    /\ UNCHANGED <<nets, cnts, eps, driver, ipam, locked, others>>

\* updateToStore of a copy of an endpoint: refused if it is not the latest.
Latest(e, index) == eps[e] # None /\ eps[e].index = index

Store(e, index, s) == eps' = [eps EXCEPT ![e] = [index |-> index + 1, sandboxID |-> s]]

storeJoin(p) ==
    LET r == proc[p] IN
    /\ At(p, "storeJoin")
    /\ IF Latest(r.e, r.index)
       THEN /\ Store(r.e, r.index, r.s) /\ Goto(p, "moveExtConn")
            /\ copies' = [copies EXCEPT ![r.e].index = @ + 1]
            /\ UNCHANGED <<sandboxes, joinLeave>>
       ELSE /\ SetListed(r.s, removeEndpoint(Listed(r.s), r.e))
            /\ JoinLeaveEnd(p) /\ Return(p)
            /\ UNCHANGED <<eps, copies>>
    /\ UNCHANGED <<nets, cnts, sbs, driver, ipam, locked, faults, others>>

\* The first endpoint of the sandbox is the one with external connectivity.
\* When this fails, the endpoint leaves the sandbox but not the store.
moveExtConn(p) ==
    LET r == proc[p] IN
    /\ At(p, "moveExtConn")
    /\ IF Gateway(Listed(r.s)) # r.extEp
       THEN \/ /\ Succeeds
               /\ ext' = (ext \ {r.extEp}) \cup {r.e}
               /\ UNCHANGED sandboxes
            \/ /\ Fails("ProgramExternalConnectivity")
               /\ SetListed(r.s, removeEndpoint(Listed(r.s), r.e))
               /\ UNCHANGED ext
       ELSE Succeeds /\ UNCHANGED <<ext, sandboxes>>
    /\ JoinLeaveEnd(p) /\ Return(p)
    /\ UNCHANGED <<store, drvNets, drvEps, ipam, copies, locked, others>>

Leave(p, e, s) ==
    /\ Calls(p) /\ Visible(s)
    /\ eps[e] # None /\ nets[NetOf[e]] # None /\ eps[e].sandboxID = s
    /\ JoinLeaveStart(p, s)
    /\ Continue(p, [Idle EXCEPT !.pc = "leave", !.op = "Leave", !.e = e, !.s = s,
                                !.index = eps[e].index])
    /\ UNCHANGED <<store, driver, ipam, sandboxes, copies, locked, faults, others>>

\* sbLeave: the driver and clearNetworkResources.
sbLeave(p) ==
    LET r == proc[p]
        gateway == Gateway(Listed(r.s))
        left == removeEndpoint(Listed(r.s), r.e)
    IN
    /\ At(p, "leave")
    /\ ext' = IF gateway = r.e THEN ext \ {r.e} ELSE ext
    /\ IF r.e \in Range(Listed(r.s))
       THEN SetListed(r.s, left) /\ StoreUpdate(r.s, left)
       ELSE UNCHANGED <<sandboxes, sbs>>
    /\ Continue(p, [r EXCEPT !.pc = "storeLeave",
                             !.extEp = IF gateway = r.e THEN r.e ELSE None])
    /\ UNCHANGED <<nets, cnts, eps, drvNets, drvEps, ipam, copies, joinLeave, locked, faults, others>>

Moved(from, to) == IF from # None /\ to # None THEN ext \cup {to} ELSE ext

\* The endpoint is stored; the next endpoint gets the external connectivity.
storeLeave(p) ==
    LET r == proc[p]
        next == Gateway(Listed(r.s))
    IN
    /\ At(p, "storeLeave")
    /\ IF Latest(r.e, r.index)
       THEN /\ Store(r.e, r.index, None)
            /\ ext' = Moved(r.extEp, next)
       ELSE UNCHANGED <<eps, ext>>
    /\ JoinLeaveEnd(p)
    /\ IF r.op = "Leave" THEN Continue(p, Idle)
                         ELSE Goto(p, IF r.force THEN "deleteFromStore" ELSE "Delete")
    /\ UNCHANGED <<nets, cnts, sbs, drvNets, drvEps, ipam, sandboxes, copies, locked, faults, others>>

-----------------------------------------------------------------------------
(* Delete.                                                                 *)

\* Delete reads the endpoint: an attached one is refused, or leaves by force
\* without waiting for the joins and leaves of its sandbox.
Attached(e) == eps[e].sandboxID # None /\ sandboxes[eps[e].sandboxID] # None

Refused(r) ==
    \/ eps[r.e] = None \/ nets[NetOf[r.e]] = None
    \/ Attached(r.e) /\ ~r.force

Deleting(r) ==
    IF Attached(r.e)
    THEN [r EXCEPT !.pc = "leave", !.s = eps[r.e].sandboxID, !.index = eps[r.e].index]
    ELSE [r EXCEPT !.pc = "deleteFromStore"]

DeleteEndpoint(p, e, force) ==
    LET r == [Idle EXCEPT !.e = e, !.force = force] IN
    /\ Calls(p) /\ ~Refused(r)
    /\ Continue(p, Deleting(r))
    /\ UNCHANGED <<store, driver, ipam, memory, faults, others>>

Delete(p) ==
    /\ At(p, "Delete")
    /\ IF Refused(proc[p]) THEN Return(p) ELSE Continue(p, Deleting(proc[p]))
    /\ UNCHANGED <<store, driver, ipam, memory, faults, others>>

\* deleteFromStore reads a newer version and deletes that.
deleteFromStore(p) ==
    LET r == proc[p] IN
    /\ At(p, "deleteFromStore")
    /\ IF eps[r.e] # None
       THEN /\ eps' = [eps EXCEPT ![r.e] = None]
            /\ Continue(p, [r EXCEPT !.pc = "deleteEndpoint", !.index = eps[r.e].index,
                                     !.sandboxID = eps[r.e].sandboxID])
       ELSE Return(p) /\ UNCHANGED eps
    /\ UNCHANGED <<nets, cnts, sbs, driver, ipam, memory, faults, others>>

\* The driver's DeleteEndpoint; a refusal puts the endpoint back.
deleteEndpoint(p) ==
    LET r == proc[p] IN
    /\ At(p, "deleteEndpoint")
    /\ \/ /\ Succeeds
          /\ drvEps' = drvEps \ {r.e} /\ Goto(p, "DecEndpointCnt")
          /\ UNCHANGED eps
       \/ /\ Fails("DeleteEndpoint")
          /\ IF r.force
             THEN Goto(p, "DecEndpointCnt") /\ UNCHANGED eps
             ELSE Store(r.e, r.index, r.sandboxID) /\ Return(p)
          /\ UNCHANGED drvEps
    /\ UNCHANGED <<nets, cnts, sbs, drvNets, ext, ipam, memory, others>>

Decremented(cnt) == IF cnt = 0 THEN 0 ELSE cnt - 1

\* releaseAddress and DecEndpointCnt, which does not go below zero.
DecEndpointCnt(p) ==
    LET n == NetOf[proc[p].e] IN
    /\ At(p, "DecEndpointCnt")
    /\ addrs' = addrs \ {proc[p].e}
    /\ cnts' = IF cnts[n] = None THEN cnts ELSE [cnts EXCEPT ![n] = Decremented(@)]
    /\ Return(p)
    /\ UNCHANGED <<nets, eps, sbs, driver, pools, memory, faults, others>>

-----------------------------------------------------------------------------
(* Sandboxes.                                                              *)

\* A container whose sandbox was kept as a stub gets it back.
NewSandbox(s) ==
    /\ Serving
    /\ \/ s \notin made
       \/ sandboxes[s] # None /\ sandboxes[s].isStub
    /\ made' = made \cup {s}
    /\ sandboxes' = [sandboxes EXCEPT ![s] =
            [eps |-> Listed(s), inDelete |-> FALSE, isStub |-> FALSE]]
    /\ sbs' = [sbs EXCEPT ![s] = Listed(s)]
    /\ UNCHANGED <<nets, cnts, eps, driver, ipam, copies, joinLeave, locked, proc, faults,
                   active, crashes>>

DeleteSandbox(p, s) ==
    /\ Calls(p) /\ Visible(s) /\ ~sandboxes[s].inDelete
    /\ sandboxes' = [sandboxes EXCEPT ![s].inDelete = TRUE]
    /\ Continue(p, [Idle EXCEPT !.pc = "nextEndpoint", !.op = "sandbox.delete",
                                !.s = s, !.todo = Listed(s)])
    /\ UNCHANGED <<store, driver, ipam, copies, joinLeave, locked, faults, others>>

\* The loop of sandbox.delete: the endpoint leaves, then it is deleted.
nextEndpoint(p) ==
    LET r == proc[p]
        e == Head(r.todo)
        next == [r EXCEPT !.e = e, !.todo = Tail(r.todo)]
    IN
    /\ At(p, "nextEndpoint") /\ r.todo # <<>>
    /\ IF nets[NetOf[e]] = None
       THEN Continue(p, [next EXCEPT !.retain = TRUE]) /\ UNCHANGED joinLeave
       ELSE IF r.force
       THEN Continue(p, [next EXCEPT !.pc = "Delete"]) /\ UNCHANGED joinLeave
       ELSE IF eps[e] # None /\ eps[e].sandboxID = r.s
       THEN /\ JoinLeaveStart(p, r.s)
            /\ Continue(p, [next EXCEPT !.pc = "leave", !.index = eps[e].index])
       ELSE /\ joinLeave[r.s] = None
            /\ Continue(p, [next EXCEPT !.pc = "Delete"]) /\ UNCHANGED joinLeave
    /\ UNCHANGED <<store, driver, ipam, sandboxes, copies, locked, faults, others>>

\* A sandbox whose endpoint has lost its network is kept.
sandboxDeleted(p) ==
    LET r == proc[p] IN
    /\ At(p, "nextEndpoint") /\ r.todo = <<>>
    /\ IF r.retain
       THEN sandboxes' = [sandboxes EXCEPT ![r.s].inDelete = FALSE] /\ UNCHANGED sbs
       ELSE /\ sandboxes' = [sandboxes EXCEPT ![r.s] = None]
            /\ sbs' = [sbs EXCEPT ![r.s] = None]
    /\ Continue(p, IF p = Main THEN [Idle EXCEPT !.pc = "sandboxCleanup"] ELSE Idle)
    /\ UNCHANGED <<nets, cnts, eps, driver, ipam, copies, joinLeave, locked, faults, others>>

\* sandbox.Rename: its copies of the endpoints are stored under their new name;
\* when one cannot be stored, the others get their names back, the last first.
Rename(p, s) ==
    /\ Calls(p) /\ Visible(s) /\ Listed(s) # <<>>
    /\ \A e \in Range(Listed(s)) : eps[e] # None => eps[e].index < MaxIndex
    /\ Continue(p, [Idle EXCEPT !.pc = "rename", !.s = s, !.todo = Listed(s)])
    /\ UNCHANGED <<store, driver, ipam, memory, faults, others>>

rename(p) ==
    LET r == proc[p]
        e == Head(r.todo)
    IN
    /\ At(p, "rename")
    /\ IF r.todo = <<>> THEN Return(p) /\ UNCHANGED <<eps, copies>>
       ELSE IF sandboxes[r.s] = None
       THEN Continue(p, [r EXCEPT !.todo = Tail(r.todo)]) /\ UNCHANGED <<eps, copies>>
       ELSE IF Latest(e, copies[e].index)
       THEN /\ Store(e, copies[e].index, eps[e].sandboxID)
            /\ copies' = [copies EXCEPT ![e].index = @ + 1]
            /\ Continue(p, [r EXCEPT !.pc = "updateStore", !.e = e, !.todo = Tail(r.todo),
                                     !.done = <<e>> \o r.done])
       ELSE /\ Continue(p, [r EXCEPT !.todo = IF r.force THEN Tail(r.todo) ELSE r.done,
                                     !.force = TRUE])
            /\ UNCHANGED <<eps, copies>>
    /\ UNCHANGED <<nets, cnts, sbs, driver, ipam, sandboxes, joinLeave, locked, faults, others>>

\* The "dummy endpoint count update" stores the count that the copy has, also
\* when it has to read a newer index first.
updateStore(p) ==
    LET r == proc[p]
        n == NetOf[r.e]
    IN
    /\ At(p, "updateStore")
    /\ cnts' = IF cnts[n] = None THEN cnts ELSE [cnts EXCEPT ![n] = copies[r.e].cnt]
    /\ Goto(p, "rename")
    /\ UNCHANGED <<nets, eps, sbs, driver, ipam, memory, faults, others>>

-----------------------------------------------------------------------------
(* Crash, and New: reservePools, sandboxCleanup, cleanupLocalEndpoints and *)
(* networkCleanup.                                                         *)

\* The networks that getNetworksForScope finds.
Found == {n \in Net : nets[n] # None /\ (cnts[n] # None \/ nets[n] = "inDelete")}

\* The containers that may be running still: a sandbox is deleted after its
\* container has stopped.
Running == {s \in Sandbox : Visible(s) /\ ~sandboxes[s].inDelete}

Restart ==
    /\ crashes < MaxCrashes /\ crashes' = crashes + 1
    /\ active' \in SUBSET IF Serving THEN Running ELSE active
    /\ sandboxes' = [s \in Sandbox |-> None]
    /\ copies' = [e \in Endpoint |-> None]
    /\ joinLeave' = [s \in Sandbox |-> None]
    /\ locked' = [n \in Net |-> None]
    /\ pools' = Found
    /\ addrs' = {e \in Endpoint : eps[e] # None /\ NetOf[e] \in Found}
    /\ proc' = [p \in Proc |-> IF p = Main THEN [Idle EXCEPT !.pc = "sandboxCleanup"]
                               ELSE Idle]
    /\ UNCHANGED <<store, driver, faults, made>>

\* A stored sandbox that is not active is deleted by force, with all the
\* endpoints it lists; an active one gets those that can be found.
restoreSandbox(s) ==
    LET found(e) == nets[NetOf[e]] # None /\ eps[e] # None
        keeps == s \in active
        list == IF keeps THEN SelectSeq(sbs[s], found) ELSE sbs[s]
    IN
    /\ At(Main, "sandboxCleanup")
    /\ sbs[s] # None /\ sandboxes[s] = None
    /\ sandboxes' = [sandboxes EXCEPT ![s] = [eps |-> list, inDelete |-> ~keeps, isStub |-> ~keeps]]
    /\ copies' = [e \in Endpoint |->
            IF e \in Range(list) /\ found(e)
            THEN [index |-> eps[e].index, cnt |-> cnts[NetOf[e]]] ELSE copies[e]]
    /\ IF keeps THEN UNCHANGED proc
       ELSE Continue(Main, [Idle EXCEPT !.pc = "nextEndpoint", !.op = "sandbox.delete",
                                        !.s = s, !.force = TRUE, !.todo = list])
    /\ UNCHANGED <<store, driver, ipam, joinLeave, locked, faults, others>>

sandboxesRestored ==
    /\ At(Main, "sandboxCleanup")
    /\ \A s \in Sandbox : sbs[s] # None => sandboxes[s] # None
    /\ Continue(Main, [Idle EXCEPT !.pc = "cleanupLocalEndpoints", !.ns = Found])
    /\ UNCHANGED <<store, driver, ipam, memory, faults, others>>

\* Faulty variant: no endpoint is stale.
StaleNone(n) == {}

Stale(n) == EndpointsOf(n) \ UNION {Range(Listed(s)) : s \in Sandbox}

\* The endpoints of a network that no sandbox lists, and the count as it was
\* read before they are deleted.
cleanupLocalEndpoints(n) ==
    LET r == proc[Main] IN
    /\ At(Main, "cleanupLocalEndpoints") /\ n \in r.ns
    /\ Continue(Main, [Idle EXCEPT !.pc = "nextStale", !.op = "cleanupLocalEndpoints",
                                   !.n = n, !.ns = r.ns \ {n}, !.force = TRUE,
                                   !.cnt = IF cnts[n] = None THEN 0 ELSE cnts[n],
                                   !.todo = SetToSeq(Stale(n))])
    /\ UNCHANGED <<store, driver, ipam, memory, faults, others>>

nextStale ==
    LET r == proc[Main] IN
    /\ At(Main, "nextStale") /\ r.todo # <<>>
    /\ Continue(Main, [r EXCEPT !.pc = "Delete", !.e = Head(r.todo), !.todo = Tail(r.todo)])
    /\ UNCHANGED <<store, driver, ipam, memory, faults, others>>

\* Faulty variant: the count is not corrected.
FixedNever(read, actual, cnt) == cnt

Fixed(read, actual, cnt) == IF read # actual THEN actual ELSE cnt

\* setCnt: the count is corrected when it was not the number of endpoints.
setCnt ==
    LET r == proc[Main]
        actual == Cardinality(EndpointsOf(r.n))
    IN
    /\ At(Main, "nextStale") /\ r.todo = <<>>
    /\ cnts' = IF cnts[r.n] = None THEN cnts ELSE [cnts EXCEPT ![r.n] = Fixed(r.cnt, actual, @)]
    /\ Continue(Main, [Idle EXCEPT !.pc = "cleanupLocalEndpoints", !.ns = r.ns])
    /\ UNCHANGED <<nets, eps, sbs, driver, ipam, memory, faults, others>>

endpointsCleaned ==
    /\ At(Main, "cleanupLocalEndpoints") /\ proc[Main].ns = {}
    /\ Goto(Main, "networkCleanup")
    /\ UNCHANGED <<store, driver, ipam, memory, faults, others>>

\* Networks marked for deletion are deleted by force.
networkCleanup(n) ==
    /\ At(Main, "networkCleanup") /\ nets[n] = "inDelete"
    /\ locked' = [locked EXCEPT ![n] = Main]
    /\ Continue(Main, [Idle EXCEPT !.pc = "deleteNetwork", !.n = n, !.force = TRUE])
    /\ UNCHANGED <<store, driver, ipam, sandboxes, copies, joinLeave, faults, others>>

started ==
    /\ At(Main, "networkCleanup") /\ \A n \in Net : nets[n] # "inDelete"
    /\ Continue(Main, Idle)
    /\ active' = {}
    /\ UNCHANGED <<store, driver, ipam, memory, faults, made, crashes>>

-----------------------------------------------------------------------------

Init ==
    /\ nets = [n \in Net |-> None] /\ cnts = [n \in Net |-> None]
    /\ eps = [e \in Endpoint |-> None] /\ sbs = [s \in Sandbox |-> None]
    /\ drvNets = {} /\ drvEps = {} /\ ext = {}
    /\ pools = {} /\ addrs = {}
    /\ sandboxes = [s \in Sandbox |-> None]
    /\ copies = [e \in Endpoint |-> None]
    /\ joinLeave = [s \in Sandbox |-> None]
    /\ locked = [n \in Net |-> None]
    /\ proc = [p \in Proc |-> Idle]
    /\ active = {} /\ made = {}
    /\ faults = 0 /\ crashes = 0

Step(p) ==
    \/ addNetwork(p) \/ storeCount(p) \/ storeNetwork(p)
    \/ deleteNetwork(p) \/ removeCount(p) \/ removeNetwork(p)
    \/ addEndpointToDriver(p) \/ storeEndpoint(p) \/ IncEndpointCnt(p)
    \/ populateNetworkResources(p) \/ storeJoin(p) \/ moveExtConn(p)
    \/ sbLeave(p) \/ storeLeave(p)
    \/ Delete(p) \/ deleteFromStore(p) \/ deleteEndpoint(p) \/ DecEndpointCnt(p)
    \/ nextEndpoint(p) \/ sandboxDeleted(p)
    \/ rename(p) \/ updateStore(p)

New ==
    \/ \E s \in Sandbox : restoreSandbox(s)
    \/ sandboxesRestored
    \/ \E n \in Net : cleanupLocalEndpoints(n)
    \/ nextStale \/ setCnt \/ endpointsCleaned
    \/ \E n \in Net : networkCleanup(n)
    \/ started

Call(p) ==
    \/ \E n \in Net : NewNetwork(p, n) \/ DeleteNetwork(p, n)
    \/ \E e \in Endpoint :
        \/ CreateEndpoint(p, e)
        \/ \E s \in Sandbox : Join(p, e, s) \/ Leave(p, e, s)
        \/ \E force \in BOOLEAN : DeleteEndpoint(p, e, force)
    \/ \E s \in Sandbox : DeleteSandbox(p, s) \/ Rename(p, s)

Next ==
    \/ \E p \in Caller : Call(p)
    \/ \E s \in Sandbox : NewSandbox(s)
    \/ \E p \in Proc : Step(p)
    \/ New
    \/ Restart

\* Goroutines are scheduled; clients need not call, and nothing need crash.
Spec == Init /\ [][Next]_vars /\ WF_vars(New) /\ \A p \in Proc : WF_vars(Step(p))

-----------------------------------------------------------------------------
(* Properties.                                                             *)

Quiet == \A p \in Proc : proc[p].pc = "idle"

\* Networks, counts, endpoints and sandboxes are of their types; a count, which
\* the code keeps unsigned, is never taken below zero.
TypeOK ==
    /\ nets \in [Net -> {None, "live", "inDelete"}]
    /\ \A n \in Net : cnts[n] = None \/ cnts[n] \in 0..Cardinality(Endpoint)
    /\ \A e \in Endpoint :
        eps[e] = None \/ eps[e] \in [index : Nat, sandboxID : Sandbox \cup {None}]
    /\ \A s \in Sandbox :
        /\ sbs[s] = None \/ sbs[s] \in Seq(Endpoint)
        /\ sandboxes[s] = None \/ sandboxes[s].eps \in Seq(Endpoint)
        /\ joinLeave[s] \in Proc \cup {None}
    /\ locked \in [Net -> Proc \cup {None}]
    /\ drvNets \subseteq Net /\ drvEps \subseteq Endpoint /\ ext \subseteq Endpoint
    /\ pools \subseteq Net /\ addrs \subseteq Endpoint

\* A stored network that is not marked for deletion has a count, at whatever
\* point the daemon crashes: the count is stored before the network and removed
\* after it is marked (NewNetwork, network.delete).  When no call is running,
\* the count is the number of its endpoints in the store, and IPAM holds the
\* addresses of these endpoints and no others.
CountExact ==
    /\ \A n \in Net : nets[n] = "live" => cnts[n] # None
    /\ Quiet => /\ \A n \in Net : nets[n] = "live" => cnts[n] = Cardinality(EndpointsOf(n))
                /\ addrs = {e \in Endpoint : eps[e] # None}

\* Whatever runs concurrently, an endpoint in the store has its network in the
\* store, its address, and its endpoint in the driver: no network is deleted
\* under it, and Delete takes it out of the store first.
EndpointBacked ==
    \A e \in Endpoint : eps[e] # None =>
        /\ nets[NetOf[e]] # None /\ NetOf[e] \in pools \cap drvNets
        /\ e \in addrs \cap drvEps

\* When no call is running, endpoints and sandboxes agree: the sandbox of a
\* stored endpoint lists it, the endpoints of a sandbox are stored unless their
\* network is gone, no endpoint is in two sandboxes, and a sandbox is stored as
\* it is in memory; and as long as the daemon has not crashed, the first endpoint
\* of every sandbox has external connectivity, and no other endpoint has.
SandboxesAgree ==
    Quiet =>
    /\ \A e \in Endpoint : eps[e] # None /\ eps[e].sandboxID # None =>
            e \in Range(Listed(eps[e].sandboxID))
    /\ \A s \in Sandbox :
        /\ sandboxes[s] # None => sbs[s] = sandboxes[s].eps
        /\ \A i \in DOMAIN Listed(s) :
            LET e == Listed(s)[i] IN
            nets[NetOf[e]] # None =>
                /\ eps[e] # None /\ eps[e].sandboxID \in {s, None}
                /\ \A t \in Sandbox : \A j \in DOMAIN Listed(t) :
                        Listed(t)[j] = e => <<s, i>> = <<t, j>>
    /\ crashes = 0 => ext = {Gateway(Listed(s)) : s \in Sandbox} \ {None}

\* When New returns, no network is marked for deletion, and every stored endpoint
\* is in an active sandbox.
StartClean ==
    [][~Serving /\ Serving' =>
        /\ \A n \in Net : nets'[n] # "inDelete"
        /\ \A e \in Endpoint : eps'[e] # None =>
            \E s \in active : sandboxes'[s] # None /\ e \in Range(sandboxes'[s].eps)]_vars

\* A network is not deleted while it has endpoints: "ActiveEndpointsError is
\* returned when a network is deleted which has active endpoints in it"
\* (error.go:124).
ActiveEndpointsRefused ==
    [][\A n \in Net : nets[n] = "live" /\ nets'[n] = "inDelete" => EndpointsOf(n) = {}]_vars

\* networkCleanup runs network.delete to "remove the network no matter what"
\* (network.go:990): New does not panic.
CleanupCompletes == \A p \in Proc : proc[p].pc # "panic"

\* When no call is running, Delete refuses an endpoint only if a sandbox has it:
\* "ActiveContainerError is returned when an endpoint is deleted which has active
\* containers attached to it" (error.go:152).
OnlyActiveRefused ==
    Quiet => \A e \in Endpoint : eps[e] # None /\ Attached(e) =>
                e \in Range(Listed(eps[e].sandboxID))

\* Every call returns, and so does New: no two of them wait for each other.
CallsReturn == \A p \in Proc : proc[p].pc # "idle" ~> proc[p].pc = "idle"

=============================================================================
