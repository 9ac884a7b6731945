------------------------------- MODULE Bridge -------------------------------
(***************************************************************************)
(* The bridge driver and its port mappings: drivers/bridge (bridge.go,     *)
(* port_mapping.go, bridge_store.go) over portmapper/mapper.go over        *)
(* portallocator.                                                          *)
(*                                                                         *)
(* Every network has a port mapper for IPv4 and one for IPv6, each behind  *)
(* a lock; all of them share one port allocator.  The endpoints are        *)
(* programmed concurrently, one port binding after the other.  The daemon  *)
(* may crash: it reads networks and endpoints from its store again and     *)
(* maps the ports of the endpoints before it serves calls.                 *)
(***************************************************************************)
EXTENDS PortAllocator, Sequences, FiniteSets
LOCAL INSTANCE SequencesExt
LOCAL INSTANCE Functions
LOCAL INSTANCE TLC

CONSTANTS
    Net, Endpoint,
    NetOf,          \* NetOf[e]: the network of endpoint e
    Conflict,       \* sets {m, n} of networks with overlapping configurations
    DefaultBridge,  \* the networks configured as default bridge
    V4, V6,         \* host addresses
    AnyV4, AnyV6,   \* 0.0.0.0 and ::
    DefHost,        \* address of bindings that name none
    V6Listenable, Container6, Proxy, \* host, containers, option of the driver
    ProxyFound,     \* the proxy's program is found
    Requests,       \* the sequences of bindings that clients ask for
    Attempts,       \* maxAllocatePortAttempts
    MaxFaults,      \* bound: rules and proxies that fail
    MaxCrashes, MaxReloads,
    None

ASSUME BridgeAssumption ==
    /\ NetOf \in [Endpoint -> Net]
    /\ AnyV4 \in V4 /\ AnyV6 \in V6 /\ V4 \cap V6 = {}
    /\ DefHost \in V4 \cup V6
    /\ {V6Listenable, Container6, Proxy, ProxyFound} \subseteq BOOLEAN
    /\ Attempts \in Nat \ {0}

VARIABLES
    networks,   \* driver.networks
    netStore,   \* the stored networks
    endpoints,  \* endpoints[e]: bridgeEndpoint.portMapping, None if there is no e
    epStore,    \* epStore[e]: the portMapping of the stored endpoint
    alloc,      \* the port allocator
    mapped,     \* currentMappings of all mappers: <<net, address, port>> to endpoint
    lock,       \* lock[m]: the endpoint whose call holds the lock of mapper m
    rules,      \* the forwarding rules: pairs <<mapping, endpoint>>
    hooks,      \* networks whose mappers are to be called when the firewall reloads
    reload,     \* the mappers that a reload has still to call, in order
    proc,       \* proc[e]: the call for endpoint e and how far it has come
    restoring,  \* endpoints whose ports are still to be mapped at start
    lost,       \* endpoints that could not be stored, or did not get their ports back
    faults, crashes, reloads

memory == <<networks, endpoints>>
disk == <<netStore, epStore>>
mappers == <<alloc, mapped, lock, rules>>
bounds == <<faults, crashes, reloads>>
vars == <<memory, disk, mappers, hooks, reload, proc, restoring, lost, bounds>>

-----------------------------------------------------------------------------
(* Bindings.                                                               *)

\* validatePortBindingIPv4, validatePortBindingIPv6: the host address that a
\* binding of either family gets, None when there is no such binding.
HostV4(host) ==
    IF host # None THEN IF host \in V4 THEN host ELSE None
    ELSE IF DefHost \in V4 THEN DefHost ELSE None
HostV6(host) ==
    CASE ~Container6 /\ ~Proxy -> None
      [] host # None /\ (Container6 \/ Proxy) -> IF host \in V6 THEN host ELSE None
      [] OTHER -> IF DefHost = AnyV4 THEN AnyV6
                  ELSE IF DefHost \in V6 THEN DefHost ELSE None

\* allocatePortsInternal: the bindings a list of bindings stands for.
Operational(bs) ==
    LET At(b, addr) == IF addr = None THEN <<>> ELSE <<[b EXCEPT !.host = addr]>>
        Both(b) == At(b, HostV4(b.host))
                     \o (IF b.host \in V6 \/ V6Listenable THEN At(b, HostV6(b.host)) ELSE <<>>)
    IN  FlattenSeq([i \in 1 .. Len(bs) |-> Both(bs[i])])

Mappers == Net \X {"v4", "v6"}
MapperOf(e, b) == <<NetOf[e], IF b.host \in V4 THEN "v4" ELSE "v6">>
KeyOf(e, b) == <<NetOf[e], b.host, b.first>>
Keys(e, bs) == {KeyOf(e, bs[i]) : i \in 1 .. Len(bs)}
Listed(e) == Keys(e, endpoints[e])
PortsOf(K) == {<<k[2], k[3]>> : k \in K}
InMapper(m) == {k \in DOMAIN mapped : m = <<k[1], IF k[2] \in V4 THEN "v4" ELSE "v6">>}

Idle == [pc |-> "idle", todo |-> <<>>, done |-> <<>>, try |-> 0, port |-> NoPort]

-----------------------------------------------------------------------------
(* portmapper/mapper.go.                                                   *)

Binding(e) == Head(proc[e].todo)

\* What follows a MapRange that failed: another attempt, for a port of the
\* dynamic range only, or the release of what the call mapped before.
Failed(e) ==
    LET p == proc[e]
    IN  IF Binding(e).first = 0 /\ p.try + 1 < Attempts
        THEN [p EXCEPT !.pc = "map", !.try = @ + 1, !.port = NoPort]
        ELSE [p EXCEPT !.pc = "undo", !.port = NoPort]

\* What follows one that succeeded: the binding has its port, the next one.
Succeeded(e) ==
    LET p == proc[e]
        b == Binding(e)
        last == IF b.last = 0 THEN b.first ELSE b.last
    IN  [p EXCEPT !.pc = "map", !.try = 0, !.port = NoPort, !.todo = Tail(@),
                  !.done = Append(@, [b EXCEPT !.first = p.port, !.last = last])]

\* MapRange, first the port.  A proxy whose program is missing ends the call
\* with the port taken.
RequestPort(e) ==
    LET b == Binding(e)
        m == MapperOf(e, b)
        last == IF b.last = 0 THEN b.first ELSE b.last
        port == PortFor(alloc, b.host, b.first, last)
    IN  /\ proc[e].pc = "map" /\ proc[e].todo # <<>>
        /\ lock[m] = None
        /\ \/ /\ port = NoPort
              /\ proc' = [proc EXCEPT ![e] = Failed(e)]
              /\ UNCHANGED <<alloc, lock>>
           \/ /\ port # NoPort
              /\ alloc' = Given(alloc, b.host, b.first, last, port)
              /\ IF Proxy /\ ~ProxyFound
                 THEN proc' = [proc EXCEPT ![e] = Failed(e)] /\ UNCHANGED lock
                 ELSE /\ proc' = [proc EXCEPT ![e].pc = "start", ![e].port = port]
                      /\ lock' = [lock EXCEPT ![m] = e]
        /\ UNCHANGED <<memory, disk, mapped, rules, hooks, reload, restoring, lost, bounds>>

\* Then the rule and the proxy.  The port of a mapping the mapper already
\* has, or of a rule that cannot be added, is released.  When the proxy does
\* not start, cleanup removes the rule and releases the port, and the
\* deferred function releases it again.
Start(e) ==
    LET b == [Binding(e) EXCEPT !.first = proc[e].port]
        m == MapperOf(e, b)
        k == KeyOf(e, b)
        port == {<<b.host, b.first>>}
        busy == port \subseteq PortsOf(DOMAIN mapped) \* on the host
    IN  /\ proc[e].pc = "start"
        /\ UNCHANGED <<memory, disk, hooks, reload, restoring, lost, crashes, reloads>>
        /\ \/ /\ ~busy
              /\ mapped' = (k :> e) @@ mapped
              /\ rules' = rules \cup {<<k, e>>}
              /\ lock' = [lock EXCEPT ![m] = None]
              /\ proc' = [proc EXCEPT ![e] = Succeeded(e)]
              /\ UNCHANGED <<alloc, faults>>
           \/ /\ k \in DOMAIN mapped \/ faults < MaxFaults
              /\ faults' = IF k \in DOMAIN mapped THEN faults ELSE faults + 1
              /\ alloc' = Released(alloc, port)
              /\ lock' = [lock EXCEPT ![m] = None]
              /\ proc' = [proc EXCEPT ![e] = Failed(e)]
              /\ UNCHANGED <<mapped, rules>>
           \/ /\ k \notin DOMAIN mapped /\ (busy \/ faults < MaxFaults)
              /\ faults' = IF busy THEN faults ELSE faults + 1
              /\ rules' = rules \ {<<k, e>>}
              /\ alloc' = Released(alloc, port)
              /\ proc' = [proc EXCEPT ![e].pc = "deferred"]
              /\ UNCHANGED <<mapped, lock>>

deferredRelease(e) ==
    LET b == [Binding(e) EXCEPT !.first = proc[e].port]
    IN  /\ proc[e].pc = "deferred"
        /\ alloc' = Released(alloc, {<<b.host, b.first>>})
        /\ lock' = [lock EXCEPT ![MapperOf(e, b)] = None]
        /\ proc' = [proc EXCEPT ![e] = Failed(e)]
        /\ UNCHANGED <<memory, disk, mapped, rules, hooks, reload, restoring, lost, bounds>>

\* Faulty variant: the port stays allocated.
UnmapKeepPort(K) ==
    /\ mapped' = Restrict(mapped, DOMAIN mapped \ K)
    /\ rules' = {r \in rules : r[1] \notin K}
    /\ UNCHANGED alloc

\* Faulty variant: the rule stays.
UnmapKeepRule(K) ==
    LET known == K \cap DOMAIN mapped
    IN  /\ mapped' = Restrict(mapped, DOMAIN mapped \ known)
        /\ alloc' = Released(alloc, PortsOf(known))
        /\ UNCHANGED rules

\* Unmap: nothing is done for a port that is not mapped.
Unmap(K) ==
    LET known == K \cap DOMAIN mapped
    IN  /\ mapped' = Restrict(mapped, DOMAIN mapped \ known)
        /\ rules' = {r \in rules : \A k \in known : r # <<k, mapped[k]>>}
        /\ alloc' = Released(alloc, PortsOf(known))

\* ReMapAll: a reload calls the mappers one after the other.
ReMapAll ==
    /\ reload # <<>>
    /\ lock[Head(reload)] = None
    /\ rules' = rules \cup {<<k, mapped[k]>> : k \in InMapper(Head(reload))}
    /\ reload' = Tail(reload)
    /\ UNCHANGED <<memory, disk, alloc, mapped, lock, hooks, proc, restoring, lost, bounds>>

\* The firewall loses all rules.  Functions registered for a network stay
\* registered when it is deleted.
FirewallReload ==
    /\ reload = <<>> /\ restoring = {}
    /\ reloads < MaxReloads
    /\ reloads' = reloads + 1
    /\ rules' = {}
    /\ reload' = FlattenSeq([i \in 1 .. Len(hooks) |-> <<<<hooks[i], "v4">>, <<hooks[i], "v6">>>>])
    /\ UNCHANGED <<memory, disk, alloc, mapped, lock, hooks, proc, restoring, lost, faults, crashes>>

-----------------------------------------------------------------------------
(* drivers/bridge: external connectivity of endpoints.                     *)

Serving(e) == restoring = {} /\ endpoints[e] # None /\ proc[e].pc = "idle"

ProgramExternalConnectivity(e, bs) ==
    /\ Serving(e) /\ endpoints[e] = <<>>
    /\ proc' = [proc EXCEPT ![e] = [Idle EXCEPT !.pc = "map", !.todo = Operational(bs)]]
    /\ UNCHANGED <<memory, disk, mappers, hooks, reload, restoring, lost, bounds>>

\* Faulty variant: the ports are not stored.
SavePortsInMemory(e, bs) ==
    endpoints' = [endpoints EXCEPT ![e] = bs] /\ UNCHANGED epStore

\* The endpoint gets the ports, and is stored with them.
SavePorts(e, bs) ==
    endpoints' = [endpoints EXCEPT ![e] = bs] /\ epStore' = [epStore EXCEPT ![e] = bs]

\* All ports are mapped: they are stored with the endpoint; when the store
\* fails they are released.  The rules of linked containers may fail after
\* that; the ports stay.
AllMapped(e) ==
    /\ proc[e].pc = "map" /\ proc[e].todo = <<>>
    /\ \/ /\ e \notin restoring
          /\ proc' = [proc EXCEPT ![e] = Idle]
          /\ SavePorts(e, proc[e].done)
          /\ UNCHANGED <<restoring, lost, faults>>
       \/ /\ e \notin restoring
          /\ faults < MaxFaults /\ faults' = faults + 1
          /\ proc' = [proc EXCEPT ![e].pc = "undo"]
          /\ endpoints' = [endpoints EXCEPT ![e] = proc[e].done]
          /\ UNCHANGED <<epStore, restoring, lost>>
       \/ /\ e \in restoring
          /\ proc' = [proc EXCEPT ![e] = Idle]
          /\ restoring' = restoring \ {e}
          /\ lost' = IF Keys(e, proc[e].done) = Listed(e) THEN lost ELSE lost \cup {e}
          /\ UNCHANGED <<endpoints, epStore, faults>>
    /\ UNCHANGED <<networks, netStore, mappers, hooks, reload, crashes, reloads>>

\* releasePortsInternal after a failure, one port at a time; the endpoint is
\* left without ports, in memory.
Undo(e) ==
    /\ proc[e].pc = "undo"
    /\ UNCHANGED <<networks, disk, lock, hooks, reload, bounds>>
    /\ \/ /\ proc[e].done # <<>>
          /\ lock[MapperOf(e, Head(proc[e].done))] = None
          /\ Unmap({KeyOf(e, Head(proc[e].done))})
          /\ proc' = [proc EXCEPT ![e].done = Tail(@)]
          /\ UNCHANGED <<endpoints, restoring, lost>>
       \/ /\ proc[e].done = <<>>
          /\ proc' = [proc EXCEPT ![e] = Idle]
          /\ endpoints' = IF e \in restoring THEN endpoints
                          ELSE [endpoints EXCEPT ![e] = <<>>]
          /\ restoring' = restoring \ {e}
          /\ lost' = lost \cup (restoring \cap {e})
          /\ UNCHANGED <<alloc, mapped, rules>>

RevokeExternalConnectivity(e) ==
    /\ Serving(e)
    /\ proc' = [proc EXCEPT ![e] = [Idle EXCEPT !.pc = "revoke", !.done = endpoints[e]]]
    /\ UNCHANGED <<memory, disk, mappers, hooks, reload, restoring, lost, bounds>>

\* The endpoint is stored without ports; when the store fails it keeps them.
Revoke(e) ==
    /\ proc[e].pc = "revoke"
    /\ UNCHANGED <<networks, netStore, lock, hooks, reload, restoring, crashes, reloads>>
    /\ \/ /\ proc[e].done # <<>>
          /\ lock[MapperOf(e, Head(proc[e].done))] = None
          /\ Unmap({KeyOf(e, Head(proc[e].done))})
          /\ proc' = [proc EXCEPT ![e].done = Tail(@)]
          /\ UNCHANGED <<endpoints, epStore, lost, faults>>
       \/ /\ proc[e].done = <<>>
          /\ proc' = [proc EXCEPT ![e] = Idle]
          /\ \/ /\ SavePorts(e, <<>>)
                /\ UNCHANGED <<lost, faults>>
             \/ /\ faults < MaxFaults /\ faults' = faults + 1
                /\ endpoints' = [endpoints EXCEPT ![e] = <<>>]
                /\ lost' = lost \cup {e}
                /\ UNCHANGED epStore
          /\ UNCHANGED <<alloc, mapped, rules>>

-----------------------------------------------------------------------------
(* drivers/bridge: networks, endpoints and the start of the driver.        *)

Quiet == restoring = {} /\ \A e \in Endpoint : proc[e] = Idle
Members(n) == {e \in Endpoint : NetOf[e] = n /\ endpoints[e] # None}

\* deleteNetwork: the networks N go, with their endpoints and the ports of
\* these; the networks A come.  The core calls it when no call for an endpoint
\* of the network is under way.
ChangeNetworks(N, A) ==
    LET gone == UNION {Members(n) : n \in N}
    IN  /\ \A e \in gone : proc[e] = Idle
        /\ \A m \in Mappers : m[1] \in N => lock[m] = None
        /\ Unmap(UNION {Listed(e) : e \in gone})
        /\ networks' = (networks \ N) \cup A
        /\ netStore' = (netStore \ N) \cup A
        /\ endpoints' = [e \in Endpoint |-> IF e \in gone THEN None ELSE endpoints[e]]
        /\ epStore' = [e \in Endpoint |-> IF e \in gone THEN None ELSE epStore[e]]
        /\ hooks' = hooks \o SetToSeq(A)

\* CreateNetwork: a default bridge in conflict is stale and goes first.
CreateNetwork(n) ==
    LET clash == {m \in networks : {m, n} \in Conflict}
    IN  /\ restoring = {} /\ ~Contains(hooks, n) /\ n \notin netStore \* a new ID
        /\ \E stale \in IF clash = {} THEN {{}} ELSE {{m} : m \in clash \cap DefaultBridge} :
              ChangeNetworks(stale, {n})
        /\ UNCHANGED <<lock, reload, proc, restoring, lost, bounds>>

DeleteNetwork(n) ==
    /\ restoring = {} /\ n \in networks
    /\ ChangeNetworks({n}, {})
    /\ UNCHANGED <<lock, reload, proc, restoring, lost, bounds>>

CreateEndpoint(e) ==
    /\ restoring = {} /\ NetOf[e] \in networks /\ endpoints[e] = None
    /\ endpoints' = [endpoints EXCEPT ![e] = <<>>]
    /\ epStore' = [epStore EXCEPT ![e] = <<>>]
    /\ UNCHANGED <<networks, netStore, mappers, hooks, reload, proc, restoring, lost, bounds>>

\* The core revokes the external connectivity of an endpoint first.
DeleteEndpoint(e) ==
    /\ Serving(e) /\ endpoints[e] = <<>>
    /\ endpoints' = [endpoints EXCEPT ![e] = None]
    /\ epStore' = [epStore EXCEPT ![e] = None]
    /\ UNCHANGED <<networks, netStore, mappers, hooks, reload, proc, restoring, lost, bounds>>

\* The daemon crashes and starts: proxies end with it, chains are emptied,
\* populateNetworks makes the stored networks again, except for some that
\* fail, and populateEndpoints reads the endpoints of those.
Restart ==
    \E failed \in SUBSET netStore :
        LET up == netStore \ failed
            Kept(e) == IF NetOf[e] \in up THEN epStore[e] ELSE None
        IN  /\ crashes < MaxCrashes /\ crashes' = crashes + 1
            /\ faults + Cardinality(failed) <= MaxFaults
            /\ faults' = faults + Cardinality(failed)
            /\ networks' = up
            /\ endpoints' = [e \in Endpoint |-> Kept(e)]
            /\ epStore' = [e \in Endpoint |-> Kept(e)]
            /\ restoring' = {e \in Endpoint : Kept(e) \notin {None, <<>>}}
            /\ alloc' = NewAllocator
            /\ mapped' = [k \in {} |-> None]
            /\ lock' = [m \in Mappers |-> None]
            /\ rules' = {} /\ reload' = <<>> /\ hooks' = SetToSeq(up)
            /\ proc' = [e \in Endpoint |-> Idle]
            /\ UNCHANGED <<netStore, lost, reloads>>

\* restorePortAllocations, for one endpoint after the other: what it had is
\* asked for as if it were new.
restorePortAllocations(e) ==
    /\ e \in restoring
    /\ \A x \in Endpoint : proc[x] = Idle
    /\ proc' = [proc EXCEPT ![e] =
                   [Idle EXCEPT !.pc = "map", !.todo = Operational(endpoints[e])]]
    /\ UNCHANGED <<memory, disk, mappers, hooks, reload, restoring, lost, bounds>>

Init ==
    /\ networks = {} /\ netStore = {}
    /\ endpoints = [e \in Endpoint |-> None] /\ epStore = endpoints
    /\ alloc = NewAllocator
    /\ mapped = [k \in {} |-> None]
    /\ lock = [m \in Mappers |-> None]
    /\ rules = {} /\ reload = <<>> /\ hooks = <<>>
    /\ proc = [e \in Endpoint |-> Idle]
    /\ restoring = {} /\ lost = {}
    /\ faults = 0 /\ crashes = 0 /\ reloads = 0

Step(e) ==
    \/ RequestPort(e) \/ Start(e) \/ deferredRelease(e)
    \/ AllMapped(e) \/ Undo(e) \/ Revoke(e) \/ restorePortAllocations(e)

Next ==
    \/ \E e \in Endpoint : Step(e)
    \/ \E e \in Endpoint, bs \in Requests : ProgramExternalConnectivity(e, bs)
    \/ \E e \in Endpoint : RevokeExternalConnectivity(e) \/ CreateEndpoint(e) \/ DeleteEndpoint(e)
    \/ \E n \in Net : CreateNetwork(n) \/ DeleteNetwork(n)
    \/ ReMapAll
    \/ FirewallReload
    \/ Restart

Spec == Init /\ [][Next]_vars

-----------------------------------------------------------------------------
(* Properties.                                                             *)

\* Types; in particular bindings in use have a port.
Bound == [host : V4 \cup V6, first : Nat, last : Nat]
TypeOK ==
    /\ networks \subseteq Net /\ netStore \subseteq Net
    /\ \A e \in Endpoint : \A x \in {endpoints[e], epStore[e]} :
          x # None => x \in Seq({b \in Bound : b.first > 0})
    /\ alloc.used \subseteq (V4 \cup V6) \X Nat
    /\ DOMAIN mapped \subseteq Net \X (V4 \cup V6) \X Nat
    /\ lock \in [Mappers -> Endpoint \cup {None}]
    /\ reload \in Seq(Mappers) /\ hooks \in Seq(Net)
    /\ restoring \subseteq Endpoint /\ lost \subseteq Endpoint

\* A port that is mapped is allocated: RequestPort would refuse it.
PortsHeld == PortsOf(DOMAIN mapped) \subseteq alloc.used

\* No port leaks: when no call is under way, a port is allocated only if it
\* is mapped, and, as long as every endpoint could be stored and restored, it
\* is mapped to an endpoint that knows of it.
NoPortLeak ==
    Quiet => /\ alloc.used \subseteq PortsOf(DOMAIN mapped)
             /\ lost = {} => \A k \in DOMAIN mapped :
                   endpoints[mapped[k]] # None /\ k \in Listed(mapped[k])

\* An endpoint at rest has the ports it lists, and the store lists the same:
\* a restart gives every endpoint exactly the ports it had.  This holds as
\* long as every endpoint could be stored and restored; after that a port an
\* endpoint lists may be another's.
OwnMappings ==
    lost = {} => \A e \in Endpoint \ restoring :
        endpoints[e] # None /\ proc[e] = Idle =>
            /\ epStore[e] = endpoints[e]
            /\ \A k \in Listed(e) : k \in DOMAIN mapped /\ mapped[k] = e

\* After a reload of the firewall has been handled, the rules are those of the
\* mappings.
RulesMatch ==
    Quiet /\ reload = <<>> => rules = {<<k, mapped[k]>> : k \in DOMAIN mapped}

=============================================================================
