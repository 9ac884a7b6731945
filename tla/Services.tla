------------------------------ MODULE Services ------------------------------
(***************************************************************************)
(* Service discovery and load balancing on one node of a swarm: what the   *)
(* endpoint table of NetworkDB says of the tasks of the cluster is turned  *)
(* into service bindings (service_common.go), the name records the DNS     *)
(* server answers from (network.go) and the IPVS services of the load      *)
(* balancer sandbox of each network (service_linux.go).                    *)
(*                                                                         *)
(* Four kinds of goroutine change that state: the one that handles the     *)
(* events of the table (agent.go), EnableService and DisableService of a   *)
(* local container, sbLeave of a local endpoint, and the cluster agent     *)
(* that closes when the node leaves.  Deleting a network is a fifth.       *)
(* A step ends where a lock is given up: the network lock and the lock of  *)
(* a service object are held over the rest of an add, the lock of the      *)
(* service object over the rest of a remove, so the body of each is one    *)
(* step, but the object is looked up in an earlier one and can be deleted  *)
(* in between.                                                             *)
(*                                                                         *)
(* Aliases, ingress ports (part of the key of a service) and IPv6 are left *)
(* out: they repeat what is done for the name, the address or the service. *)
(***************************************************************************)
EXTENDS Integers, FiniteSets, Sequences, SequencesExt

CONSTANTS Task,       \* endpoints, by ID
          Local,      \* those of this node
          Network, Service, Ip,
          NetOf, SvcOf, IpOf, \* of each task; SvcOf is NoService for a plain container
          HasVip,     \* the services with a virtual IP
          NoService, NoTask, Vip,
          MaxObjects, \* bound on the service objects ever created
          MaxFlaps    \* bound on the failures of remote nodes

ASSUME TasksAssumption ==
  /\ IsFiniteSet(Task)
  /\ Local \subseteq Task /\ NoTask \notin Task /\ NoService \notin Service
  /\ NetOf \in [Task -> Network] /\ SvcOf \in [Task -> Service \cup {NoService}]
  /\ IpOf \in [Task -> Ip] /\ Vip \notin Ip /\ HasVip \subseteq Service
  /\ MaxObjects \in Nat /\ MaxFlaps \in Nat

VARIABLES
  rec,      \* the record its owner keeps of each task in the endpoint table
  disabled, \* the remote tasks whose owner has said they are disabled
  known,    \* what this node's copy of the table says of it
  queue,    \* events written to the watcher of the endpoint table
  agent,    \* the cluster agent runs
  nets,     \* networks in the store
  locked,   \* networks whose lock in networkLocker is held
  bindings, \* serviceBindings: the object of each service, 0 for none
  objs,     \* every service object created, live or deleted
  virt,     \* IPVS: the virtual services, as <<network, mark>>
  dest,     \* IPVS: the destinations, as <<network, mark, address, weight>>
  dns,      \* svcRecords: <<network, name, address, owner of the record>>
  sb,       \* the sandbox of each local task
  proc,     \* what each goroutine is doing
  mark,     \* fwMarkCtr
  flaps     \* failures of remote nodes so far

table == <<rec, disabled, known, flaps>>
core  == <<nets, locked>>
bound == <<bindings, objs, virt, dest, dns, mark>>
vars  == <<table, queue, agent, core, bound, sb, proc>>

Watcher == <<"watch", NoTask>>
Cluster == <<"cluster", NoTask>>
Deleter(n) == <<"delete", n>>
Svc(e)  == <<"service", e>>
Leave(e) == <<"leave", e>>
Proc == {Watcher, Cluster} \cup {Deleter(n) : n \in Network} \cup {Svc(e) : e \in Local} \cup {Leave(e) : e \in Local}

Remote == Task \ Local
Status == {"none", "on", "off", "gone"}
Call == [pc : {"idle", "lock", "lookup", "bind", "find", "unbind", "record", "name", "unrecord",
               "publish", "enable", "disable", "leave", "clear",
               "discovery", "snapshot", "collect", "cleanup", "removing", "leaving"},
         task : Task \cup {NoTask},  \* the endpoint of the call
         full : BOOLEAN,             \* fullRemove
         dns : BOOLEAN,              \* deleteSvcRecords
         obj : 0..MaxObjects,        \* the service object looked up
         todo : SUBSET (0..MaxObjects \cup Task)]

Idle == [pc |-> "idle", task |-> NoTask, full |-> FALSE, dns |-> FALSE, obj |-> 0, todo |-> {}]
At(p, pc) == proc[p].pc = pc
Goto(p, pc) == proc' = [proc EXCEPT ![p].pc = pc]
Done(p) == proc' = [proc EXCEPT ![p] = Idle]

\* newService
NewObject(s) == [svc |-> s, lbs |-> [n \in Network |-> 0], deleted |-> FALSE,
                 back |-> [e \in Task |-> "none"], ips |-> {}]

Init ==
  /\ rec = [e \in Task |-> "none"] /\ disabled = {} /\ known = [e \in Remote |-> "none"]
  /\ queue = <<>> /\ agent = TRUE /\ nets = Network /\ locked = {}
  /\ bindings = [s \in Service |-> 0] /\ objs = <<>>
  /\ virt = {} /\ dest = {} /\ dns = {} /\ mark = 1 /\ flaps = 0
  /\ sb = [e \in Local |-> [present |-> TRUE, enabled |-> FALSE, locked |-> FALSE]]
  /\ proc = [p \in Proc |-> Idle]

-----------------------------------------------------------------------------
(***************************************************************************)
(* The endpoint table.  The owner of a record creates it when its task is  *)
(* enabled, marks it disabled, deletes it; the address of a task is free   *)
(* for another one once its endpoint is deleted, which is after that.      *)
(***************************************************************************)

Owner(e, from, to) ==
  /\ rec[e] \in from
  /\ rec' = [rec EXCEPT ![e] = to]

\* A remote node enables a task, disables it (only a task of a service) or lets it go.
RemoteEnable(e) ==
  /\ Owner(e, {"none"}, "on")
  /\ \A o \in Task \ {e} : IpOf[o] = IpOf[e] => rec[o] \in {"none", "gone"}
  /\ UNCHANGED <<disabled, known, flaps, queue, agent, core, bound, sb, proc>>

RemoteDisable(e) ==
  /\ SvcOf[e] # NoService
  /\ Owner(e, {"on"}, "off")
  /\ disabled' = disabled \cup {e}
  /\ UNCHANGED <<known, flaps, queue, agent, core, bound, sb, proc>>

RemoteLeave(e) ==
  /\ Owner(e, {"on", "off"}, "gone")
  /\ UNCHANGED <<disabled, known, flaps, queue, agent, core, bound, sb, proc>>

Event(type, e) == [type |-> type, task |-> e]

\* This node takes part in the gossip of network n.
Attached(n) == n \in nets /\ proc[Deleter(n)].pc \in {"idle", "leaving"}

Rank == [none |-> 0, on |-> 1, off |-> 2, gone |-> 3]

(***************************************************************************)
(* The node learns v of e, which the owner says or said, from a gossip     *)
(* message or from a bulk sync, and tells its watcher.  The event is that  *)
(* of the message: a gossip message names the operation of the owner, a    *)
(* bulk sync creates whatever is not deleted.  The deletion of an entry    *)
(* this node does not have is no event.                                    *)
(***************************************************************************)
Learn(e, v, sync) ==
  /\ agent /\ Attached(NetOf[e])
  /\ Rank[known[e]] < Rank[v] /\ Rank[v] <= Rank[rec[e]]
  /\ v = "off" => e \in disabled
  /\ known' = [known EXCEPT ![e] = v]
  /\ queue' = IF known[e] = "none" /\ v = "gone" THEN queue
              ELSE Append(queue, Event(IF v = "gone" THEN "delete"
                                       ELSE IF v = "off" /\ ~sync THEN "update" ELSE "create", e))
  /\ UNCHANGED <<rec, disabled, flaps, agent, core, bound, sb, proc>>

\* The node of e is thought dead: its entries are dropped, and may come back.
NodeFails(e) ==
  /\ agent /\ flaps < MaxFlaps
  /\ known[e] \in {"on", "off"}
  /\ flaps' = flaps + 1
  /\ known' = [known EXCEPT ![e] = "none"]
  /\ queue' = Append(queue, Event("delete", e))
  /\ UNCHANGED <<rec, disabled, agent, core, bound, sb, proc>>

-----------------------------------------------------------------------------
(***************************************************************************)
(* The body of addServiceBinding and of rmServiceBinding, under the lock   *)
(* of the service object o.                                                *)
(***************************************************************************)

Same(o, e) == {x \in objs[o].ips : x[1] = IpOf[e]}
Names(e) == {<<NetOf[e], e, IpOf[e], e>>}
Tasks(e) == {<<NetOf[e], <<"tasks", SvcOf[e]>>, IpOf[e], SvcOf[e]>>}
ByName(e, ip) == {<<NetOf[e], <<"svc", SvcOf[e]>>, ip, SvcOf[e]>>}

\* addLBBackend: a destination that is there already (EEXIST) is left as it is.
AddLBBackend(e, m) ==
  LET n == NetOf[e]
      there == \E w \in 0..1 : <<n, m, IpOf[e], w>> \in dest
  IN IF SvcOf[e] \in HasVip
     THEN /\ virt' = virt \cup {<<n, m>>}
          /\ dest' = IF there THEN dest ELSE dest \cup {<<n, m, IpOf[e], 1>>}
     ELSE UNCHANGED <<virt, dest>>

\* addEndpointNameResolution
AddNames(e, addService) ==
  dns' = dns \cup Names(e) \cup Tasks(e)
             \cup (IF SvcOf[e] \notin HasVip THEN ByName(e, IpOf[e])
                   ELSE IF addService THEN ByName(e, Vip) ELSE {})

Bind(e, o) ==
  LET n == NetOf[e]
      new == objs[o].lbs[n] = 0
      m == IF new THEN mark ELSE objs[o].lbs[n]
  IN /\ objs' = [objs EXCEPT ![o].lbs[n] = m, ![o].back[e] = "on",
                             ![o].ips = @ \cup {<<IpOf[e], e>>}]
     /\ mark' = IF new THEN mark + 1 ELSE mark
     /\ AddLBBackend(e, m)
     /\ AddNames(e, new)
     /\ UNCHANGED bindings

\* The destinations S once removed, or only deweighted.
DeweightedOnly(S, full) == {<<d[1], d[2], d[3], 0>> : d \in S}

Deweighted(S, full) == IF full THEN {} ELSE {<<d[1], d[2], d[3], 0>> : d \in S}

\* rmLBBackend
RmLBBackend(e, m, rmService, full) ==
  LET n == NetOf[e]
      mine == {d \in dest : d[1] = n /\ d[2] = m /\ d[3] = IpOf[e]}
  IN IF SvcOf[e] \in HasVip
     THEN /\ dest' = IF rmService THEN {d \in dest : d[1] # n \/ d[2] # m}
                     ELSE (dest \ mine) \cup Deweighted(mine, full)
          /\ virt' = IF rmService THEN virt \ {<<n, m>>} ELSE virt
     ELSE UNCHANGED <<virt, dest>>

\* deleteEndpointNameResolution
RmNames(e, rmService, multiple) ==
  dns' = dns \ (Names(e) \cup
                (IF multiple THEN {}
                 ELSE Tasks(e) \cup (IF SvcOf[e] \notin HasVip THEN ByName(e, IpOf[e])
                                     ELSE IF rmService THEN ByName(e, Vip) ELSE {})))

\* The endpoints still behind the address of e, counted by removeIPToEndpoint.
LeftNone(o, e) == 0

Left(o, e) == Cardinality(Same(o, e) \ {<<IpOf[e], e>>})

\* The back ends of o once e is removed, or only disabled.
RemainingDisabled(o, e, full) == [objs[o].back EXCEPT ![e] = "off"]

Remaining(o, e, full) == [objs[o].back EXCEPT ![e] = IF full THEN "none" ELSE "off"]

\* The bindings once the object of service s has lost its last load balancer, or not.
UnboundNever(s, last) == bindings

Unbound(s, last) == IF last THEN [bindings EXCEPT ![s] = 0] ELSE bindings

Unbind(e, o, full, records) ==
  LET n == NetOf[e]
      m == objs[o].lbs[n]
      back == Remaining(o, e, full)
      rmService == \A x \in Task : NetOf[x] = n => back[x] = "none"
      left == Left(o, e)
      lbs == IF rmService THEN [objs[o].lbs EXCEPT ![n] = 0] ELSE objs[o].lbs
      last == \A x \in Network : lbs[x] = 0
  IN IF m = 0 \/ objs[o].back[e] = "none"
     THEN UNCHANGED bound
     ELSE /\ objs' = [objs EXCEPT ![o].lbs = lbs, ![o].back = back,
                                  ![o].ips = @ \ {<<IpOf[e], e>>}, ![o].deleted = last]
          /\ bindings' = Unbound(SvcOf[e], last)
          /\ IF left = 0 /\ n \in nets
             THEN RmLBBackend(e, m, rmService, full) ELSE UNCHANGED <<virt, dest>>
          /\ IF records /\ n \in nets THEN RmNames(e, rmService, left > 0) ELSE UNCHANGED dns
          /\ UNCHANGED mark

-----------------------------------------------------------------------------
(***************************************************************************)
(* A call of addServiceBinding or rmServiceBinding by goroutine p for task *)
(* e, and what its caller does when it returns.                            *)
(***************************************************************************)

Adding(p, e) == [proc EXCEPT ![p] = [Idle EXCEPT !.pc = IF SvcOf[e] = NoService THEN "record"
                                                        ELSE "lock", !.task = e]]
Removing(p, e, full, records) ==
  [proc EXCEPT ![p] = [@ EXCEPT !.pc = IF SvcOf[e] = NoService THEN "unrecord" ELSE "find",
                                !.task = e, !.full = full, !.dns = records]]

\* The table watcher takes its next event, EnableService goes on to publish.
Added(p, ok) ==
  IF p[1] = "service" /\ ok
  THEN Goto(p, "publish") /\ UNCHANGED sb
  ELSE /\ Done(p)
       /\ sb' = IF p[1] = "service" THEN [sb EXCEPT ![p[2]].locked = FALSE] ELSE sb

\* DisableService is done, sbLeave goes on to clear the sandbox, the cleanup takes the next.
Removed(p) ==
  /\ proc' = CASE p[1] = "leave" -> [proc EXCEPT ![p].pc = "clear"]
               [] p[1] = "cluster" -> [proc EXCEPT ![p].pc = "cleanup", ![p].task = NoTask]
               [] OTHER -> [proc EXCEPT ![p] = Idle]
  /\ sb' = CASE p[1] = "leave" -> [sb EXCEPT ![p[2]].locked = FALSE]
             [] p[1] = "service" -> [sb EXCEPT ![p[2]].locked = FALSE, ![p[2]].enabled = FALSE]
             [] OTHER -> sb

\* addServiceBinding takes the lock of the network, and gives up if the network is gone.
LockNetwork(p) ==
  LET n == NetOf[proc[p].task]
  IN /\ At(p, "lock") /\ n \notin locked
     /\ IF n \in nets
        THEN locked' = locked \cup {n} /\ Goto(p, "lookup") /\ UNCHANGED sb
        ELSE Added(p, FALSE) /\ UNCHANGED locked
     /\ UNCHANGED <<table, queue, agent, nets, bound>>

\* The service object is found, or created, under the lock of the controller.
LookupService(p) ==
  LET s == SvcOf[proc[p].task]
      o == IF bindings[s] = 0 THEN Len(objs) + 1 ELSE bindings[s]
  IN /\ At(p, "lookup") /\ o <= MaxObjects
     /\ objs' = IF bindings[s] = 0 THEN Append(objs, NewObject(s)) ELSE objs
     /\ bindings' = [bindings EXCEPT ![s] = o]
     /\ proc' = [proc EXCEPT ![p].pc = "bind", ![p].obj = o]
     /\ UNCHANGED <<table, queue, agent, core, virt, dest, dns, mark, sb>>

\* It may have been deleted since: then the lookup starts again.
BindIgnoresDeleted(p) ==
  LET c == proc[p]
  IN /\ At(p, "bind")
     /\ Bind(c.task, c.obj)
     /\ locked' = locked \ {NetOf[c.task]}
     /\ Added(p, TRUE)
     /\ UNCHANGED <<table, queue, agent, nets>>

AddBinding(p) ==
  LET c == proc[p]
  IN /\ At(p, "bind")
     /\ IF objs[c.obj].deleted
        THEN Goto(p, "lookup") /\ UNCHANGED <<bound, locked, sb>>
        ELSE /\ Bind(c.task, c.obj)
             /\ locked' = locked \ {NetOf[c.task]}
             /\ Added(p, TRUE)
     /\ UNCHANGED <<table, queue, agent, nets>>

\* rmServiceBinding looks the object up, and removes the endpoint from it.
FindService(p) ==
  LET o == bindings[SvcOf[proc[p].task]]
  IN /\ At(p, "find")
     /\ IF o = 0 THEN Removed(p)
        ELSE proc' = [proc EXCEPT ![p].pc = "unbind", ![p].obj = o] /\ UNCHANGED sb
     /\ UNCHANGED <<table, queue, agent, core, bound>>

RemoveBinding(p) ==
  LET c == proc[p]
  IN /\ At(p, "unbind")
     /\ Unbind(c.task, c.obj, c.full, c.dns)
     /\ Removed(p)
     /\ UNCHANGED <<table, queue, agent, core>>

\* addContainerNameResolution and delContainerNameResolution of a plain container.
RecordName(p) ==
  /\ At(p, "record")
  /\ IF NetOf[proc[p].task] \in nets THEN Goto(p, "name") /\ UNCHANGED sb
     ELSE Added(p, FALSE)
  /\ UNCHANGED <<table, queue, agent, core, bound>>

AddName(p) ==
  /\ At(p, "name")
  /\ dns' = dns \cup Names(proc[p].task)
  /\ Added(p, TRUE)
  /\ UNCHANGED <<table, queue, agent, core, bindings, objs, virt, dest, mark>>

UnrecordName(p) ==
  /\ At(p, "unrecord")
  /\ IF NetOf[proc[p].task] \in nets
     THEN dns' = dns \ Names(proc[p].task) ELSE UNCHANGED dns
  /\ Removed(p)
  /\ UNCHANGED <<table, queue, agent, core, bindings, objs, virt, dest, mark>>

BindingStep(p) ==
  \/ LockNetwork(p) \/ LookupService(p) \/ AddBinding(p)
  \/ FindService(p) \/ RemoveBinding(p)
  \/ RecordName(p) \/ AddName(p) \/ UnrecordName(p)
-----------------------------------------------------------------------------
(***************************************************************************)
(* The watcher of the endpoint table, handleEpTableEvent: a CreateEvent    *)
(* adds the task whether or not its record says it is disabled, an         *)
(* UpdateEvent can only disable it.                                        *)
(***************************************************************************)
HandleEpTableEvent ==
  /\ queue # <<>> /\ At(Watcher, "idle")
  /\ queue' = Tail(queue)
  /\ LET ev == Head(queue)
     IN proc' = CASE ev.type = "create" -> Adding(Watcher, ev.task)
                  [] ev.type = "delete" -> Removing(Watcher, ev.task, TRUE, TRUE)
                  [] ev.type = "update" /\ SvcOf[ev.task] # NoService ->
                       Removing(Watcher, ev.task, FALSE, TRUE)
                  [] OTHER -> proc
  /\ UNCHANGED <<table, agent, core, bound, sb>>

-----------------------------------------------------------------------------
(***************************************************************************)
(* A local container: EnableService and DisableService of its sandbox, and *)
(* sbLeave of its endpoint, each with the Service lock of the sandbox.     *)
(***************************************************************************)

\* Without the cluster agent (isClusterEligible) only the flag of the endpoint changes.
EnableService(e) ==
  /\ At(Svc(e), "idle") /\ sb[e].present /\ ~sb[e].enabled
  /\ IF agent THEN Goto(Svc(e), "enable") /\ UNCHANGED sb
     ELSE sb' = [sb EXCEPT ![e].enabled = TRUE] /\ UNCHANGED proc
  /\ UNCHANGED <<table, queue, agent, core, bound>>

AddServiceInfo(e) ==
  /\ At(Svc(e), "enable") /\ ~sb[e].locked
  /\ IF sb[e].present
     THEN proc' = Adding(Svc(e), e) /\ sb' = [sb EXCEPT ![e].locked = TRUE]
     ELSE Done(Svc(e)) /\ sb' = [sb EXCEPT ![e].enabled = TRUE]
  /\ UNCHANGED <<table, queue, agent, core, bound>>

\* CreateEntry refuses a record that is there, disabled or deleted; then nothing is undone.
PublishRecord(e) ==
  /\ At(Svc(e), "publish")
  /\ rec' = [rec EXCEPT ![e] = IF @ = "none" THEN "on" ELSE @]
  /\ sb' = [sb EXCEPT ![e].locked = FALSE, ![e].enabled = (rec[e] = "none")]
  /\ Done(Svc(e))
  /\ UNCHANGED <<disabled, known, flaps, queue, agent, core, bound>>

DisableService(e) ==
  /\ At(Svc(e), "idle") /\ sb[e].present /\ sb[e].enabled
  /\ IF agent THEN Goto(Svc(e), "disable") /\ UNCHANGED sb
     ELSE sb' = [sb EXCEPT ![e].enabled = FALSE] /\ UNCHANGED proc
  /\ UNCHANGED <<table, queue, agent, core, bound>>

\* First the record, then the bindings of this node.
DisableServiceInfo(e) ==
  /\ At(Svc(e), "disable") /\ ~sb[e].locked
  /\ IF sb[e].present
     THEN /\ rec' = [rec EXCEPT ![e] = IF @ = "on" THEN "off" ELSE @]
          /\ proc' = Removing(Svc(e), e, FALSE, TRUE)
          /\ sb' = [sb EXCEPT ![e].locked = TRUE]
     ELSE Done(Svc(e)) /\ sb' = [sb EXCEPT ![e].enabled = FALSE] /\ UNCHANGED rec
  /\ UNCHANGED <<disabled, known, flaps, queue, agent, core, bound>>

SbLeave(e) ==
  /\ At(Leave(e), "idle") /\ sb[e].present
  /\ Goto(Leave(e), IF agent THEN "leave" ELSE "clear")
  /\ UNCHANGED <<table, queue, agent, core, bound, sb>>

DeleteServiceInfo(e) ==
  /\ At(Leave(e), "leave") /\ ~sb[e].locked
  /\ rec' = [rec EXCEPT ![e] = IF @ \in {"on", "off"} THEN "gone" ELSE @]
  /\ proc' = Removing(Leave(e), e, TRUE, TRUE)
  /\ sb' = [sb EXCEPT ![e].locked = TRUE]
  /\ UNCHANGED <<disabled, known, flaps, queue, agent, core, bound>>

\* clearNetworkResources takes the endpoint off the list of its sandbox.
ClearNetworkResources(e) ==
  /\ At(Leave(e), "clear")
  /\ sb' = [sb EXCEPT ![e].present = FALSE]
  /\ Done(Leave(e))
  /\ UNCHANGED <<table, queue, agent, core, bound>>

LocalStep(e) ==
  \/ AddServiceInfo(e) \/ PublishRecord(e) \/ DisableServiceInfo(e)
  \/ DeleteServiceInfo(e) \/ ClearNetworkResources(e)
-----------------------------------------------------------------------------
(***************************************************************************)
(* network.delete, once the endpoints of this node have left it: under the *)
(* lock of the network its load balancer sandbox goes, with what IPVS held *)
(* there, then its part of the table, then its name records, then it.      *)
(***************************************************************************)

DeleteNetwork(n) ==
  /\ At(Deleter(n), "idle") /\ n \in nets \ locked
  /\ \A e \in Local : NetOf[e] = n => ~sb[e].present /\ At(Leave(e), "idle")
  /\ locked' = locked \cup {n}
  /\ virt' = {v \in virt : v[1] # n}
  /\ dest' = {d \in dest : d[1] # n}
  /\ Goto(Deleter(n), "leaving")
  /\ UNCHANGED <<table, queue, agent, nets, bindings, objs, dns, mark, sb>>

\* The entries of network n this node has are dropped, and the watcher is told.
Dropped(n) == {e \in Remote : NetOf[e] = n /\ known[e] \in {"on", "off"}}

Forgotten(n) == [e \in Remote |-> IF NetOf[e] = n THEN "none" ELSE known[e]]

LeaveCluster(n) ==
  /\ At(Deleter(n), "leaving")
  /\ IF agent
     THEN /\ known' = Forgotten(n)
          /\ queue' = queue \o SetToSeq({Event("delete", e) : e \in Dropped(n)})
     ELSE UNCHANGED <<known, queue>>
  /\ Goto(Deleter(n), "discovery")
  /\ UNCHANGED <<rec, disabled, flaps, agent, core, bound, sb>>

CleanupServiceDiscovery(n) ==
  /\ At(Deleter(n), "discovery")
  /\ dns' = {r \in dns : r[1] # n}
  /\ Goto(Deleter(n), "removing")
  /\ UNCHANGED <<table, queue, agent, core, bindings, objs, virt, dest, mark, sb>>

DeleteFromStore(n) ==
  /\ At(Deleter(n), "removing")
  /\ nets' = nets \ {n}
  /\ locked' = locked \ {n}
  /\ Done(Deleter(n))
  /\ UNCHANGED <<table, queue, agent, bound, sb>>

DeleteStep(n) == LeaveCluster(n) \/ CleanupServiceDiscovery(n) \/ DeleteFromStore(n)

-----------------------------------------------------------------------------
(***************************************************************************)
(* The node leaves the cluster: agentClose ends the watch, an event that   *)
(* is being handled is not waited for, then every name record and every    *)
(* binding is removed.                                                     *)
(***************************************************************************)

AgentClose ==
  /\ agent
  /\ agent' = FALSE /\ queue' = <<>>
  /\ known' = [e \in Remote |-> "none"]
  /\ Goto(Cluster, "discovery")
  /\ UNCHANGED <<rec, disabled, flaps, core, bound, sb>>

CleanupAllDiscovery ==
  /\ At(Cluster, "discovery")
  /\ dns' = {}
  /\ Goto(Cluster, "snapshot")
  /\ UNCHANGED <<table, queue, agent, core, bindings, objs, virt, dest, mark, sb>>

\* cleanupServiceBindings: the objects, then the endpoints of each, then their removal.
SnapshotServices ==
  /\ At(Cluster, "snapshot")
  /\ proc' = [proc EXCEPT ![Cluster].pc = "collect",
                          ![Cluster].todo = {bindings[s] : s \in Service} \ {0}]
  /\ UNCHANGED <<table, queue, agent, core, bound, sb>>

CollectEndpoints ==
  /\ At(Cluster, "collect")
  /\ LET todo == proc[Cluster].todo
         left == todo \cap (1..MaxObjects)
         o == CHOOSE o \in left : TRUE
     IN proc' = IF left = {} THEN [proc EXCEPT ![Cluster].pc = "cleanup"]
                ELSE [proc EXCEPT ![Cluster].todo =
                        (todo \ {o}) \cup (IF objs[o].deleted THEN {}
                                           ELSE {e \in Task : objs[o].back[e] # "none"})]
  /\ UNCHANGED <<table, queue, agent, core, bound, sb>>

CleanupServiceBindings ==
  /\ At(Cluster, "cleanup")
  /\ LET todo == proc[Cluster].todo
     IN IF todo = {} THEN Done(Cluster)
        ELSE \E e \in todo :
               proc' = [Removing(Cluster, e, TRUE, FALSE) EXCEPT ![Cluster].todo = @ \ {e}]
  /\ UNCHANGED <<table, queue, agent, core, bound, sb>>

ClusterStep ==
  CleanupAllDiscovery \/ SnapshotServices \/ CollectEndpoints \/ CleanupServiceBindings

-----------------------------------------------------------------------------

Next ==
  \/ \E e \in Remote : \/ RemoteEnable(e) \/ RemoteDisable(e) \/ RemoteLeave(e) \/ NodeFails(e)
                       \/ \E v \in {"on", "off", "gone"}, sync \in BOOLEAN : Learn(e, v, sync)
  \/ HandleEpTableEvent
  \/ \E p \in Proc : BindingStep(p)
  \/ \E e \in Local : EnableService(e) \/ DisableService(e) \/ SbLeave(e) \/ LocalStep(e)
  \/ \E n \in Network : DeleteNetwork(n) \/ DeleteStep(n)
  \/ AgentClose \/ ClusterStep

\* Goroutines run; what users and other nodes do is not forced.
Fairness ==
  /\ WF_vars(HandleEpTableEvent) /\ WF_vars(ClusterStep)
  /\ \A p \in Proc : WF_vars(BindingStep(p))
  /\ \A e \in Local : WF_vars(LocalStep(e))
  /\ \A n \in Network : WF_vars(DeleteStep(n))

Spec == Init /\ [][Next]_vars /\ Fairness
-----------------------------------------------------------------------------
Object == [svc : Service, lbs : [Network -> Nat], deleted : BOOLEAN,
           back : [Task -> {"none", "on", "off"}], ips : SUBSET (Ip \X Task)]

\* Every variable has its type; a deleted object holds nothing.
TypeOK ==
  /\ rec \in [Task -> Status] /\ known \in [Remote -> Status]
  /\ disabled \subseteq Remote
  /\ queue \in Seq([type : {"create", "update", "delete"}, task : Remote])
  /\ agent \in BOOLEAN /\ nets \subseteq Network /\ locked \subseteq Network
  /\ bindings \in [Service -> 0..Len(objs)] /\ objs \in Seq(Object)
  /\ \A o \in DOMAIN objs : objs[o].deleted => objs[o].back = NewObject(objs[o].svc).back
  /\ \A v \in virt : v \in Network \X Nat
  /\ \A d \in dest : d[1] \in Network /\ d[3] \in Ip /\ d[4] \in 0..1
  /\ mark \in Nat /\ flaps \in 0..MaxFlaps
  /\ sb \in [Local -> [present : BOOLEAN, enabled : BOOLEAN, locked : BOOLEAN]]
  /\ proc \in [Proc -> Call]

\* Nothing is queued and no goroutine is in a call.
Quiet == queue = <<>> /\ \A p \in Proc : At(p, "idle")

\* What the table of this node says of task e, nothing without the agent or the network.
Listed(e) == IF ~agent \/ NetOf[e] \notin nets THEN "none"
             ELSE IF e \in Local THEN rec[e] ELSE known[e]

\* The state of e in the service object its service is bound to.
Backend(e) == IF bindings[SvcOf[e]] = 0 THEN "none" ELSE objs[bindings[SvcOf[e]]].back[e]

Tasked == {e \in Task : SvcOf[e] # NoService}

(***************************************************************************)
(* In quiet states a task is an enabled back end of its service exactly    *)
(* when the table lists it as enabled, and is no back end at all when it   *)
(* is not listed: whatever the order in which the events of the table, the *)
(* calls of local containers, the deletion of networks and the end of the  *)
(* agent met in addServiceBinding and rmServiceBinding.                    *)
(***************************************************************************)
BindingsFollowTable ==
  Quiet => \A e \in Tasked : /\ Backend(e) = "on" <=> Listed(e) = "on"
                             /\ Listed(e) \in {"none", "gone"} => Backend(e) = "none"

(***************************************************************************)
(* In quiet states the DNS server has the name of every enabled task and   *)
(* of its service, once for every address, the virtual IP of every service *)
(* with a back end, and no other name (addEndpointNameResolution,          *)
(* deleteEndpointNameResolution): a record shared by two tasks with one    *)
(* address lives as long as either.                                        *)
(***************************************************************************)
NamesFollowTable ==
  Quiet => dns = UNION {Names(e) : e \in {x \in Task : Listed(x) = "on"}}
                 \cup UNION {Tasks(e) \cup (IF SvcOf[e] \in HasVip THEN {} ELSE ByName(e, IpOf[e]))
                             : e \in {x \in Tasked : Listed(x) = "on"}}
                 \cup UNION {ByName(e, Vip)
                             : e \in {x \in Tasked : Backend(x) # "none" /\ SvcOf[x] \in HasVip}}

\* The mark of the load balancer of e.
MarkOf(e) == objs[bindings[SvcOf[e]]].lbs[NetOf[e]]

(***************************************************************************)
(* In quiet states IPVS has one virtual service for each load balancer of  *)
(* a service with a virtual IP, sends traffic to the address of a task     *)
(* exactly when an enabled task has it, and keeps an address without       *)
(* traffic only for a disabled task (addLBBackend, rmLBBackend).           *)
(***************************************************************************)
TrafficFollowsTable ==
  LET balanced == {e \in Tasked : SvcOf[e] \in HasVip /\ Backend(e) # "none"}
      at(S, w) == {<<NetOf[e], MarkOf(e), IpOf[e], w>> : e \in {x \in balanced : Backend(x) \in S}}
  IN Quiet => /\ virt = {<<NetOf[e], MarkOf(e)>> : e \in balanced}
              /\ {d \in dest : d[4] = 1} = at({"on"}, 1)
              /\ {d \in dest : d[4] = 0} \subseteq at({"off"}, 0)

(***************************************************************************)
(* A service never has two live objects: the one it is bound to is not     *)
(* deleted, and an object with a back end is the one its service is bound  *)
(* to.  This is what the deleted flag is for: an add that looked an object *)
(* up before the last remove must not use it.                              *)
(***************************************************************************)
OneLiveObject ==
  /\ \A s \in Service : bindings[s] # 0 => ~objs[bindings[s]].deleted
  /\ \A o \in DOMAIN objs : (\E e \in Task : objs[o].back[e] # "none") => bindings[objs[o].svc] = o

(***************************************************************************)
(* Every event is handled and every call returns: no add looks up deleted  *)
(* objects for ever, nobody keeps the lock of a network or of a sandbox.   *)
(***************************************************************************)
CallsReturn == <>[]Quiet

(***************************************************************************)
(* sandbox.go: "DisableService removes a managed container's endpoints     *)
(* from the load balancer and service discovery".  In quiet states a task  *)
(* this node's table lists as disabled is not an enabled back end here.    *)
(***************************************************************************)
DisabledRemoved ==
  Quiet /\ agent => \A e \in Remote \cap Tasked : known[e] = "off" => Backend(e) # "on"
============================================================================
