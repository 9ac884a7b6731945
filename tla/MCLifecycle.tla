---------------------------- MODULE MCLifecycle ----------------------------
(* Instances of Lifecycle for TLC.                                         *)
EXTENDS Lifecycle, TLC

CONSTANTS n1, e1, e2, s1, s2, p1, p2

MCNetOf == e1 :> n1 @@ e2 :> n1

\* e2 comes before e1 in a sandbox, and takes the external connectivity over.
MCRank == e1 :> 2 @@ e2 :> 1

\* The daemon's lock of a container: two calls are not about one endpoint, and
\* the endpoints of a sandbox do not join or leave while it is deleted.
ContainerLock ==
    \A p, q \in Caller :
        LET a == proc'[p]
            b == proc'[q]
        IN p # q =>
            /\ a.e # None => a.e # b.e /\ a.e \notin {b.todo[i] : i \in DOMAIN b.todo}
            /\ a.op = "sandbox.delete" \/ a.pc = "rename" => a.s # b.s

\* The count of a renamed endpoint's network is still the one that was read when
\* the endpoint joined.
FreshCount ==
    \A p \in Caller : proc'[p].pc = "updateStore" =>
        LET e == proc'[p].e IN cnts'[NetOf[e]] = copies'[e].cnt

\* The daemon does not crash between the removal of a count and of its network;
\* the containers that outlive a crash are not in the middle of a Join, and
\* there are none in the middle of CreateEndpoint.
SafeCrash ==
    crashes' # crashes =>
    \A p \in Proc : /\ proc[p].pc # "removeNetwork"
                    /\ proc[p].pc = "storeJoin" => proc[p].s \notin active'
                    /\ proc[p].pc = "IncEndpointCnt" => active' = {}

\* A failure of the driver or a crash, and no rename after it.
FewEvents ==
    /\ faults' + crashes' <= 1
    /\ \A p \in Caller : proc'[p].pc = "rename" => faults' + crashes' = 0

\* A call is made by p2 only while p1 is busy: callers are interchangeable, and
\* one that has returned remembers nothing.
FreeCallerFirst == proc[p2] = Idle /\ proc'[p2] # Idle => proc[p1] # Idle

=============================================================================
