------------------------ MODULE MCClusterConvergence ------------------------
(* Convergence of the attachments among nodes that stay up, while          *)
(* memberlist may still lose and recover them.                             *)
EXTENDS MCNetworkDBCluster

Agree(x, y) == \A n \in Network : y \in networkNodes[x][n] <=> y \in networkNodes[y][n]

\* A leaving attachment is kept for more than 30 minutes.  Push-pull runs every
\* 30 seconds and an exchange times out in less: an attachment is forgotten
\* after the peers have heard of it and no memberlist join is in progress.
SlowReap(x) ==
    /\ \A y \in Node : answers[y] = {}
    /\ \A y \in Node : Up(y) /\ x \in ml[y] => Agree(y, x)
    /\ ReapNetworks(x)

Finish(x) == \E ev \in calls[x] : JoinNetworkLocked(x, ev) \/ LeaveNetworkLocked(x, ev)

\* Only a joins and leaves networks: no handler relates the attachments of two
\* nodes, so that those of b would only multiply the states.
Calls ==
    \/ \E n \in Network : JoinNetwork(a, n) \/ LeaveNetwork(a, n)
    \/ Finish(a)

ConvergenceNext ==
    \/ \E x \in Node : Start(x) \/ SlowReap(x)
    \/ \E x, y \in Node : NotifyJoin(x, y) \/ NotifyLeave(x, y)
    \/ \E x \in Node : \E ev \in networkQ[x], y \in Node : GossipNetworkEvent(x, y, ev)
    \/ Sync \/ Calls

\* The periodic push-pull runs, and calls return.
Fairness ==
    \A x \in Node : /\ WF_clusterVars(Finish(x))
                    /\ \A y \in Node : WF_clusterVars(PushPull(x, y))

ConvergenceSpec == Init /\ [][ConvergenceNext]_clusterVars /\ Fairness

\* No memberlist join overlaps a call to JoinNetwork or LeaveNetwork.
NoOverlap ==
    (\E x \in Node : ~(answers'[x] \subseteq answers[x])) => \A x \in Node : calls[x] = {}

(***************************************************************************)
(* Two nodes that stay in touch end up with the same view of the networks  *)
(* that each of them is attached to: docs/networkdb.md:20, "Updates spread *)
(* through the cluster ... They will eventually converge".                 *)
(***************************************************************************)
Convergence ==
    \A x, y \in Node :
        <>[](Up(x) /\ Up(y) /\ y \in ml[x] /\ x \in ml[y]) => <>[]Agree(x, y)
=============================================================================
