----------------------- MODULE MCClusterReincarnation -----------------------
(* Node b closes or crashes, and its daemon comes back as c at the same    *)
(* address, while a stays up.                                              *)
EXTENDS MCNetworkDBCluster

ReincarnationNext ==
    \/ \E x \in Node : Start(x)
    \/ Close(b) \/ Shutdown(b) \/ Crash(b)
    \/ \E x, y \in Node : NotifyJoin(x, y) \/ NotifyLeave(x, y) \/ PushPull(x, y)
    \/ Attach \/ Gossip

ReincarnationSpec == Init /\ [][ReincarnationNext]_clusterVars

(***************************************************************************)
(* NotifyJoin checks "if the new node that joined is actually a new        *)
(* incarnation of a previous failed or shutdown one"                       *)
(* (event_delegate.go:37): it moves no running node to the left list.      *)
(***************************************************************************)
PurgesOnlyStopped ==
    [][\A x, y \in Node :
          nodes[x][y].state # "left" /\ nodes'[x][y].state = "left"
              => status[y] # "up"]_clusterVars
=============================================================================
