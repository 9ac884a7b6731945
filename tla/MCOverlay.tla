------------------------------ MODULE MCOverlay ------------------------------
(***************************************************************************)
(* Overlay for TLC: an endpoint of this node and two of other nodes, all of *)
(* one address, which each gets when the one before it left.                *)
(***************************************************************************)
EXTENDS Overlay, TLC

CONSTANTS l1, r1, r2, ip1, mac1, mac2, v0, v1, v2

MCLocals == {l1}
MCRemotes == {r1, r2}

\* A MAC address is made from the IP address...
MCIpOf == [e \in {l1, r1, r2} |-> ip1]
MCMacOf == [e \in {l1, r1, r2} |-> mac1]

\* ... unless the user chose it.
MCChosenMac == [MCMacOf EXCEPT ![l1] = mac2]

MCVtepOf == l1 :> v0 @@ r1 :> v1 @@ r2 :> v2

(***************************************************************************)
(* For size: the second remote endpoint comes after the first, and in the   *)
(* first network; the node's endpoint comes when the walk started and does  *)
(* not go before it joined; one event waits; and of two networks, two joins *)
(* and a failure, two of the three happen: the runs have joins + networks + *)
(* failures at most 3.                                                      *)
(***************************************************************************)
FewEvents ==
    /\ table'[r2] # "new" => table'[r1] # "new"
    /\ table'[r2] = "known" => gen' = 1
    /\ Len(events') <= 1
    /\ \A e \in Locals : eps'[e] # eps[e] =>
          /\ eps[e] = "none" => watch = "on"
          /\ eps'[e] = "none" => joins > 0
    /\ joins' + gen' + fails' <= 3
====
