------------------------- MODULE MCNetworkDBCluster -------------------------
(* Instances of NetworkDBCluster for TLC.                                  *)
EXTENDS NetworkDBCluster, TLC
CONSTANTS a, b, c

\* every node at its own address
OwnAddr == [x \in Node |-> x]

\* c is the new incarnation of b
ReusedAddr == [x \in Node |-> IF x = c THEN b ELSE x]

\* one call and one answer of a memberlist join in flight, and short queues
FewInFlight ==
    /\ \A x, y \in Node : calls[x] # {} /\ calls[y] # {} => x = y
    /\ \A x, y \in Node : answers[x] # {} /\ answers[y] # {} => x = y
    /\ \A x \in Node : Cardinality(calls[x]) <= 1 /\ Cardinality(answers[x]) <= 1
    /\ \A x \in Node : Cardinality(nodeQ[x]) <= 1

Symmetry == Permutations(Node)
=============================================================================
