------------------------------- MODULE MCIPAM -------------------------------
EXTENDS IPAM, TLC

CONSTANTS p1, p2, n1, n2

MCPredefined == <<n1>>
MCRanges == {<<4, 5>>}
MCOverlap == {{n1, n2}}

\* A pool is not asked for while it is being released.
Overlaps(c, d) ==
    /\ c.op = "ReleasePool" /\ d.op \in {"RequestPool", "ReleasePool"}
    /\ d.key = None \/ c.key.pool = d.key.pool
ReleasedAlone == \A p, q \in Procs : p # q => ~Overlaps(proc'[p], proc'[q])

=============================================================================
