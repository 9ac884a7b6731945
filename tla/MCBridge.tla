------------------------------ MODULE MCBridge ------------------------------
(* Instances of Bridge for TLC.                                            *)
EXTENDS Bridge, TLC
LOCAL INSTANCE SequencesExt

CONSTANTS n1, n2, n3, e1, e2, any4, any6

MCNetOf == e1 :> n1 @@ e2 :> n2

\* A port of the dynamic range on every address; a range on one.
Dynamic == [host |-> None, first |-> 0, last |-> 0]
Some == [host |-> any4, first |-> Begin, last |-> End]
MCRequests == {<<Dynamic>>, <<Some>>}
MCConflict == {{n1, n3}}

\* The two releases of a port whose proxy failed, with nobody in between.
CleanupAlone ==
    \A e \in Endpoint : proc[e].pc = "deferred" => proc'[e].pc # "deferred"

\* One of: a failure, a crash, a reload of the firewall.
FewEvents == faults + crashes + reloads <= 1

\* The networks are created in one order: n3 conflicts with n1 and comes last.
InOrder == IsPrefix(hooks, <<n1, n2, n3>>) \/ crashes > 0

=============================================================================
