----------------------------- MODULE MCServices -----------------------------
(***************************************************************************)
(* Instances of Services for TLC: two remote tasks of one service that     *)
(* have, one after the other, the same address, a local task of that       *)
(* service and a remote container of no service, on one network.           *)
(***************************************************************************)
EXTENDS Services

CONSTANTS t1, t2, l1, c1, n1, web, ip1, ip2, ip3

TaskNet == [e \in Task |-> n1]
TaskSvc == [e \in Task |-> IF e = c1 THEN NoService ELSE web]
TaskIp  == [e \in Task |-> IF e = l1 THEN ip2 ELSE IF e = c1 THEN ip3 ELSE ip1]

(***************************************************************************)
(* What the passing run leaves out: the orders in which the code does go   *)
(* wrong, each described with the property it breaks in README.md.         *)
(***************************************************************************)

\* A disabled record reaches this node by gossip, not by a bulk sync.
GossipDisables ==
  Len(queue') > Len(queue) =>
    LET ev == queue'[Len(queue')]
    IN ~(ev.type = "create" /\ known'[ev.task] = "off")

\* A task is not learned while one with its address is known to be disabled.
ReuseInOrder ==
  \A e, o \in Remote : ~(e # o /\ IpOf[e] = IpOf[o] /\ known[e] # "on" /\ known'[e] = "on"
                         /\ known[o] = "off")

\* EnableService is not called again for a task whose record exists.
EnabledOnce ==
  \A e \in Local : At(Svc(e), "idle") /\ proc'[Svc(e)].pc = "enable" => rec[e] = "none"

\* EnableService does not get the Service lock between the two halves of sbLeave.
NoneBetween ==
  \A e \in Local : At(Svc(e), "enable") /\ proc'[Svc(e)].pc # "enable"
                     => ~At(Leave(e), "clear")

\* The agent is closed with no call in progress; the names of a network are
\* cleaned up with no plain container of it about to be named.
CleanupAlone ==
  /\ agent # agent' => \A p \in Proc : At(p, "idle")
  /\ \A n \in Network : At(Deleter(n), "discovery") /\ proc'[Deleter(n)].pc = "removing"
       => /\ \A p \in Proc : proc[p].pc \notin {"record", "name"}
          /\ \A i \in DOMAIN queue : queue[i].type = "create" => SvcOf[queue[i].task] # NoService

(***************************************************************************)
(* To keep the instance small: two of the tasks are used (the remote ones  *)
(* are alike, so the first one first; a local one that is not used leaves  *)
(* before anything else, if it does), at most two events wait, and of      *)
(* the end of the agent, the deletion of the network and the failure of a  *)
(* remote node one happens.                                                *)
(***************************************************************************)
FewEvents ==
  LET deleting == nets' # Network \/ \E n \in Network : proc'[Deleter(n)] # Idle
      used == {e \in Task : rec'[e] # "none" \/ (e \in Local /\ (proc'[Svc(e)] # Idle \/ sb'[e].enabled))}
  IN /\ ~(~agent' /\ (deleting \/ flaps' > 0)) /\ ~(deleting /\ flaps' > 0)
     /\ Cardinality(used) <= 2 /\ (t2 \in used => t1 \in used)
     /\ \A e \in Local \ used : proc'[Leave(e)] # Idle => used = {} /\ agent' /\ ~deleting
     /\ Len(queue') <= 2
============================================================================
