------------------------------- MODULE MCKeys -------------------------------
(***************************************************************************)
(* Two nodes of a swarm and the rotations of its keys, for TLC.             *)
(***************************************************************************)
EXTENDS Keys

(***************************************************************************)
(* The driver's keys are not updated while a peer is set up or removed, and *)
(* no peer is while they are: checkEncryption reads the driver's keys       *)
(* without its lock.  What happens otherwise is in README.md.               *)
(***************************************************************************)
SetupAlone == \A n \in Nodes : ~(job[n]' # NoJob /\ Updating(n)')

====
