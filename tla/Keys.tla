-------------------------------- MODULE Keys --------------------------------
(***************************************************************************)
(* The rotation of the keys of a swarm (agent.go) and what it does to the   *)
(* gossip key ring (networkdb/cluster.go) and to the IPSec states between   *)
(* the nodes of encrypted overlay networks (drivers/overlay/encryption.go). *)
(*                                                                         *)
(* The swarm manager, which is external, keeps three gossip keys and three  *)
(* IPSec keys; a rotation drops the oldest of each and makes a new one.  A  *)
(* key is its Lamport time: the gossip keys have the odd times, the IPSec   *)
(* keys the even ones.  The nodes hear of a rotation one by one, and go on  *)
(* exchanging packets all the time: a packet can be read by a node that has *)
(* the key its sender uses.                                                 *)
(*                                                                         *)
(* Between two nodes, a security association is the time of its key.        *)
(***************************************************************************)
EXTENDS Integers, FiniteSets, Sequences
LOCAL INSTANCE SequencesExt
LOCAL INSTANCE FiniteSetsExt

CONSTANTS
    Nodes,       \* the nodes of the swarm
    Nil,         \* no key, no peer
    MaxRing,     \* bound on the rotations
    MaxLag,      \* how many rotations behind the manager a node may be
    MaxPeerings  \* bound on how often a node meets or loses a peer

ASSUME KeysAssumption ==
    /\ IsFiniteSet(Nodes) /\ Nil \notin Nodes
    /\ {MaxRing, MaxLag, MaxPeerings} \subseteq Nat

VARIABLES
    ring,      \* how many rotations there were
    heard,     \* the rotation each node heard of last, or -1
    agent,     \* whether the node's agent is up
    keys,      \* the controller's keys
    gossip,    \* NetworkDB's keys, and the key ring's keys and primary key
    dkeys,     \* the overlay driver's keys, the primary first
    spis,      \* secMap: the keys of the associations with each peer
    rsa, fsa,  \* the associations that decrypt and encrypt, by peer
    sp,        \* the association the policy tells to encrypt with, by peer
    peering,   \* whether the node and a peer share an encrypted network
    job,       \* the set-up or removal of a peer that is under way
    upd,       \* the key change that is under way
    peerings   \* how often a node met or lost a peer

vars == <<ring, heard, agent, keys, gossip, dkeys, spis, rsa, fsa, sp, peering,
          job, upd, peerings>>
kernel == <<rsa, fsa, sp>>
peers == <<peering, job, peerings>>

keyringSize == 3

Times == 1 .. 2 * (MaxRing + keyringSize)

\* The manager's keys after r rotations.
Ring(r) == 2 * r + 1 .. 2 * (r + keyringSize)

Gossip(S) == {t \in S : t % 2 = 1}
IPSec(S) == {t \in S : t % 2 = 0}

Sorted(S) == SelectSeq([t \in Times |-> t], LAMBDA t : t \in S)

\* getPrimaryKeyTag: the second of a subsystem's keys, in the order of time.
Primary(S) == Sorted(S)[2]

\* getKeys: the keys in the order of time, the primary moved to the front.
GetKeys(S) ==
    LET ks == Sorted(S) IN [ks EXCEPT ![1] = ks[2], ![2] = ks[1]]

\* Nothing is under way.
NoJob == [at |-> "none", peer |-> Nil, ks |-> <<>>]
NoUpd == [at |-> "none", deleted |-> Nil, new |-> Nil, prune |-> Nil,
          todo |-> {}, peer |-> Nil]

IsKeySeq(ks) == Range(ks) \subseteq IPSec(Times) /\ Len(ks) <= keyringSize + 1

TypeOK ==
    /\ ring \in 0 .. MaxRing
    /\ heard \in [Nodes -> -1 .. ring]
    /\ agent \in [Nodes -> BOOLEAN]
    /\ keys \in [Nodes -> SUBSET Times]
    /\ gossip \in [Nodes -> [config : SUBSET Gossip(Times),
                             all : SUBSET Gossip(Times),
                             primary : Gossip(Times) \cup {Nil}]]
    /\ \A n \in Nodes : IsKeySeq(dkeys[n])
    /\ \A n, m \in Nodes :
          /\ IsKeySeq(spis[n][m])
          /\ rsa[n][m] \cup fsa[n][m] \subseteq IPSec(Times)
          /\ sp[n][m] \in IPSec(Times) \cup {Nil}
    /\ peering \in [Nodes -> [Nodes -> BOOLEAN]]
    /\ \A n \in Nodes :
          /\ job[n].at \in {"none", "setup", "remove"}
          /\ job[n].peer \in Nodes \cup {Nil} /\ IsKeySeq(job[n].ks)
          /\ upd[n].at \in {"none", "primary", "remove", "drivers", "unaccept",
                            "accept", "forward", "policy", "unforward", "done"}
          /\ upd[n].todo \subseteq Nodes
    /\ peerings \in 0 .. MaxPeerings

Init ==
    /\ ring = 0
    /\ heard = [n \in Nodes |-> -1] /\ agent = [n \in Nodes |-> FALSE]
    /\ keys = [n \in Nodes |-> {}]
    /\ gossip = [n \in Nodes |-> [config |-> {}, all |-> {}, primary |-> Nil]]
    /\ dkeys = [n \in Nodes |-> <<>>]
    /\ spis = [n \in Nodes |-> [m \in Nodes |-> <<>>]]
    /\ rsa = [n \in Nodes |-> [m \in Nodes |-> {}]] /\ fsa = rsa
    /\ sp = [n \in Nodes |-> [m \in Nodes |-> Nil]]
    /\ peering = [n \in Nodes |-> [m \in Nodes |-> FALSE]]
    /\ job = [n \in Nodes |-> NoJob] /\ upd = [n \in Nodes |-> NoUpd]
    /\ peerings = 0

-----------------------------------------------------------------------------
(***************************************************************************)
(* The manager rotates, and does not leave a node further behind than       *)
(* MaxLag rotations.                                                        *)
(***************************************************************************)

\* The last rotation whose keys the node has taken over, or -1.
Applied(n) == IF upd[n] = NoUpd THEN heard[n] ELSE heard[n] - 1

Rotate ==
    /\ ring < MaxRing
    /\ \A n \in Nodes : heard[n] # -1 => ring + 1 - Applied(n) <= MaxLag
    /\ ring' = ring + 1
    /\ UNCHANGED <<heard, agent, keys, gossip, dkeys, spis, kernel, peers, upd>>

\* SetKeys before the agent is up.
SetKeys(n) ==
    /\ ~agent[n] /\ heard[n] < ring
    /\ heard' = [heard EXCEPT ![n] = ring]
    /\ keys' = [keys EXCEPT ![n] = Ring(ring)]
    /\ UNCHANGED <<ring, agent, gossip, dkeys, spis, kernel, peers, upd>>

\* agentInit: the key ring and, with setKeys, the driver's keys.
AgentInit(n) ==
    /\ ~agent[n] /\ keys[n] # {}
    /\ agent' = [agent EXCEPT ![n] = TRUE]
    /\ gossip' = [gossip EXCEPT ![n] = [config |-> Gossip(keys[n]),
                                        all |-> Gossip(keys[n]),
                                        primary |-> Primary(Gossip(keys[n]))]]
    /\ dkeys' = [dkeys EXCEPT ![n] = GetKeys(IPSec(keys[n]))]
    /\ UNCHANGED <<ring, heard, keys, spis, kernel, peers, upd>>

-----------------------------------------------------------------------------
(***************************************************************************)
(* handleKeyChange.                                                         *)
(***************************************************************************)

\* The loop that drops the keys the manager dropped.  The last key takes the
\* place of a dropped one, and is not looked at; of a subsystem's dropped
\* keys, the last one is remembered.
RECURSIVE PruneFrom(_, _, _, _)
PruneFrom(ks, i, S, dropped) ==
    IF i > Len(ks) THEN [ks |-> ks, dropped |-> dropped]
    ELSE IF ks[i] \in S THEN PruneFrom(ks, i + 1, S, dropped)
    ELSE PruneFrom(Front([ks EXCEPT ![i] = Last(ks)]), i + 1, S,
                   [dropped EXCEPT ![ks[i] % 2] = ks[i]])

Prune(old, S) == PruneFrom(Sorted(old), 1, S, [x \in {0, 1} |-> Nil])

\* The newest of the added keys is the one remembered.
LastAdded(S) == IF S = {} THEN Nil ELSE Max(S)

HandleKeyChange(n) ==
    /\ agent[n] /\ upd[n] = NoUpd /\ heard[n] < ring
    /\ \E pruned \in {Prune(keys[n], Ring(ring))} :
       LET left == Range(pruned.ks)
           new == Ring(ring) \ left
           added == LastAdded(Gossip(new))
       IN  /\ keys' = [keys EXCEPT ![n] = left \cup new]
           /\ gossip' = [gossip EXCEPT ![n].config = @ \cup ({added} \ {Nil}),
                                       ![n].all = @ \cup ({added} \ {Nil})]
           /\ upd' = [upd EXCEPT ![n] = [NoUpd EXCEPT
                 !.at = "primary", !.deleted = pruned.dropped[1],
                 !.prune = pruned.dropped[0], !.new = LastAdded(IPSec(new))]]
    /\ heard' = [heard EXCEPT ![n] = ring]
    /\ UNCHANGED <<ring, agent, dkeys, spis, kernel, peers>>

SetPrimaryKey(n) ==
    /\ upd[n].at = "primary"
    /\ LET key == Primary(Gossip(keys[n])) IN
       gossip' = [gossip EXCEPT ![n].primary =
                     IF key \in gossip[n].config THEN key ELSE @]
    /\ upd' = [upd EXCEPT ![n].at = "remove"]
    /\ UNCHANGED <<ring, heard, agent, keys, dkeys, spis, kernel, peers>>

\* A key ring does not remove its primary key, NetworkDB's configuration does.
RemoveKey(n) ==
    /\ upd[n].at = "remove"
    /\ gossip' = [gossip EXCEPT
                     ![n].config = @ \ {upd[n].deleted},
                     ![n].all = IF upd[n].deleted = gossip[n].primary THEN @
                                ELSE @ \ {upd[n].deleted}]
    /\ upd' = [upd EXCEPT ![n].at = "drivers"]
    /\ UNCHANGED <<ring, heard, agent, keys, dkeys, spis, kernel, peers>>

-----------------------------------------------------------------------------
(***************************************************************************)
(* The driver's updateKeys, which holds the locks of the driver and of      *)
(* secMap, and setKeys, which replaces it when the keys do not match.       *)
(***************************************************************************)

\* The index of a key in a list, or 0.
IndexOf(ks, key) == IF key \in Range(ks) THEN CHOOSE i \in DOMAIN ks : ks[i] = key
                    ELSE 0

WithNew(ks, key) == IF key = Nil THEN ks ELSE Append(ks, key)

\* Mutant: the primary is not moved to the front.
RotatedInPlace(ks, pri, del) == IF del = 0 THEN ks ELSE RemoveAt(ks, del)

\* The end of updateKeys and of updateNodeKey: the primary is swapped to the
\* front, and the pruned key goes from where it is then.
Rotated(ks, pri, del) ==
    LET swapped == IF pri = 0 THEN ks
                   ELSE [ks EXCEPT ![1] = ks[pri], ![pri] = ks[1]]
        at == IF del = 1 THEN pri ELSE del
    IN  IF del = 0 THEN swapped ELSE RemoveAt(swapped, at)

\* The primary key the drivers are told.
PrimaryOf(n) == Primary(IPSec(keys[n]))
PriIdx(n) == IndexOf(dkeys[n], PrimaryOf(n))
DelIdx(n) == IndexOf(dkeys[n], upd[n].prune)

UpdateKeys(n) ==
    /\ upd[n].at = "drivers"
    /\ LET ks == WithNew(dkeys[n], upd[n].new)
           pri == IndexOf(ks, PrimaryOf(n))
           del == IndexOf(ks, upd[n].prune)
           mismatch == pri = 0 \/ (upd[n].prune # Nil /\ del = 0) \/ pri = del
       IN  IF mismatch
           THEN /\ dkeys' = [dkeys EXCEPT ![n] = GetKeys(IPSec(keys[n]))]
                /\ spis' = [spis EXCEPT ![n] = [m \in Nodes |-> <<>>]]
                /\ rsa' = [rsa EXCEPT ![n] = [m \in Nodes |-> {}]]
                /\ fsa' = [fsa EXCEPT ![n] = [m \in Nodes |-> {}]]
                /\ sp' = [sp EXCEPT ![n] = [m \in Nodes |-> Nil]]
                /\ upd' = [upd EXCEPT ![n] = NoUpd]
           ELSE /\ dkeys' = [dkeys EXCEPT ![n] = ks]
                /\ upd' = [upd EXCEPT ![n].at = "done", ![n].todo =
                              {m \in Nodes : spis[n][m] # <<>>}]
                /\ UNCHANGED <<spis, kernel>>
    /\ UNCHANGED <<ring, heard, agent, keys, gossip, peers>>

(***************************************************************************)
(* updateNodeKey, a call of the operating system at a time: the pruned key  *)
(* is no longer accepted, the new one is; if the primary changed, packets   *)
(* can be encrypted with it, then are, and then not with the old one.       *)
(***************************************************************************)
NodeSpis(n) == WithNew(spis[n][upd[n].peer], upd[n].new)

NextPeer(n, m) ==
    /\ upd[n].at = "done" /\ m \in upd[n].todo
    /\ upd' = [upd EXCEPT ![n].at = "unaccept", ![n].peer = m, ![n].todo = @ \ {m}]
    /\ UNCHANGED <<ring, heard, agent, keys, gossip, dkeys, spis, kernel, peers>>

Unaccept(n) ==
    /\ upd[n].at = "unaccept"
    /\ rsa' = IF DelIdx(n) = 0 THEN rsa
              ELSE [rsa EXCEPT ![n][upd[n].peer] = @ \ {NodeSpis(n)[DelIdx(n)]}]
    /\ upd' = [upd EXCEPT ![n].at = "accept"]
    /\ UNCHANGED <<ring, heard, agent, keys, gossip, dkeys, spis, fsa, sp, peers>>

Accept(n) ==
    /\ upd[n].at = "accept"
    /\ rsa' = IF upd[n].new = Nil THEN rsa
              ELSE [rsa EXCEPT ![n][upd[n].peer] =
                       @ \cup {NodeSpis(n)[Len(dkeys[n])]}]
    /\ upd' = [upd EXCEPT ![n].at = "forward"]
    /\ UNCHANGED <<ring, heard, agent, keys, gossip, dkeys, spis, fsa, sp, peers>>

\* Mutant: the old association goes when the new one comes.
ForwardReplaces(n) ==
    /\ upd[n].at = "forward"
    /\ fsa' = IF PriIdx(n) = 1 THEN fsa
              ELSE [fsa EXCEPT ![n][upd[n].peer] = {NodeSpis(n)[PriIdx(n)]}]
    /\ upd' = [upd EXCEPT ![n].at = "policy"]
    /\ UNCHANGED <<ring, heard, agent, keys, gossip, dkeys, spis, rsa, sp, peers>>

Forward(n) ==
    /\ upd[n].at = "forward"
    /\ fsa' = IF PriIdx(n) = 1 THEN fsa
              ELSE [fsa EXCEPT ![n][upd[n].peer] =
                       @ \cup {NodeSpis(n)[PriIdx(n)]}]
    /\ upd' = [upd EXCEPT ![n].at = "policy"]
    /\ UNCHANGED <<ring, heard, agent, keys, gossip, dkeys, spis, rsa, sp, peers>>

\* Mutant: the policy is added, not updated.
PolicyAdded(n) ==
    /\ upd[n].at = "policy"
    /\ sp' = IF PriIdx(n) = 1 \/ sp[n][upd[n].peer] # Nil THEN sp
             ELSE [sp EXCEPT ![n][upd[n].peer] = NodeSpis(n)[PriIdx(n)]]
    /\ upd' = [upd EXCEPT ![n].at = "unforward"]
    /\ UNCHANGED <<ring, heard, agent, keys, gossip, dkeys, spis, rsa, fsa, peers>>

Policy(n) ==
    /\ upd[n].at = "policy"
    /\ sp' = IF PriIdx(n) = 1 THEN sp
             ELSE [sp EXCEPT ![n][upd[n].peer] = NodeSpis(n)[PriIdx(n)]]
    /\ upd' = [upd EXCEPT ![n].at = "unforward"]
    /\ UNCHANGED <<ring, heard, agent, keys, gossip, dkeys, spis, rsa, fsa, peers>>

\* Mutant: the old association stays.
UnforwardKeeps(n) ==
    /\ upd[n].at = "unforward"
    /\ spis' = [spis EXCEPT ![n][upd[n].peer] =
                   Rotated(NodeSpis(n), PriIdx(n), DelIdx(n))]
    /\ upd' = [upd EXCEPT ![n].at = "done", ![n].peer = Nil]
    /\ UNCHANGED <<ring, heard, agent, keys, gossip, dkeys, kernel, peers>>

Unforward(n) ==
    /\ upd[n].at = "unforward"
    /\ fsa' = IF PriIdx(n) = 1 THEN fsa
              ELSE [fsa EXCEPT ![n][upd[n].peer] = @ \ {NodeSpis(n)[1]}]
    /\ spis' = [spis EXCEPT ![n][upd[n].peer] =
                   Rotated(NodeSpis(n), PriIdx(n), DelIdx(n))]
    /\ upd' = [upd EXCEPT ![n].at = "done", ![n].peer = Nil]
    /\ UNCHANGED <<ring, heard, agent, keys, gossip, dkeys, rsa, sp, peers>>

\* The end of updateKeys.
KeysUpdated(n) ==
    /\ upd[n].at = "done" /\ upd[n].todo = {}
    /\ dkeys' = [dkeys EXCEPT ![n] = Rotated(@, PriIdx(n), DelIdx(n))]
    /\ upd' = [upd EXCEPT ![n] = NoUpd]
    /\ UNCHANGED <<ring, heard, agent, keys, gossip, spis, kernel, peers>>

-----------------------------------------------------------------------------
(***************************************************************************)
(* checkEncryption, called when a peer comes or goes: it does not take the  *)
(* driver's lock, and secMap's only to read it or to write it.              *)
(***************************************************************************)

\* Whether updateKeys holds secMap's lock.
Updating(n) == upd[n].at \notin {"none", "primary", "remove", "drivers"}

\* setupEncryption up to the lock: associations with every key, the policy
\* unless there is one.  A peer may be set up again.
SetupEncryption(n, m) ==
    /\ n # m /\ agent[n] /\ job[n] = NoJob /\ peerings < MaxPeerings
    /\ peerings' = peerings + 1
    /\ rsa' = [rsa EXCEPT ![n][m] = @ \cup Range(dkeys[n])]
    /\ fsa' = [fsa EXCEPT ![n][m] = @ \cup {dkeys[n][1]}]
    /\ sp' = [sp EXCEPT ![n][m] = IF @ = Nil THEN dkeys[n][1] ELSE @]
    /\ job' = [job EXCEPT ![n] = [at |-> "setup", peer |-> m, ks |-> dkeys[n]]]
    /\ UNCHANGED <<ring, heard, agent, keys, gossip, dkeys, spis, peering, upd>>

RecordIndices(n) ==
    /\ job[n].at = "setup" /\ ~Updating(n)
    /\ spis' = [spis EXCEPT ![n][job[n].peer] = job[n].ks]
    /\ peering' = [peering EXCEPT ![n][job[n].peer] = TRUE]
    /\ job' = [job EXCEPT ![n] = NoJob]
    /\ UNCHANGED <<ring, heard, agent, keys, gossip, dkeys, kernel, peerings, upd>>

\* removeEncryption: it reads the indices, and leaves them in secMap.
ReadIndices(n, m) ==
    /\ job[n] = NoJob /\ peering[n][m] /\ ~Updating(n) /\ peerings < MaxPeerings
    /\ peerings' = peerings + 1
    /\ peering' = [peering EXCEPT ![n][m] = FALSE]
    /\ job' = [job EXCEPT ![n] = [at |-> "remove", peer |-> m, ks |-> spis[n][m]]]
    /\ UNCHANGED <<ring, heard, agent, keys, gossip, dkeys, spis, kernel, upd>>

RemoveEncryption(n) ==
    /\ job[n].at = "remove"
    /\ LET m == job[n].peer  ks == job[n].ks IN
       /\ rsa' = [rsa EXCEPT ![n][m] = @ \ Range(ks)]
       /\ fsa' = [fsa EXCEPT ![n][m] = IF ks = <<>> THEN @ ELSE @ \ {ks[1]}]
       /\ sp' = [sp EXCEPT ![n][m] = IF ks = <<>> THEN @ ELSE Nil]
    /\ job' = [job EXCEPT ![n] = NoJob]
    /\ UNCHANGED <<ring, heard, agent, keys, gossip, dkeys, spis, peering,
                   peerings, upd>>

-----------------------------------------------------------------------------
\* A step of a key change that is under way.
Change(n) ==
    \/ SetPrimaryKey(n) \/ RemoveKey(n) \/ UpdateKeys(n)
    \/ \E m \in Nodes : NextPeer(n, m)
    \/ Unaccept(n) \/ Accept(n) \/ Forward(n) \/ Policy(n) \/ Unforward(n)
    \/ KeysUpdated(n)

Next ==
    \/ Rotate
    \/ \E n \in Nodes :
          \/ SetKeys(n) \/ AgentInit(n) \/ HandleKeyChange(n) \/ Change(n)
          \/ \E m \in Nodes : SetupEncryption(n, m) \/ ReadIndices(n, m)
          \/ RecordIndices(n) \/ RemoveEncryption(n)

(***************************************************************************)
(* The manager tells its keys until a node has them; handleKeyChange and    *)
(* setupEncryption go on once begun.                                        *)
(***************************************************************************)
Fairness ==
    \A n \in Nodes :
       /\ WF_vars(SetKeys(n)) /\ WF_vars(AgentInit(n))
       /\ WF_vars(HandleKeyChange(n)) /\ WF_vars(Change(n))
       /\ WF_vars(RecordIndices(n)) /\ WF_vars(RemoveEncryption(n))

Spec == Init /\ [][Next]_vars /\ Fairness

-----------------------------------------------------------------------------
\* n and m have set up the encryption between them, and neither removes it.
Encrypted(n, m) ==
    /\ peering[n][m] /\ peering[m][n]

(***************************************************************************)
(* At every moment of a rotation, also between two calls of updateNodeKey   *)
(* on either side, the policy of a node names an association it has, and    *)
(* the peer has the association that decrypts the packet: no rotation       *)
(* interrupts the traffic between two nodes (the steady states and the      *)
(* order of changes of the comment above updateNodeKey).  Nor does one      *)
(* split the gossip cluster: the primary key of a node's key ring is in the *)
(* key ring of every other (SetKey, SetPrimaryKey and RemoveKey, in the     *)
(* order handleKeyChange calls them).                                       *)
(***************************************************************************)
Understood ==
    \A n, m \in Nodes :
       /\ Encrypted(n, m) => /\ sp[n][m] \in fsa[n][m]
                             /\ sp[n][m] \in rsa[m][n]
       /\ agent[n] /\ agent[m] => gossip[n].primary \in gossip[m].all

(***************************************************************************)
(* A node that has taken over a rotation has the manager's keys in the      *)
(* driver, the primary one first: handleKeyChange tells the driver the      *)
(* difference, or all the keys if there is a mismatch.                      *)
(***************************************************************************)
KeysMatch ==
    \A n \in Nodes :
       agent[n] /\ upd[n] = NoUpd =>
          /\ Range(dkeys[n]) = IPSec(Ring(heard[n]))
          /\ dkeys[n][1] = Primary(IPSec(Ring(heard[n])))

(***************************************************************************)
(* When nothing is under way, the associations, the policy and secMap's     *)
(* indices with a peer are those of the driver's keys, in their order,      *)
(* whatever rotations, set-ups and removals there were: the next update     *)
(* uses positions in one list for the other (updateNodeKey).                *)
(***************************************************************************)
KernelFollowsKeys ==
    \A n, m \in Nodes :
       peering[n][m] /\ upd[n] = NoUpd /\ job[n] = NoJob =>
          /\ spis[n][m] = dkeys[n]
          /\ rsa[n][m] = Range(dkeys[n])
          /\ fsa[n][m] = {dkeys[n][1]} /\ sp[n][m] = dkeys[n][1]

(***************************************************************************)
(* When the manager has rotated for the last time, every node comes to      *)
(* encrypt with the manager's primary key, for every peer.                  *)
(***************************************************************************)
EveryoneRotates ==
    <>[](\A n, m \in Nodes :
            /\ gossip[n].primary = Primary(Gossip(Ring(ring)))
            /\ peering[n][m] => sp[n][m] = Primary(IPSec(Ring(ring))))

====
