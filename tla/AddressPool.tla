----------------------------- MODULE AddressPool -----------------------------
(***************************************************************************)
(* What an address manager promises its clients, whatever the number of    *)
(* hosts, goroutines and restarts behind it: an address that may be handed *)
(* out at all is in the hands of one client at a time.                     *)
(***************************************************************************)
CONSTANTS Clients, Addresses, Usable

VARIABLE owned \* owned[a]: the clients that hold address a

Init == owned = [a \in Addresses |-> {}]

Give(c, a) ==
    /\ a \in Usable
    /\ owned[a] = {}
    /\ owned' = [owned EXCEPT ![a] = {c}]

\* Clients return addresses, or a crash of theirs drops several at once.
TakeBack ==
    /\ owned' \in [Addresses -> SUBSET Clients]
    /\ \A a \in Addresses : owned'[a] \in {owned[a], {}}

Next == TakeBack \/ \E c \in Clients, a \in Addresses : Give(c, a)

Spec == Init /\ [][Next]_owned

=============================================================================
