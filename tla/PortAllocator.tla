--------------------------- MODULE PortAllocator ---------------------------
(***************************************************************************)
(* portallocator/portallocator.go: the ports in use on every host address, *)
(* and where the search of every port range stopped.  The transport        *)
(* protocols have maps of their own that never meet; one of them is        *)
(* modelled.  An allocator is a value [used, last]; every operation runs   *)
(* under the allocator's mutex and is an operator from value to value.     *)
(***************************************************************************)
EXTENDS Integers
LOCAL INSTANCE FiniteSetsExt
LOCAL INSTANCE TLC

CONSTANTS Begin, End \* the dynamic port range of the host

ASSUME PortsAssumption == Begin \in Nat \ {0} /\ End \in Nat /\ Begin <= End

NewAllocator == [used |-> {}, last |-> [r \in {} |-> 0]]
NoPort == 0

\* getPortRange: the default range for 0-0, else the range asked for; a
\* range that starts or ends at 0, or ends before it starts, is invalid.
RangeOf(first, last) == IF first = 0 /\ last = 0 THEN <<Begin, End>> ELSE <<first, last>>
ValidRange(first, last) ==
    (first = 0 /\ last = 0) \/ (first # 0 /\ last # 0 /\ first < last)

\* Faulty variant: the search also ends at a port that is in use.
FoundBusy(a, addr, r) ==
    LET key == <<addr, r>>
        last == IF key \in DOMAIN a.last THEN a.last[key] ELSE r[2]
    IN  IF last = r[2] THEN r[1] ELSE last + 1

\* findPort: the first free port after the last one given from the range,
\* around the end of the range; a new range starts at its beginning.
Found(a, addr, r) ==
    LET key == <<addr, r>>
        last == IF key \in DOMAIN a.last THEN a.last[key] ELSE r[2]
        size == r[2] - r[1] + 1
        After(i) == r[1] + ((last - r[1] + i) % size)
        free == {i \in 1 .. size : <<addr, After(i)>> \notin a.used}
    IN  IF free = {} THEN NoPort ELSE After(Min(free))

\* RequestPortInRange: the port given, NoPort for an error.
PortFor(a, addr, first, last) ==
    CASE first > 0 /\ first = last -> IF <<addr, first>> \in a.used THEN NoPort ELSE first
      [] ValidRange(first, last) -> Found(a, addr, RangeOf(first, last))
      [] OTHER -> NoPort

\* The allocator after it gave the port; a search remembers it.
Given(a, addr, first, last, port) ==
    [used |-> a.used \cup {<<addr, port>>},
     last |-> IF first > 0 /\ first = last THEN a.last
              ELSE (<<addr, RangeOf(first, last)>> :> port) @@ a.last]

\* ReleasePort: whoever has the port.
Released(a, P) == [a EXCEPT !.used = @ \ P]

=============================================================================
