------------------------------- MODULE BitSeq -------------------------------
(***************************************************************************)
(* bitseq/sequence.go: a long bitmask kept as a list of runs.  A run is a  *)
(* block of BlockLen bits and the number of consecutive copies of it.  The *)
(* operators below work on the runs, as the code does, never on the        *)
(* expanded mask.  A block is the set of its selected bits, bit 0 being    *)
(* blockFirstBit; the code's pair (byte, bit) is the ordinal it stands     *)
(* for, and its invalidPos is NoPos.                                       *)
(***************************************************************************)
EXTENDS Integers, FiniteSets, Sequences
LOCAL INSTANCE FiniteSetsExt

CONSTANT BlockLen \* bits in a block (32 in the code)

ASSUME BlockLenAssumption == BlockLen \in Nat \ {0}

NoPos == -1
FullBlock == 0 .. BlockLen - 1

\* The head of a fresh handle: one run of clear blocks.
NewList(bits) ==
    << [block |-> {}, count |-> (bits + BlockLen - 1) \div BlockLen] >>

\* Blocks in the first n runs.
RECURSIVE BlocksIn(_, _)
BlocksIn(list, n) == IF n = 0 THEN 0 ELSE BlocksIn(list, n - 1) + list[n].count

\* The run that holds block number b, 0 when b is outside of the list.
findSequence(list, b) ==
    LET Holding == {i \in 1 .. Len(list) : b < BlocksIn(list, i)}
    IN  IF Holding = {} THEN 0 ELSE Min(Holding)

\* Clear bits of a block at or after a bit; none in a full block.
getAvailableBit(block, from) == (from .. BlockLen - 1) \ block

\* checkIfAvailable: whether the bit is there and clear.
checkIfAvailable(list, ordinal) ==
    LET i == findSequence(list, ordinal \div BlockLen)
    IN  i # 0 /\ ordinal % BlockLen \notin list[i].block

\* The loop of getFirstAvailable, at the copy prec of run i, from bit bit.
RECURSIVE ScanRuns(_, _, _, _)
ScanRuns(list, i, prec, bit) ==
    IF i > Len(list) THEN NoPos
    ELSE LET here == getAvailableBit(list[i].block, bit)
             base == (BlocksIn(list, i - 1) + prec) * BlockLen
         IN  CASE here # {} -> base + Min(here)
               [] here = {} /\ list[i].block # FullBlock
                            /\ prec < list[i].count - 1 ->
                      ScanRuns(list, i, prec + 1, 0)
               [] OTHER -> ScanRuns(list, i + 1, 0, 0)

getFirstAvailable(list, start) ==
    LET b == start \div BlockLen
        i == findSequence(list, b)
    IN  IF i = 0 THEN NoPos
        ELSE ScanRuns(list, i, b - BlocksIn(list, i - 1), start % BlockLen)

\* From curr when that lies past start, else or when nothing is left there
\* from start; a bit past end is no bit.
getAvailableFromCurrent(list, start, curr, end) ==
    LET Within(pos) == IF pos > end THEN NoPos ELSE pos
        ahead == IF curr > start THEN Within(getFirstAvailable(list, curr))
                                 ELSE NoPos
    IN  IF ahead # NoPos THEN ahead ELSE Within(getFirstAvailable(list, start))

\* Faulty variant: runs are never merged.
mergeNothing(list) == list

\* mergeSequences: neighbours with the same block become one run.
RECURSIVE mergeSequences(_)
mergeSequences(list) ==
    CASE Len(list) < 2 -> list
      [] Len(list) > 1 /\ list[1].block = list[2].block ->
            mergeSequences(<<[list[1] EXCEPT !.count = @ + list[2].count]>>
                             \o SubSeq(list, 3, Len(list)))
      [] OTHER -> <<Head(list)>> \o mergeSequences(Tail(list))

\* pushReservation: run i loses the block that holds the bit, which becomes
\* a run of its own before (A), after (B) or between (C) what is left of i.
\* The merge starts at the run before in (A), at run i in (B); (C) needs none.
pushReservation(list, ordinal, release) ==
    LET b == ordinal \div BlockLen
        i == findSequence(list, b)
        run == list[i]
        prec == b - BlocksIn(list, i - 1)
        bit == {ordinal % BlockLen}
        new == [block |-> IF release THEN run.block \ bit ELSE run.block \cup bit,
                count |-> 1]
        Part(n) == IF n = 0 THEN <<>> ELSE <<[run EXCEPT !.count = n]>>
        left == run.count - 1
        front == SubSeq(list, 1, i - 1)
        rest == SubSeq(list, i + 1, Len(list))
        from == IF i = 1 THEN 0 ELSE i - 2
    IN  CASE i = 0 \/ new.block = run.block -> list
          [] prec = 0 -> SubSeq(front, 1, from)
                           \o mergeSequences(SubSeq(front, from + 1, i - 1)
                                             \o <<new>> \o Part(left) \o rest)
          [] prec # 0 /\ prec = left ->
                         front \o mergeSequences(Part(left) \o <<new>> \o rest)
          [] OTHER -> front \o Part(prec) \o <<new>> \o Part(left - prec) \o rest

\* runConsistencyCheck: empty runs other than the head are dropped.
runConsistencyCheck(list) ==
    <<Head(list)>> \o SelectSeq(Tail(list), LAMBDA run : run.count # 0)

-----------------------------------------------------------------------------
(* What the runs stand for, for the properties.                            *)

\* The ordinals a list has room for, and the ones selected in it.
Room(list) == 0 .. BlocksIn(list, Len(list)) * BlockLen - 1
Selected(list) == {o \in Room(list) : ~checkIfAvailable(list, o)}

\* A list in normal form has no empty run and no two equal neighbours.
Normal(list) ==
    /\ \A i \in 1 .. Len(list) : list[i].count > 0
    /\ \A i \in 1 .. Len(list) - 1 : list[i].block # list[i + 1].block

=============================================================================
