-------------------------------- MODULE IPAM --------------------------------
(***************************************************************************)
(* The address manager: ipam/allocator.go and ipam/structures.go over the  *)
(* bitmask handles of bitseq/sequence.go over datastore/datastore.go.      *)
(*                                                                         *)
(* Pools and their use counts are one object of the store (an addrSpace),  *)
(* the bitmask of a master pool is another.  Every operation reads and     *)
(* writes the two in separate steps; an object is written with the index   *)
(* it was read at and the write is refused when the store has moved on.    *)
(*                                                                         *)
(* Two deployments, chosen in Init: scope "local" is one host with several *)
(* goroutines over a bolt store behind datastore/cache.go, scope "global"  *)
(* is one goroutine on each of several hosts over a shared store.          *)
(***************************************************************************)
EXTENDS BitSeq
LOCAL INSTANCE FiniteSetsExt
LOCAL INSTANCE SequencesExt
LOCAL INSTANCE Functions
LOCAL INSTANCE TLC

CONSTANTS
    Procs,        \* goroutines that call the allocator
    Pools,        \* master pools (subnets)
    Overlap,      \* the sets {p, q} of different pools that overlap
    Ranges,       \* sub-pools of any pool: pairs <<first, last>> of ordinals
    Predefined,   \* the default pools, a sequence
    Bits,         \* addresses in a pool
    Wanted,       \* ordinals a client asks for by address
    Serial,       \* the values of the option for serial allocation
    MaxOps,       \* bound: calls made by the clients
    MaxCrashes,   \* bound: restarts of a host
    NoRange, None

ASSUME IPAMAssumption ==
    /\ Bits \in Nat /\ Bits > 2
    /\ Ranges \subseteq (0 .. Bits - 1) \X (0 .. Bits - 1)
    /\ Wanted \subseteq 0 .. Bits - 1
    /\ Serial \subseteq BOOLEAN
    /\ Range(Predefined) \subseteq Pools

VARIABLES
    scope,      \* "local" or "global"
    config,     \* the stored addrSpace: [subnets, idx, live]
    masks,      \* masks[pool]: the stored bitmask: [list, unselected, idx, live]
    cache,      \* scope local: [cfg: an addrSpace object, data: handles]
    spaces,     \* the addrSpace objects in memory, shared through pointers
    cur,        \* cur[h]: the addrSpace object of the allocator of host h
    handles,    \* the bitmask handles in memory, shared through pointers
    addresses,  \* addresses[h][pool]: the allocator's handle of a pool
    startIndex, \* startIndex[h]: where the search of default pools starts
    proc,       \* proc[p]: the call p is in and how far it has come
    granted,    \* the pools the clients have been given and not released
    held,       \* held[p]: what p has been given and not released: [key, ord]
    ops,        \* calls made so far
    crashes     \* restarts so far

store == <<config, masks>>
memory == <<cache, spaces, cur, handles, addresses, startIndex>>
clients == <<granted, held, ops, crashes>>
vars == <<scope, store, memory, proc, clients>>

-----------------------------------------------------------------------------
(* Data.                                                                   *)

\* SubnetKey: a master pool, or a sub-pool of it.
Key == [pool : Pools, child : Ranges \cup {NoRange}]
Master(k) == [k EXCEPT !.child = NoRange]
MasterOf(pool) == [pool |-> pool, child |-> NoRange]

\* addrSpace.subnets, as the use counts of the pools in it.
NoSubnets == [k \in {} |-> 0]
NewSpace == [subnets |-> NoSubnets, idx |-> 0, exists |-> FALSE]

\* A handle: the list of runs, the count of clear bits, and where it is in
\* the store.
NewHandle == [list |-> NewList(Bits), unselected |-> Bits,
              idx |-> 0, exists |-> FALSE, curr |-> 0]

\* The objects that can be referenced at once: by a host, the cache, a call.
SpaceIds == 1 .. 2 * Cardinality(Procs) + 2
HandleIds == 1 .. Cardinality(Procs) * (Cardinality(Pools) + 1) + 1

\* A request to Handle.set: a given bit to select or to clear, or any bit of
\* a range.
BitReq(o) == [kind |-> "bit", lo |-> o, hi |-> o, serial |-> FALSE]
ClearReq(o) == [kind |-> "clear", lo |-> o, hi |-> o, serial |-> FALSE]
AnyReq(lo, hi, serial) == [kind |-> "any", lo |-> lo, hi |-> hi, serial |-> serial]

\* A call at rest, and a call at its start.  insert: the bitmask has to be
\* made or destroyed; todo: the bits insertBitMask has still to reserve.
Idle == [pc |-> "idle", op |-> "none", key |-> None, pdf |-> FALSE,
         req |-> None, spc |-> None, bm |-> None, nh |-> None,
         insert |-> FALSE, todo |-> <<>>]
Call(op, pc, k, r) == [Idle EXCEPT !.op = op, !.pc = pc, !.key = k, !.req = r]

Number == CHOOSE f \in [Procs -> 1 .. Cardinality(Procs)] : IsInjective(f)
TheHost == CHOOSE p \in Procs : TRUE
HostOf(p) == IF scope = "local" THEN TheHost ELSE p

\* The objects that are still referenced; the others are forgotten.
SpacesIn(sp) ==
    LET used == {cur'[h] : h \in Procs} \cup {cache'.cfg}
                  \cup {proc'[p].spc : p \in Procs}
    IN  [i \in SpaceIds |-> IF i \in used THEN sp[i] ELSE NewSpace]
HandlesIn(hs) ==
    LET used == {addresses'[h][n] : h \in Procs, n \in Pools}
                  \cup {proc'[p].bm : p \in Procs}
    IN  [i \in HandleIds |-> IF i \in used THEN hs[i] ELSE NewHandle]
FreshSpace ==
    Min(SpaceIds \ ({cur[h] : h \in Procs} \cup {cache.cfg}
                      \cup {proc[p].spc : p \in Procs}))
FreshHandle ==
    Min(HandleIds \ ({addresses[h][n] : h \in Procs, n \in Pools}
                       \cup {proc[p].bm : p \in Procs}))

\* Faulty variant: the index is not compared.
WritableAnyIndex(rec, o) == o.exists = rec.live

\* datastore.PutObjectAtomic: written only at the index the object was read
\* at, or as a new key; an object that has gone is not written again.
Writable(rec, o) == IF o.exists THEN rec.live /\ rec.idx = o.idx ELSE ~rec.live

Gone(rec, o) == o.exists /\ ~rec.live

-----------------------------------------------------------------------------
(* ipam/structures.go: the table of pools.                                 *)

\* contains: the pool is a master pool of the table or overlaps with one.
contains(subnets, pool) ==
    \E k \in DOMAIN subnets :
        k.child = NoRange /\ (k.pool = pool \/ {k.pool, pool} \in Overlap)

\* updatePoolDBOnAdd refuses a key it has, and a master pool that overlaps.
Refused(subnets, k) ==
    \/ k \in DOMAIN subnets
    \/ k.child = NoRange /\ contains(subnets, k.pool)

\* Faulty variant: a sub-pool does not count as a use of its master pool.
AddedUncounted(subnets, k) == (k :> 1) @@ subnets @@ (Master(k) :> 1)

\* What it adds: the pool; for a sub-pool also one use of its master pool.
Added(subnets, k) ==
    LET m == Master(k)
        uses == IF m \in DOMAIN subnets THEN subnets[m] + 1 ELSE 1
    IN  (k :> 1) @@ (m :> uses) @@ subnets

NeedsMask(subnets, k) == Master(k) \notin DOMAIN subnets

\* updatePoolDBOnRemoval: one use less of the pool and of its master pool;
\* a pool without uses is dropped.
Removed(subnets, k) ==
    LET hit == {k, Master(k)} \cap DOMAIN subnets
        less == [x \in DOMAIN subnets |->
                    IF x \in hit THEN subnets[x] - 1 ELSE subnets[x]]
    IN  Restrict(less, {x \in DOMAIN less : ~(x \in hit /\ less[x] = 0)})

-----------------------------------------------------------------------------
(* The clients: networks ask for pools and return them when nothing of     *)
(* theirs is left in them; endpoints ask for addresses and return them.    *)

Begin(p, call) ==
    /\ proc[p].pc = "idle"
    /\ ops < MaxOps
    /\ ops' = ops + 1
    /\ proc' = [proc EXCEPT ![p] = call]
    /\ UNCHANGED <<scope, store, memory, crashes>>

BeginRequestPool(p, k) ==
    /\ Begin(p, Call("RequestPool", "refresh", k, None))
    /\ UNCHANGED <<granted, held>>

BeginRequestDefault(p) ==
    /\ Begin(p, [Call("RequestPool", "pick", None, None) EXCEPT !.pdf = TRUE])
    /\ UNCHANGED <<granted, held>>

BeginReleasePool(p, k) ==
    /\ k \in granted
    /\ \A q \in Procs : proc[q].key # k /\ \A a \in held[q] : a.key # k
    /\ Begin(p, Call("ReleasePool", "refresh", k, None))
    /\ granted' = granted \ {k}
    /\ UNCHANGED held

\* getAddress: the wanted bit, else any bit of the sub-pool or of the pool.
Requests(k) ==
    {BitReq(o) : o \in Wanted}
      \cup {IF k.child = NoRange THEN AnyReq(0, Bits - 1, s)
            ELSE AnyReq(k.child[1], k.child[2], s) : s \in Serial}
BeginRequestAddress(p, k, r) ==
    /\ k \in granted
    /\ Begin(p, Call("RequestAddress", "refresh", k, r))
    /\ UNCHANGED <<granted, held>>

BeginReleaseAddress(p, a) ==
    /\ a \in held[p]
    /\ Begin(p, Call("ReleaseAddress", "refresh", a.key, ClearReq(a.ord)))
    /\ held' = [held EXCEPT ![p] = @ \ {a}]
    /\ UNCHANGED granted

-----------------------------------------------------------------------------
(* ipam/allocator.go: pools.                                               *)

Goto(p, pc) == proc' = [proc EXCEPT ![p].pc = pc]
Return(p) == proc' = [proc EXCEPT ![p] = Idle]

\* getPredefinedPool: the first default pool, from the start index on, that
\* is free in the allocator's current table.
PickDefault(p) ==
    LET h == HostOf(p)
        n == Len(Predefined)
        At(i) == Predefined[((startIndex[h] + i) % n) + 1]
        free == {i \in 0 .. n - 1 : ~contains(spaces[cur[h]].subnets, At(i))}
    IN  /\ proc[p].pc = "pick"
        /\ \/ /\ free = {}
              /\ Return(p)
              /\ UNCHANGED startIndex
           \/ /\ free # {}
              /\ proc' = [proc EXCEPT ![p].pc = "refresh",
                                      ![p].key = MasterOf(At(Min(free)))]
              /\ startIndex' = [startIndex EXCEPT ![h] =
                     LET next == @ + Min(free) + 1 IN IF next >= n THEN 0 ELSE next]
        /\ UNCHANGED <<scope, store, cache, spaces, cur, handles, addresses, clients>>

\* refresh: a new addrSpace object with what the store (behind the cache)
\* has, if it has anything, becomes the allocator's.
refresh(p) ==
    LET found == IF scope = "local" THEN cache.cfg # None ELSE config.live
        value == IF scope = "local" THEN spaces[cache.cfg]
                 ELSE [subnets |-> config.subnets, idx |-> config.idx, exists |-> TRUE]
        id == FreshSpace
    IN  /\ proc[p].pc = "refresh"
        /\ Goto(p, IF proc[p].op \in {"RequestPool", "ReleasePool"} THEN "space"
                   ELSE "retrieve")
        /\ cur' = IF found THEN [cur EXCEPT ![HostOf(p)] = id] ELSE cur
        /\ UNCHANGED <<scope, store, cache, handles, addresses, startIndex, clients>>
        /\ spaces' = SpacesIn(IF found THEN [spaces EXCEPT ![id] = value] ELSE spaces)

\* getAddrSpace: a pointer to the allocator's object, which may be the one
\* another goroutine has just installed.
getAddrSpace(p) ==
    /\ proc[p].pc = "space"
    /\ proc' = [proc EXCEPT ![p].spc = cur[HostOf(p)], ![p].pc = "update"]
    /\ UNCHANGED <<scope, store, memory, clients>>

updatePoolDBOnAdd(p) ==
    LET k == proc[p].key
        id == proc[p].spc
        subnets == spaces[id].subnets
    IN  /\ proc[p].pc = "update" /\ proc[p].op = "RequestPool"
        /\ UNCHANGED <<scope, store, cache, cur, handles, addresses, startIndex, clients>>
        /\ \/ /\ Refused(subnets, k)
              /\ IF proc[p].pdf /\ k \in DOMAIN subnets
                 THEN proc' = [proc EXCEPT ![p].pc = "pick", ![p].spc = None]
                 ELSE Return(p)
              /\ spaces' = SpacesIn(spaces)
           \/ /\ ~Refused(subnets, k)
              /\ proc' = [proc EXCEPT ![p].pc = "write",
                                      ![p].insert = NeedsMask(subnets, k)]
              /\ spaces' = [spaces EXCEPT ![id].subnets = Added(@, k)]

updatePoolDBOnRemoval(p) ==
    LET k == proc[p].key
        id == proc[p].spc
        subnets == spaces[id].subnets
    IN  /\ proc[p].pc = "update" /\ proc[p].op = "ReleasePool"
        /\ UNCHANGED <<scope, store, cache, cur, handles, addresses, startIndex, clients>>
        /\ IF k \notin DOMAIN subnets
           THEN /\ Return(p)
                /\ spaces' = SpacesIn(spaces)
           ELSE /\ proc' = [proc EXCEPT ![p].pc = "write",
                       ![p].insert = Master(k) \notin DOMAIN Removed(subnets, k)]
                /\ spaces' = [spaces EXCEPT ![id].subnets = Removed(@, k)]

\* writeToStore, then the closure: insertBitMask or Destroy for the call that
\* added or dropped the master pool, nothing for the others.  A refused write
\* starts over.
writeToStore(p) ==
    LET id == proc[p].spc
        s == spaces[id]
        idx == config.idx + 1
        again == IF proc[p].pdf THEN "pick" ELSE "refresh"
        after == IF proc[p].op = "RequestPool" THEN "new" ELSE "retrieve"
    IN  /\ proc[p].pc = "write"
        /\ UNCHANGED <<scope, masks, cur, handles, addresses, startIndex, held, ops, crashes>>
        /\ \/ /\ Writable(config, s)
              /\ config' = [subnets |-> s.subnets, idx |-> idx, live |-> TRUE]
              /\ cache' = IF scope = "local" THEN [cache EXCEPT !.cfg = id] ELSE cache
              /\ IF proc[p].insert
                 THEN proc' = [proc EXCEPT ![p].pc = after, ![p].spc = None]
                 ELSE Return(p)
              /\ granted' = IF proc[p].op = "RequestPool" /\ ~proc[p].insert
                            THEN granted \cup {proc[p].key} ELSE granted
              /\ spaces' = SpacesIn([spaces EXCEPT ![id].idx = idx, ![id].exists = TRUE])
           \/ /\ ~Writable(config, s)
              /\ proc' = [proc EXCEPT ![p].pc = again, ![p].spc = None]
              /\ UNCHANGED <<config, cache, granted>>
              /\ spaces' = SpacesIn(spaces)

-----------------------------------------------------------------------------
(* Bitmask handles: bitseq/sequence.go, and insertBitMask that makes them. *)

Pool(p) == proc[p].key.pool

\* GetObject on a handle: from the cache with all its fields, from a shared
\* store with the value and the index.
Loaded(h, pool) ==
    CASE scope = "local" /\ cache.data[pool] # None -> cache.data[pool]
      [] scope = "global" /\ masks[pool].live ->
             [h EXCEPT !.list = masks[pool].list, !.idx = masks[pool].idx,
                       !.unselected = masks[pool].unselected, !.exists = TRUE]
      [] OTHER -> h

\* What PutObjectAtomic does to the store and the cache with handle h.
PutMask(pool, h) ==
    LET idx == masks[pool].idx + 1
    IN  /\ masks' = [masks EXCEPT ![pool] =
                        [list |-> h.list, unselected |-> h.unselected,
                         idx |-> idx, live |-> TRUE]]
        /\ cache' = IF scope = "local"
                    THEN [cache EXCEPT !.data[pool] = [h EXCEPT !.idx = idx, !.exists = TRUE]]
                    ELSE cache

\* After the lookup or the pool write: retrieveBitmask, then the call's use
\* of the bitmask; without a handle insertBitMask makes one first.
Use(p) == CASE proc[p].op = "ReleasePool" -> "destroy"
            [] proc[p].op = "RequestAddress" -> "check"
            [] proc[p].op = "ReleaseAddress" -> "get"

\* retrieveBitmask, for the address calls after the look at the table, in
\* which their pool must be.
retrieveBitmask(p) ==
    LET bm == addresses[HostOf(p)][Pool(p)]
    IN  /\ proc[p].pc = "retrieve"
        /\ CASE proc[p].op # "ReleasePool"
                 /\ proc[p].key \notin DOMAIN spaces[cur[HostOf(p)]].subnets -> Return(p)
             [] bm # None -> proc' = [proc EXCEPT ![p].bm = bm, ![p].pc = Use(p)]
             [] OTHER -> Goto(p, "new")
        /\ UNCHANGED <<scope, store, memory, clients>>

\* Faulty variant: the last bit is not reserved.
newHandleFirstOnly(p) ==
    LET h == Loaded(NewHandle, Pool(p))
        id == FreshHandle
    IN  /\ proc[p].pc = "new"
        /\ proc' = [proc EXCEPT ![p].bm = id, ![p].insert = TRUE,
                                ![p].pc = IF h.exists THEN "get" ELSE "create",
                                ![p].todo = <<0>>]
        /\ handles' = [handles EXCEPT ![id] = h]
        /\ UNCHANGED <<scope, store, cache, spaces, cur, addresses, startIndex, clients>>

\* insertBitMask: NewHandle reads the store; a handle that is not there yet
\* is written, one that is has its content.  Then bits 0 and Bits - 1.
newHandle(p) ==
    LET h == Loaded(NewHandle, Pool(p))
        id == FreshHandle
    IN  /\ proc[p].pc = "new"
        /\ proc' = [proc EXCEPT ![p].bm = id, ![p].insert = TRUE,
                                ![p].pc = IF h.exists THEN "get" ELSE "create",
                                ![p].todo = <<0, Bits - 1>>]
        /\ handles' = [handles EXCEPT ![id] = h]
        /\ UNCHANGED <<scope, store, cache, spaces, cur, addresses, startIndex, clients>>

\* A write that finds the key taken fails the whole insertBitMask, and the
\* call with it.
createHandle(p) ==
    LET h == handles[proc[p].bm]
        pool == Pool(p)
    IN  /\ proc[p].pc = "create"
        /\ UNCHANGED <<scope, config, spaces, cur, addresses, startIndex, clients>>
        /\ \/ /\ Writable(masks[pool], h)
              /\ PutMask(pool, h)
              /\ Goto(p, "get")
              /\ handles' = [handles EXCEPT ![proc[p].bm].idx = masks[pool].idx + 1,
                                            ![proc[p].bm].exists = TRUE]
           \/ /\ ~Writable(masks[pool], h)
              /\ Return(p)
              /\ UNCHANGED <<masks, cache>>
              /\ handles' = HandlesIn(handles)

\* getAddress and SetAny: nothing is tried when the handle counts no clear bit.
checkUnselected(p) ==
    /\ proc[p].pc = "check"
    /\ IF handles[proc[p].bm].unselected = 0 THEN Return(p) ELSE Goto(p, "get")
    /\ UNCHANGED <<scope, store, cache, spaces, cur, addresses, startIndex, clients>>
    /\ handles' = HandlesIn(handles)

Request(p) == IF proc[p].insert THEN BitReq(Head(proc[p].todo)) ELSE proc[p].req

\* Handle.set, first the read of the store into the handle.  A handle that
\* insertBitMask is still making is nobody else's: it is read with the step
\* that uses it and kept with the write.
setGet(p) ==
    LET bm == proc[p].bm
    IN  /\ proc[p].pc = "get" /\ ~proc[p].insert
        /\ handles' = [handles EXCEPT ![bm] = Loaded(@, Pool(p))]
        /\ Goto(p, "calc")
        /\ UNCHANGED <<scope, store, cache, spaces, cur, addresses, startIndex, clients>>

\* The bit a request selects in a handle, NoPos when there is none.
Target(h, r) ==
    CASE r.kind = "clear" -> r.lo
      [] r.kind = "bit" -> IF checkIfAvailable(h.list, r.lo) THEN r.lo ELSE NoPos
      [] r.kind = "any" -> getAvailableFromCurrent(h.list, r.lo,
                               IF r.serial THEN h.curr ELSE 0, r.hi)

\* The private copy of the handle with the bit set or cleared.
Changed(h, o, release) ==
    [h EXCEPT !.list = pushReservation(@, o, release),
              !.unselected = IF release THEN @ + 1 ELSE @ - 1]

\* What follows a set that is over: the next bit insertBitMask reserves, or
\* the handle is made known and the call goes on with it, or the call ends.
\* The closure of RequestPool ends with the insertion.
Inserted(p) == proc[p].insert /\ Len(proc[p].todo) = 1
SetDone(p) ==
    /\ CASE proc[p].insert /\ ~Inserted(p) ->
              proc' = [proc EXCEPT ![p].todo = Tail(@), ![p].pc = "get", ![p].nh = None]
         [] Inserted(p) /\ proc[p].op # "RequestPool" ->
              proc' = [proc EXCEPT ![p].todo = <<>>, ![p].insert = FALSE,
                                   ![p].pc = Use(p), ![p].nh = None]
         [] OTHER -> Return(p)
    /\ addresses' = IF Inserted(p)
                    THEN [addresses EXCEPT ![HostOf(p)][Pool(p)] = proc[p].bm]
                    ELSE addresses
    /\ granted' = IF Inserted(p) /\ proc[p].op = "RequestPool"
                  THEN granted \cup {proc[p].key} ELSE granted

\* Under the handle's lock: the bit, and the copy with it.
setCalc(p) ==
    LET bm == proc[p].bm
        h == IF proc[p].insert THEN Loaded(handles[bm], Pool(p)) ELSE handles[bm]
        r == Request(p)
        o == Target(h, r)
        h1 == [h EXCEPT !.curr = IF r.kind = "any" /\ o # NoPos THEN o + 1 ELSE @]
    IN  /\ proc[p].pc = IF proc[p].insert THEN "get" ELSE "calc"
        /\ UNCHANGED <<scope, store, cache, spaces, cur, startIndex, held, ops, crashes>>
        /\ \/ /\ o = NoPos
              /\ SetDone(p)
              /\ handles' = HandlesIn(handles)
           \/ /\ o # NoPos
              /\ proc' = [proc EXCEPT ![p].pc = "put",
                     ![p].nh = [bit |-> o, h |-> Changed(h1, o, r.kind = "clear")]]
              /\ handles' = [handles EXCEPT ![bm] = h1]
              /\ UNCHANGED <<addresses, granted>>

\* The copy becomes the handle's content, except for curr.
Keep(p, nh) ==
    LET bm == proc[p].bm
    IN  /\ SetDone(p)
        /\ handles' = HandlesIn([handles EXCEPT ![bm] = [nh EXCEPT !.curr = handles[bm].curr]])

\* The write of the copy.  Refused: read again.  Key gone: the call fails.
\* An address that RequestAddress has written is the client's.
setPut(p) ==
    LET nh == proc[p].nh
        pool == Pool(p)
        stored == [nh.h EXCEPT !.idx = masks[pool].idx + 1, !.exists = TRUE]
        given == IF proc[p].op = "RequestAddress" /\ ~proc[p].insert
                 THEN {[key |-> proc[p].key, ord |-> nh.bit]} ELSE {}
    IN  /\ proc[p].pc = "put"
        /\ UNCHANGED <<scope, config, spaces, cur, startIndex, ops, crashes>>
        /\ \/ /\ Writable(masks[pool], nh.h)
              /\ PutMask(pool, nh.h)
              /\ held' = [held EXCEPT ![p] = @ \cup given]
              /\ \/ proc[p].insert /\ Keep(p, stored)
                 \/ /\ ~proc[p].insert
                    /\ proc' = [proc EXCEPT ![p].pc = "keep", ![p].nh.h = stored]
                    /\ UNCHANGED <<handles, addresses, granted>>
           \/ /\ ~Writable(masks[pool], nh.h)
              /\ UNCHANGED <<masks, cache, held>>
              /\ IF Gone(masks[pool], nh.h)
                 THEN SetDone(p) /\ handles' = HandlesIn(handles)
                 ELSE /\ proc' = [proc EXCEPT ![p].pc = "get", ![p].nh = None]
                      /\ UNCHANGED <<handles, addresses, granted>>

setKeep(p) ==
    /\ proc[p].pc = "keep"
    /\ Keep(p, proc[p].nh.h)
    /\ UNCHANGED <<scope, store, cache, spaces, cur, startIndex, held, ops, crashes>>

\* Handle.Destroy: the key is deleted at the handle's index.  A handle that
\* is behind the store does not delete, and the call ends: deleteFromStore
\* returns no RetryError, so the loop of Destroy never turns.
destroyHandle(p) ==
    LET h == handles[proc[p].bm]
        pool == Pool(p)
        same == masks[pool].live /\ masks[pool].idx = h.idx
    IN  /\ proc[p].pc = "destroy"
        /\ UNCHANGED <<scope, config, spaces, cur, addresses, startIndex, clients>>
        /\ masks' = IF same THEN [masks EXCEPT ![pool].live = FALSE,
                                      ![pool].list = <<>>, ![pool].unselected = 0]
                    ELSE masks
        /\ cache' = IF same /\ scope = "local" THEN [cache EXCEPT !.data[pool] = None]
                    ELSE cache
        /\ Return(p)
        /\ handles' = HandlesIn(handles)

-----------------------------------------------------------------------------
(* A restart of the host of a local store: memory is lost, calls are cut   *)
(* off.  NewAllocator reads the table of pools and the bitmask of every    *)
(* master pool (insertBitMask), alone on the store.                        *)

\* insertBitMask, then CheckConsistency: a bitmask with its two reserved bits,
\* made if the store has none.
Reserved(m) ==
    LET start == IF m.live THEN m ELSE [list |-> NewList(Bits), unselected |-> Bits,
                                        idx |-> m.idx + 1, live |-> TRUE]
        Set(x, o) == IF checkIfAvailable(x.list, o)
                     THEN [x EXCEPT !.list = pushReservation(@, o, FALSE),
                                    !.unselected = @ - 1, !.idx = @ + 1]
                     ELSE x
        Fix(x) == LET list == runConsistencyCheck(x.list)
                  IN  IF list = x.list THEN x
                      ELSE [x EXCEPT !.list = list, !.idx = @ + 1]
    IN  Fix(Set(Set(start, 0), Bits - 1))

Restart ==
    LET masters == {k.pool : k \in DOMAIN config.subnets}
        loaded == [n \in Pools |-> IF n \in masters THEN Reserved(masks[n]) ELSE masks[n]]
        Value(n) == [list |-> loaded[n].list, unselected |-> loaded[n].unselected,
                     idx |-> loaded[n].idx, exists |-> TRUE, curr |-> 0]
        number == CHOOSE f \in [masters -> 1 .. Cardinality(masters)] : IsInjective(f)
        onDisk == [NewSpace EXCEPT !.subnets = config.subnets, !.idx = config.idx,
                                   !.exists = config.live]
    IN  /\ scope = "local"
        /\ crashes < MaxCrashes
        /\ crashes' = crashes + 1
        /\ proc' = [p \in Procs |-> Idle]
        \* an address written for a call that was cut off reaches no client
        /\ held' = [p \in Procs |->
               IF proc[p].pc = "keep" /\ proc[p].op = "RequestAddress"
               THEN held[p] \ {[key |-> proc[p].key, ord |-> proc[p].nh.bit]}
               ELSE held[p]]
        /\ masks' = loaded
        /\ cur' = [cur EXCEPT ![TheHost] = 1]
        /\ spaces' = [i \in SpaceIds |-> IF i \in {1, 2} THEN onDisk ELSE NewSpace]
        /\ cache' = [cfg |-> IF config.live THEN 2 ELSE None,
                     data |-> [n \in Pools |-> IF loaded[n].live THEN Value(n) ELSE None]]
        /\ addresses' = [addresses EXCEPT ![TheHost] =
               [n \in Pools |-> IF n \in masters THEN number[n] ELSE None]]
        /\ handles' = [i \in HandleIds |->
               IF \E n \in masters : number[n] = i
               THEN Value(CHOOSE n \in masters : number[n] = i) ELSE NewHandle]
        /\ startIndex' = [h \in Procs |-> 0]
        /\ UNCHANGED <<scope, config, granted, ops>>

-----------------------------------------------------------------------------

Init ==
    /\ scope \in {"local", "global"}
    /\ config = [subnets |-> NoSubnets, idx |-> 0, live |-> FALSE]
    /\ masks = [n \in Pools |-> [list |-> <<>>, unselected |-> 0, idx |-> 0, live |-> FALSE]]
    /\ cache = [cfg |-> None, data |-> [n \in Pools |-> None]]
    /\ spaces = [i \in SpaceIds |-> NewSpace]
    /\ cur = Number
    /\ handles = [i \in HandleIds |-> NewHandle]
    /\ addresses = [h \in Procs |-> [n \in Pools |-> None]]
    /\ startIndex = [h \in Procs |-> 0]
    /\ proc = [p \in Procs |-> Idle]
    /\ granted = {}
    /\ held = [p \in Procs |-> {}]
    /\ ops = 0
    /\ crashes = 0

Step(p) ==
    \/ PickDefault(p) \/ refresh(p) \/ getAddrSpace(p)
    \/ updatePoolDBOnAdd(p) \/ updatePoolDBOnRemoval(p) \/ writeToStore(p)
    \/ retrieveBitmask(p) \/ newHandle(p) \/ createHandle(p)
    \/ checkUnselected(p) \/ setGet(p) \/ setCalc(p) \/ setPut(p) \/ setKeep(p)
    \/ destroyHandle(p)

Next ==
    \/ \E p \in Procs : Step(p)
    \/ \E p \in Procs, k \in Key : BeginRequestPool(p, k) \/ BeginReleasePool(p, k)
    \/ \E p \in Procs : BeginRequestDefault(p)
    \/ \E p \in Procs, k \in granted :
          \E r \in Requests(k) : BeginRequestAddress(p, k, r)
    \/ \E p \in Procs : \E a \in held[p] : BeginReleaseAddress(p, a)
    \/ Restart

Spec == Init /\ [][Next]_vars

-----------------------------------------------------------------------------
(* Properties.                                                             *)

IsList(list) == Len(list) \in 0 .. Bits
                  /\ \A i \in 1 .. Len(list) : list[i] \in [block : SUBSET FullBlock, count : Nat]
IsHandle(h) ==
    /\ IsList(h.list) /\ h.unselected \in Nat /\ h.idx \in Nat
    /\ h.exists \in BOOLEAN /\ h.curr \in 0 .. Bits
IsSubnets(s) == DOMAIN s \subseteq Key /\ \A k \in DOMAIN s : s[k] \in Nat \ {0}

\* Types; in particular use counts stay positive and runs are never empty.
TypeOK ==
    /\ scope \in {"local", "global"}
    /\ config.idx \in Nat /\ IsSubnets(config.subnets)
    /\ \A n \in Pools : IsList(masks[n].list) /\ masks[n].unselected \in Nat
    /\ \A i \in SpaceIds : IsSubnets(spaces[i].subnets) /\ spaces[i].idx \in Nat
    /\ \A i \in HandleIds : IsHandle(handles[i])
    /\ cur \in [Procs -> SpaceIds]
    /\ addresses \in [Procs -> [Pools -> HandleIds \cup {None}]]
    /\ startIndex \in [Procs -> 0 .. Len(Predefined)]
    /\ granted \subseteq Key
    /\ \A p \in Procs : held[p] \subseteq [key : Key, ord : 0 .. Bits - 1]
    /\ ops \in 0 .. MaxOps /\ crashes \in 0 .. MaxCrashes

Abstract == INSTANCE AddressPool WITH
    Clients <- Procs,
    Addresses <- Pools \X (0 .. Bits - 1),
    Usable <- Pools \X (1 .. Bits - 2),
    owned <- [a \in Pools \X (0 .. Bits - 1) |->
                {p \in Procs : \E x \in held[p] : x.key.pool = a[1] /\ x.ord = a[2]}]

\* RequestAddress and ReleaseAddress, with all their reads, refused writes
\* and restarts, implement the abstract address pool: an address is never
\* given to a client while another holds it, and neither the network nor the
\* broadcast address is ever given out.
AddressesExclusive == Abstract!Spec

Quiet == \A p \in Procs : proc[p] = Idle

\* The stored count of clear bits is their number, also while calls race: it
\* says there is room exactly when there is.  And the run-length algorithms
\* agree with the bitmask they stand for, on every mask the store holds when no
\* call is under way: the list is in normal form, a search returns the first
\* clear bit from the start on, and setting or clearing a bit changes that bit
\* only and keeps the normal form.
MasksExact ==
    \A n \in Pools :
        LET list == masks[n].list
            bits == Selected(list)
        IN  masks[n].live => masks[n].unselected = Bits - Cardinality(bits) /\ (Quiet =>
            /\ Normal(list)
            /\ \A o \in Room(list) :
                  /\ getFirstAvailable(list, o) =
                       LET clear == {x \in Room(list) : x >= o} \ bits
                       IN  IF clear = {} THEN NoPos ELSE Min(clear)
                  /\ \A release \in BOOLEAN :
                        LET new == pushReservation(list, o, release)
                        IN  /\ Normal(new)
                            /\ Room(new) = Room(list)
                            /\ Selected(new) = IF release THEN bits \ {o} ELSE bits \cup {o})

\* No address leaks without a crash: when no call is under way, the selected
\* bits of a pool are the two reserved ones and the addresses held.
NoLeak ==
    Quiet /\ crashes = 0 =>
        \A n \in Pools : masks[n].live /\ MasterOf(n) \in DOMAIN config.subnets =>
            Selected(masks[n].list) =
                {0, Bits - 1} \cup {a.ord : a \in {x \in UNION {held[p] : p \in Procs} :
                                                      x.key.pool = n}}

\* The stored table has every pool the clients have, and its use counts cover
\* them: a master pool outlives its sub-pools, however the calls that changed
\* the table were interleaved, refused and cut off.
Uses(k) == Cardinality({g \in granted : k \in {g, Master(g)}})
PoolsKept ==
    \A k \in granted :
        /\ {k, Master(k)} \subseteq DOMAIN config.subnets
        /\ config.subnets[k] >= Uses(k)
        /\ config.subnets[Master(k)] >= Uses(Master(k))

=============================================================================
