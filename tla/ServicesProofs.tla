--------------------------- MODULE ServicesProofs ---------------------------
(***************************************************************************)
(* A service never has two live objects, for any tasks, networks and       *)
(* services, and whatever the order of the goroutines: none of the orders  *)
(* that the runs of MCServices leave out matters here.                     *)
(*                                                                         *)
(* The object is looked up under one lock and used under another, so the   *)
(* argument is about what an object is in between: it is deleted exactly   *)
(* when its service is not bound to it any more, and then it has no load   *)
(* balancer, so that a remove that comes too late finds nothing and an add *)
(* that comes too late sees the flag.  For this to be kept, a back end     *)
(* needs a load balancer of its network, and whoever holds an object holds *)
(* one of the service of its task.                                         *)
(***************************************************************************)
EXTENDS Services, FiniteSetTheorems, TLAPS

QueuedEvent == [type : {"create", "update", "delete"}, task : Remote]

Typed ==
  /\ objs \in Seq(Object) /\ bindings \in [Service -> 0..MaxObjects]
  /\ mark \in Nat \ {0}
  /\ queue \in Seq(QueuedEvent)
  /\ proc \in [Proc -> Call]

\* A service is bound to an object of its own.
Bindings ==
  \A s \in Service : bindings[s] # 0 =>
    bindings[s] \in DOMAIN objs /\ objs[bindings[s]].svc = s

\* The service objects: a live one is bound, a deleted one is empty, a back end
\* has its load balancer.
Objects ==
  \A o \in DOMAIN objs :
    /\ ~objs[o].deleted <=> bindings[objs[o].svc] = o
    /\ objs[o].deleted => \A n \in Network : objs[o].lbs[n] = 0
    /\ \A e \in Task : objs[o].back[e] # "none" => objs[o].lbs[NetOf[e]] # 0

\* What a call holds: a task of a service, an object of that service, and, but for
\* the objects the cleanup collects from, tasks to remove.
CallOK(c) ==
  /\ c.pc \in {"lock", "lookup", "bind", "find", "unbind"} =>
       c.task \in Task /\ SvcOf[c.task] # NoService
  /\ c.pc \in {"bind", "unbind"} =>
       c.obj \in DOMAIN objs /\ objs[c.obj].svc = SvcOf[c.task]
  /\ c.todo \subseteq (1..MaxObjects) \cup Task
  /\ c.pc # "collect" => c.todo \subseteq Task

Calls == \A p \in Proc : CallOK(proc[p])

IInv == Typed /\ Bindings /\ Objects /\ Calls

-----------------------------------------------------------------------------

\* The goroutines.
LEMMA Goroutines ==
  /\ Watcher \in Proc /\ Cluster \in Proc
  /\ \A n \in Network : Deleter(n) \in Proc
  /\ \A e \in Local : Svc(e) \in Proc /\ Leave(e) \in Proc
BY DEF Proc

\* A call at rest holds nothing.
LEMMA IdleOK == Idle \in Call /\ CallOK(Idle)
BY TasksAssumption DEF Idle, Call, CallOK

\* A goroutine goes on and leaves the objects alone: what it holds then decides.
LEMMA CallStep ==
  ASSUME IInv, NEW p \in Proc, NEW c \in Call, CallOK(c),
         proc' = [proc EXCEPT ![p] = c], queue' \in Seq(QueuedEvent),
         UNCHANGED <<objs, bindings, mark>>
  PROVE  IInv'
<1>1. Typed'
  BY DEF IInv, Typed
<1>2. Bindings' /\ Objects'
  BY DEF IInv, Bindings, Objects
<1>3. Calls'
  BY DEF IInv, Typed, Calls, CallOK
<1> QED BY <1>1, <1>2, <1>3 DEF IInv

\* So it is when nobody goes on.
LEMMA QueueStep ==
  ASSUME IInv, queue' \in Seq(QueuedEvent), UNCHANGED <<proc, objs, bindings, mark>>
  PROVE  IInv'
<1>1. Typed'
  BY DEF IInv, Typed
<1>2. Bindings' /\ Objects' /\ Calls'
  BY DEF IInv, Bindings, Objects, Calls, CallOK
<1> QED BY <1>1, <1>2 DEF IInv

\* A goroutine that goes to a step without an object keeps what it holds.
LEMMA GotoCall ==
  ASSUME IInv, NEW p \in Proc,
         NEW pc \in {"lookup", "name", "publish", "enable", "disable", "leave", "clear",
                     "discovery", "snapshot", "cleanup", "removing", "leaving"},
         proc[p].pc # "collect",
         pc = "lookup" => proc[p].pc \in {"lock", "bind"},
         Goto(p, pc)
  PROVE  \E c \in Call : CallOK(c) /\ proc' = [proc EXCEPT ![p] = c]
<1> DEFINE c == [proc[p] EXCEPT !.pc = pc]
<1>1. proc[p] \in Call /\ CallOK(proc[p])
  BY DEF IInv, Typed, Calls
<1>2. c \in Call
  BY <1>1 DEF Call
<1>3. c.pc = pc /\ c.task = proc[p].task /\ c.todo = proc[p].todo
  BY <1>1 DEF Call
<1>4. CallOK(c)
  BY <1>1, <1>3 DEF CallOK
<1>5. proc' = [proc EXCEPT ![p] = c]
  BY DEF Goto
<1> HIDE DEF c
<1> QED BY <1>2, <1>4, <1>5, Zenon

LEMMA GotoStep ==
  ASSUME IInv, NEW p \in Proc,
         NEW pc \in {"lookup", "name", "publish", "enable", "disable", "leave", "clear",
                     "discovery", "snapshot", "cleanup", "removing", "leaving"},
         proc[p].pc # "collect",
         pc = "lookup" => proc[p].pc \in {"lock", "bind"},
         Goto(p, pc), queue' \in Seq(QueuedEvent), UNCHANGED <<objs, bindings, mark>>
  PROVE  IInv'
BY GotoCall, CallStep

\* A goroutine that is done holds nothing.
LEMMA DoneStep ==
  ASSUME IInv, NEW p \in Proc, Done(p), queue' \in Seq(QueuedEvent),
         UNCHANGED <<objs, bindings, mark>>
  PROVE  IInv'
BY IdleOK, CallStep, Zenon DEF Done

\* An add starts.
LEMMA AddingStep ==
  ASSUME IInv, NEW p \in Proc, NEW e \in Task, proc' = Adding(p, e),
         queue' \in Seq(QueuedEvent), UNCHANGED <<objs, bindings, mark>>
  PROVE  IInv'
<1> DEFINE c == [Idle EXCEPT !.pc = IF SvcOf[e] = NoService THEN "record" ELSE "lock",
                             !.task = e]
<1>1. c \in Call
  BY IdleOK, Zenon DEF Call
<1>2. /\ c.pc = (IF SvcOf[e] = NoService THEN "record" ELSE "lock")
      /\ c.task = e /\ c.todo = {}
  BY DEF Idle
<1>3. CallOK(c)
  BY <1>2 DEF CallOK
<1>4. proc' = [proc EXCEPT ![p] = c]
  BY DEF Adding
<1> HIDE DEF c
<1> QED BY <1>1, <1>3, <1>4, CallStep, Zenon

\* A remove starts.
LEMMA RemovingStep ==
  ASSUME IInv, NEW p \in Proc, NEW e \in Task, NEW full \in BOOLEAN, NEW records \in BOOLEAN,
         proc[p].pc # "collect",
         proc' = Removing(p, e, full, records),
         queue' \in Seq(QueuedEvent), UNCHANGED <<objs, bindings, mark>>
  PROVE  IInv'
<1> DEFINE c == [proc[p] EXCEPT !.pc = IF SvcOf[e] = NoService THEN "unrecord" ELSE "find",
                                !.task = e, !.full = full, !.dns = records]
<1>1. proc[p] \in Call /\ CallOK(proc[p])
  BY DEF IInv, Typed, Calls
<1>2. c \in Call
  BY <1>1, Zenon DEF Call
<1>3. c.pc = (IF SvcOf[e] = NoService THEN "unrecord" ELSE "find") /\ c.task = e
      /\ c.todo = proc[p].todo
  BY <1>1 DEF Call
<1>4. CallOK(c)
  BY <1>1, <1>3 DEF CallOK
<1>5. proc' = [proc EXCEPT ![p] = c]
  BY <1>1 DEF Removing
<1> HIDE DEF c
<1> QED BY <1>2, <1>4, <1>5, CallStep, Zenon

\* A remove, or an add, returns to its caller.
LEMMA RemovedCall ==
  ASSUME IInv, NEW p \in Proc, proc[p].pc # "collect", Removed(p)
  PROVE  \E c \in Call : CallOK(c) /\ proc' = [proc EXCEPT ![p] = c]
<1>1. proc[p] \in Call /\ CallOK(proc[p])
  BY DEF IInv, Typed, Calls
<1>2. CASE proc' = [proc EXCEPT ![p].pc = "clear"]
  BY <1>2, GotoCall, Zenon DEF Goto
<1>3. CASE proc' = [proc EXCEPT ![p].pc = "cleanup", ![p].task = NoTask]
  <2> DEFINE c == [proc[p] EXCEPT !.pc = "cleanup", !.task = NoTask]
  <2>1. c \in Call
    BY <1>1, Zenon DEF Call
  <2>2. c.pc = "cleanup" /\ c.todo = proc[p].todo
    BY <1>1 DEF Call
  <2>3. CallOK(c)
    BY <1>1, <2>2 DEF CallOK
  <2>4. proc' = [proc EXCEPT ![p] = c]
    BY <1>3, Zenon
  <2> HIDE DEF c
  <2> QED BY <2>1, <2>3, <2>4, Zenon
<1>4. CASE proc' = [proc EXCEPT ![p] = Idle]
  BY <1>4, IdleOK, Zenon
<1> QED BY <1>2, <1>3, <1>4, Zenon DEF Removed

LEMMA AddedCall ==
  ASSUME IInv, NEW p \in Proc, NEW ok, proc[p].pc # "collect", Added(p, ok)
  PROVE  \E c \in Call : CallOK(c) /\ proc' = [proc EXCEPT ![p] = c]
BY GotoCall, IdleOK DEF Added, Done

-----------------------------------------------------------------------------

\* Looking a service up: a new object is live and empty, and its service, which
\* had none, is bound to it.
LEMMA LookupKeeps ==
  ASSUME IInv, NEW p \in Proc, LookupService(p)
  PROVE  IInv'
<1>1. proc[p] \in Call /\ CallOK(proc[p]) /\ proc[p].pc = "lookup"
  BY Zenon DEF IInv, Typed, Calls, LookupService, At
<1>2. PICK e, s : e = proc[p].task /\ s = SvcOf[e] /\ e \in Task /\ s \in Service
  BY <1>1, TasksAssumption DEF CallOK
<1>3. objs \in Seq(Object) /\ bindings \in [Service -> 0..MaxObjects] /\ MaxObjects \in Nat
  BY TasksAssumption DEF IInv, Typed
<1>4. PICK o, c : /\ o = IF bindings[s] = 0 THEN Len(objs) + 1 ELSE bindings[s]
                  /\ c = [proc[p] EXCEPT !.pc = "bind", !.obj = o]
                  /\ o <= MaxObjects
                  /\ objs' = IF bindings[s] = 0 THEN Append(objs, NewObject(s)) ELSE objs
                  /\ bindings' = [bindings EXCEPT ![s] = o]
                  /\ proc' = [proc EXCEPT ![p] = c]
                  /\ UNCHANGED <<queue, mark>>
  BY <1>2, Zenon DEF LookupService
<1>5. o \in 1..MaxObjects
  <2>1. bindings[s] \in 0..MaxObjects /\ Len(objs) \in Nat
    BY <1>2, <1>3
  <2>2. (bindings[s] = 0 /\ o = Len(objs) + 1) \/ (bindings[s] # 0 /\ o = bindings[s])
    BY <1>4, Zenon
  <2>3. o <= MaxObjects
    BY <1>4, Zenon
  <2> QED BY <1>3, <2>1, <2>2, <2>3
<1>6. c \in Call /\ c.pc = "bind" /\ c.task = e /\ c.todo = proc[p].todo /\ c.obj = o
  <2>1. o \in 0..MaxObjects
    BY <1>3, <1>5
  <2>2. c = [proc[p] EXCEPT !.pc = "bind", !.obj = o]
    BY <1>4, Zenon
  <2> QED BY <1>1, <1>2, <2>1, <2>2, Zenon DEF Call
<1>7. NewObject(s) \in Object
  BY <1>2 DEF NewObject, Object
<1>8. objs' \in Seq(Object)
  <2>1. objs' = Append(objs, NewObject(s)) \/ objs' = objs
    BY <1>4, Zenon
  <2>2. PICK x : x = NewObject(s)
    BY Zenon
  <2>3. x \in Object /\ (objs' = Append(objs, x) \/ objs' = objs)
    BY <1>7, <2>1, <2>2, Zenon
  <2> QED BY <1>3, <2>3
<1>9. /\ DOMAIN objs \subseteq DOMAIN objs' /\ o \in DOMAIN objs'
      /\ DOMAIN objs' = DOMAIN objs \cup {o}
      /\ \A x \in DOMAIN objs : objs'[x] = objs[x]
      /\ o \notin DOMAIN objs => objs'[o] = NewObject(s)
      /\ o \in DOMAIN objs <=> bindings[s] # 0
  <2>1. CASE bindings[s] = 0
    <3>1. objs' = Append(objs, NewObject(s)) /\ o = Len(objs) + 1
      BY <1>4, <2>1, Zenon
    <3>2. PICK x : x = NewObject(s)
      BY Zenon
    <3>3. x \in Object /\ objs' = Append(objs, x)
      BY <1>7, <3>1, <3>2, Zenon
    <3>4. /\ DOMAIN objs' = 1 .. Len(objs) + 1 /\ DOMAIN objs = 1 .. Len(objs)
          /\ Len(objs) \in Nat
          /\ \A y \in 1 .. Len(objs) : objs'[y] = objs[y]
          /\ objs'[Len(objs) + 1] = x
      BY <1>3, <3>3
    <3> QED BY <2>1, <3>1, <3>2, <3>4
  <2>2. CASE bindings[s] # 0
    <3>1. objs' = objs /\ o = bindings[s]
      BY <1>4, <2>2, Zenon
    <3>2. o \in DOMAIN objs
      BY <1>2, <2>2, <3>1 DEF IInv, Bindings
    <3> QED BY <2>2, <3>1, <3>2
  <2> QED BY <2>1, <2>2, Zenon
<1>10. objs'[o].svc = s
  <2>1. CASE o \notin DOMAIN objs
    <3>1. objs'[o] = NewObject(s)
      BY <1>9, <2>1, Zenon
    <3>2. NewObject(s).svc = s
      BY DEF NewObject
    <3> QED BY <3>1, <3>2, Zenon
  <2>2. CASE o \in DOMAIN objs
    <3>1. bindings[s] # 0 /\ o = bindings[s] /\ objs'[o] = objs[o]
      BY <1>4, <1>9, <2>2, Zenon
    <3> QED BY <1>2, <3>1 DEF IInv, Bindings
  <2> QED BY <2>1, <2>2, Zenon
<1>11. Typed'
  BY <1>2, <1>3, <1>4, <1>5, <1>6, <1>8 DEF IInv, Typed
<1>12. bindings' = [bindings EXCEPT ![s] = o]
  BY <1>4, Zenon
<1>13. Bindings'
  <2> SUFFICES ASSUME NEW x \in Service, bindings'[x] # 0
               PROVE  bindings'[x] \in DOMAIN objs' /\ objs'[bindings'[x]].svc = x
    BY DEF Bindings
  <2>1. CASE x = s
    BY <1>2, <1>3, <1>9, <1>10, <1>12, <2>1
  <2>2. CASE x # s
    <3>1. bindings'[x] = bindings[x]
      BY <1>2, <1>3, <1>12, <2>2
    <3>2. bindings[x] \in DOMAIN objs /\ objs[bindings[x]].svc = x
      BY <3>1 DEF IInv, Bindings
    <3> QED BY <1>9, <3>1, <3>2, Zenon
  <2> QED BY <2>1, <2>2, Zenon
<1>14. Objects'
  <2> SUFFICES ASSUME NEW x \in DOMAIN objs'
               PROVE  /\ ~objs'[x].deleted <=> bindings'[objs'[x].svc] = x
                      /\ objs'[x].deleted => \A n \in Network : objs'[x].lbs[n] = 0
                      /\ \A y \in Task : objs'[x].back[y] # "none" => objs'[x].lbs[NetOf[y]] # 0
    BY DEF Objects
  <2>1. CASE x \notin DOMAIN objs
    <3>1. x = o /\ objs'[x] = NewObject(s)
      BY <1>9, <2>1
    <3>2. /\ objs'[x].svc = s /\ ~objs'[x].deleted
          /\ \A y \in Task : objs'[x].back[y] = "none"
      BY <3>1 DEF NewObject
    <3>3. bindings'[s] = x
      BY <1>2, <1>3, <1>12, <3>1
    <3> QED BY <3>2, <3>3
  <2>2. CASE x \in DOMAIN objs
    <3>0. objs[x] \in Object
      BY <1>3, <2>2
    <3>1. objs'[x] = objs[x] /\ objs[x].svc \in Service
      BY <1>9, <2>2, <3>0 DEF Object
    <3>2. bindings'[objs[x].svc] = x <=> bindings[objs[x].svc] = x
      <4>1. CASE bindings[s] # 0
        BY <1>2, <1>3, <1>4, <4>1
      <4>2. CASE bindings[s] = 0
        BY <1>2, <1>3, <1>4, <1>9, <2>2, <3>1, <4>2
      <4> QED BY <4>1, <4>2
    <3> QED BY <2>2, <3>1, <3>2 DEF IInv, Objects
  <2> QED BY <2>1, <2>2
<1>15. Calls'
  <2> SUFFICES ASSUME NEW q \in Proc PROVE CallOK(proc[q])'
    BY DEF Calls
  <2>1. CASE q = p
    <3>1. proc'[q] = c
      BY <1>4, <2>1 DEF IInv, Typed
    <3> QED BY <1>1, <1>2, <1>6, <1>9, <1>10, <3>1, TasksAssumption DEF CallOK
  <2>2. CASE q # p
    <3>1. proc'[q] = proc[q] /\ CallOK(proc[q])
      BY <1>4, <2>2 DEF IInv, Typed, Calls
    <3> QED BY <1>9, <3>1 DEF CallOK
  <2> QED BY <2>1, <2>2
<1> QED BY <1>11, <1>14, <1>15, <1>13 DEF IInv

(***************************************************************************)
(* Changing a live object o: the others stay, and are what the calls hold. *)
(* The new object is of the same service, bound unless it is deleted, and  *)
(* keeps the two facts about load balancers.                               *)
(***************************************************************************)
LEMMA ObjectStep ==
  ASSUME IInv, NEW p \in Proc, NEW c \in Call, CallOK(c), proc' = [proc EXCEPT ![p] = c],
         NEW o \in DOMAIN objs, ~objs[o].deleted, NEW new \in Object,
         new.svc = objs[o].svc, objs' = [objs EXCEPT ![o] = new],
         bindings' = IF new.deleted THEN [bindings EXCEPT ![new.svc] = 0] ELSE bindings,
         mark' \in Nat \ {0}, UNCHANGED queue,
         new.deleted => \A n \in Network : new.lbs[n] = 0,
         \A e \in Task : new.back[e] # "none" => new.lbs[NetOf[e]] # 0
  PROVE  IInv'
<1>1. /\ objs \in Seq(Object) /\ bindings \in [Service -> 0..MaxObjects] /\ MaxObjects \in Nat
      /\ objs[o] \in Object
  BY TasksAssumption DEF IInv, Typed
<1>2. new.svc \in Service /\ bindings[new.svc] = o /\ new.deleted \in BOOLEAN
  BY <1>1 DEF Object, IInv, Objects
<1>3. objs' \in Seq(Object) /\ DOMAIN objs' = DOMAIN objs /\ objs'[o] = new
      /\ \A x \in DOMAIN objs : x # o => objs'[x] = objs[x]
  BY <1>1
<1>4. bindings' \in [Service -> 0..MaxObjects]
  BY <1>1, <1>2
<1>5. /\ bindings'[new.svc] = IF new.deleted THEN 0 ELSE o
      /\ \A s \in Service : s # new.svc => bindings'[s] = bindings[s]
  BY <1>1, <1>2
<1>6. Typed'
  BY <1>3, <1>4 DEF IInv, Typed
<1>7. Bindings'
  <2> SUFFICES ASSUME NEW s \in Service, bindings'[s] # 0
               PROVE  bindings'[s] \in DOMAIN objs' /\ objs'[bindings'[s]].svc = s
    BY DEF Bindings
  <2>1. bindings'[s] = bindings[s]
    BY <1>2, <1>5
  <2>2. bindings[s] \in DOMAIN objs /\ objs[bindings[s]].svc = s
    BY <2>1 DEF IInv, Bindings
  <2> QED BY <1>3, <2>1, <2>2
<1>8. Objects'
  <2> SUFFICES ASSUME NEW x \in DOMAIN objs'
               PROVE  /\ ~objs'[x].deleted <=> bindings'[objs'[x].svc] = x
                      /\ objs'[x].deleted => \A n \in Network : objs'[x].lbs[n] = 0
                      /\ \A y \in Task : objs'[x].back[y] # "none" => objs'[x].lbs[NetOf[y]] # 0
    BY DEF Objects
  <2>1. x \in Nat \ {0} /\ x \in DOMAIN objs
    BY <1>1, <1>3
  <2>2. CASE x = o
    BY <1>2, <1>3, <1>5, <2>1, <2>2
  <2>3. CASE x # o
    <3>1. objs'[x] = objs[x] /\ objs[x].svc \in Service
      <4>1. objs[x] \in Object
        BY <1>1, <2>1
      <4> QED BY <1>3, <2>1, <2>3, <4>1 DEF Object
    <3>2. bindings'[objs[x].svc] = x <=> bindings[objs[x].svc] = x
      BY <1>2, <1>5, <2>1, <2>3, <3>1
    <3> QED BY <2>1, <3>1, <3>2 DEF IInv, Objects
  <2> QED BY <2>2, <2>3
<1>9. Calls'
  <2> SUFFICES ASSUME NEW q \in Proc PROVE CallOK(proc[q])'
    BY DEF Calls
  <2>1. CallOK(proc'[q])
    BY DEF IInv, Typed, Calls
  <2>2. \A x \in DOMAIN objs : objs'[x].svc = objs[x].svc
    BY <1>3
  <2> QED BY <1>3, <2>1, <2>2 DEF CallOK
<1> QED BY <1>6, <1>7, <1>8, <1>9 DEF IInv

\* The body of addServiceBinding gives a live object a load balancer and a back end.
LEMMA AddKeeps ==
  ASSUME IInv, NEW p \in Proc, AddBinding(p)
  PROVE  IInv'
<1> DEFINE e == proc[p].task
           o == proc[p].obj
           n == NetOf[e]
           m == IF objs[o].lbs[n] = 0 THEN mark ELSE objs[o].lbs[n]
<1>1. proc[p] \in Call /\ CallOK(proc[p]) /\ proc[p].pc = "bind"
  BY DEF IInv, Typed, Calls, AddBinding, At
<1>2. e \in Task /\ SvcOf[e] \in Service /\ o \in DOMAIN objs /\ objs[o].svc = SvcOf[e]
      /\ n \in Network /\ IpOf[e] \in Ip
  BY <1>1, TasksAssumption DEF CallOK
<1>3. objs[o] \in Object /\ mark \in Nat \ {0} /\ queue \in Seq(QueuedEvent)
  BY <1>2 DEF IInv, Typed
<1>4. CASE objs[o].deleted
  <2>1. Goto(p, "lookup") /\ UNCHANGED <<queue, objs, bindings, mark>>
    BY <1>4 DEF AddBinding, bound
  <2> QED BY <1>1, <1>3, <2>1, GotoStep
<1>5. CASE ~objs[o].deleted
  <2> DEFINE new == [objs[o] EXCEPT !.lbs[n] = m, !.back[e] = "on",
                                    !.ips = @ \cup {<<IpOf[e], e>>}]
  <2>1. Bind(e, o) /\ Added(p, TRUE) /\ UNCHANGED queue
    BY <1>5, Zenon DEF AddBinding
  <2>2. objs' = [objs EXCEPT ![o] = new]
    BY <2>1, Zenon DEF Bind
  <2>3. m \in Nat \ {0} /\ mark' \in Nat \ {0}
    <3>1. objs[o].lbs[n] \in Nat
      BY <1>2, <1>3 DEF Object
    <3>2. mark' = IF objs[o].lbs[n] = 0 THEN mark + 1 ELSE mark
      BY <2>1, Zenon DEF Bind
    <3>3. CASE objs[o].lbs[n] = 0
      BY <1>3, <3>2, <3>3
    <3>4. CASE objs[o].lbs[n] # 0
      BY <1>3, <3>1, <3>2, <3>4, Zenon
    <3> QED BY <3>3, <3>4, Zenon
  <2> HIDE DEF m
  <2>4. new \in Object
    <3>1. /\ [objs[o].lbs EXCEPT ![n] = m] \in [Network -> Nat]
          /\ [objs[o].back EXCEPT ![e] = "on"] \in [Task -> {"none", "on", "off"}]
      BY <1>2, <1>3, <2>3 DEF Object
    <3>2. objs[o].ips \cup {<<IpOf[e], e>>} \in SUBSET (Ip \X Task)
      BY <1>2, <1>3 DEF Object
    <3>3. \A r \in Object, l \in [Network -> Nat], b \in [Task -> {"none", "on", "off"}],
             i \in SUBSET (Ip \X Task) : [r EXCEPT !.lbs = l, !.back = b, !.ips = i] \in Object
      BY Zenon DEF Object
    <3>4. new = [objs[o] EXCEPT !.lbs = [objs[o].lbs EXCEPT ![n] = m],
                                !.back = [objs[o].back EXCEPT ![e] = "on"],
                                !.ips = objs[o].ips \cup {<<IpOf[e], e>>}]
      BY <1>3 DEF Object
    <3> QED BY <1>3, <3>1, <3>2, <3>3, <3>4, Zenon
  <2>5. /\ new.svc = objs[o].svc /\ ~new.deleted
        /\ new.lbs = [objs[o].lbs EXCEPT ![n] = m] /\ new.back = [objs[o].back EXCEPT ![e] = "on"]
    BY <1>3, <1>5 DEF Object
  <2>6. ASSUME NEW y \in Task, new.back[y] # "none" PROVE new.lbs[NetOf[y]] # 0
    <3>1. /\ NetOf[y] \in Network /\ objs[o].lbs \in [Network -> Nat]
          /\ objs[o].back \in [Task -> {"none", "on", "off"}]
      BY <1>3, TasksAssumption DEF Object
    <3>2. CASE NetOf[y] = n
      BY <2>3, <2>5, <3>1, <3>2
    <3>3. CASE NetOf[y] # n
      <4>1. y # e /\ objs[o].back[y] # "none"
        BY <2>5, <2>6, <3>1, <3>3
      <4>2. objs[o].lbs[NetOf[y]] # 0
        BY <1>2, <4>1 DEF IInv, Objects
      <4> QED BY <2>5, <3>1, <3>3, <4>2
    <3> QED BY <3>2, <3>3
  <2>7. PICK c \in Call : CallOK(c) /\ proc' = [proc EXCEPT ![p] = c]
    BY <1>1, <2>1, AddedCall, Zenon
  <2>8. bindings' = bindings
    BY <2>1, Zenon DEF Bind
  <2> HIDE DEF new, e, o, n
  <2> QED BY <1>2, <1>5, <2>1, <2>2, <2>3, <2>4, <2>5, <2>6, <2>7, <2>8, ObjectStep, Zenon
<1> QED BY <1>4, <1>5

\* The body of rmServiceBinding takes them, deletes the object that has none left and
\* unbinds its service; it finds nothing to take in an object that was deleted before.
LEMMA RemoveKeeps ==
  ASSUME IInv, NEW p \in Proc, RemoveBinding(p)
  PROVE  IInv'
<1> DEFINE e == proc[p].task
           o == proc[p].obj
           n == NetOf[e]
           full == proc[p].full
           back == Remaining(o, e, full)
           rmService == \A x \in Task : NetOf[x] = n => back[x] = "none"
           lbs == IF rmService THEN [objs[o].lbs EXCEPT ![n] = 0] ELSE objs[o].lbs
           last == \A x \in Network : lbs[x] = 0
<1>1. proc[p] \in Call /\ CallOK(proc[p]) /\ proc[p].pc = "unbind"
  BY DEF IInv, Typed, Calls, RemoveBinding, At
<1>2. e \in Task /\ SvcOf[e] \in Service /\ o \in DOMAIN objs /\ objs[o].svc = SvcOf[e]
      /\ n \in Network /\ IpOf[e] \in Ip
  BY <1>1, TasksAssumption DEF CallOK
<1>3. objs[o] \in Object /\ mark \in Nat \ {0} /\ queue \in Seq(QueuedEvent)
  BY <1>2 DEF IInv, Typed
<1>4. Unbind(e, o, full, proc[p].dns) /\ UNCHANGED queue
  BY DEF RemoveBinding
<1>5. PICK c \in Call : CallOK(c) /\ proc' = [proc EXCEPT ![p] = c]
  BY <1>1, RemovedCall DEF RemoveBinding
<1>6. CASE objs[o].lbs[n] = 0 \/ objs[o].back[e] = "none"
  <2>1. UNCHANGED <<objs, bindings, mark>>
    BY <1>4, <1>6, Zenon DEF Unbind, bound
  <2> QED BY <1>3, <1>4, <1>5, <2>1, CallStep, Zenon
<1>7. CASE ~(objs[o].lbs[n] = 0 \/ objs[o].back[e] = "none")
  <2> DEFINE new == [objs[o] EXCEPT !.lbs = lbs, !.back = back,
                                    !.ips = @ \ {<<IpOf[e], e>>}, !.deleted = last]
  <2>1. /\ objs' = [objs EXCEPT ![o] = new]
        /\ bindings' = Unbound(SvcOf[e], last)
        /\ mark' = mark
    BY <1>4, <1>7, Zenon DEF Unbind
  <2>2. ~objs[o].deleted
    BY <1>2, <1>7 DEF IInv, Objects
  <2>3. /\ lbs \in [Network -> Nat] /\ back \in [Task -> {"none", "on", "off"}]
        /\ last \in BOOLEAN
    BY <1>2, <1>3 DEF Object, Remaining
  <2>4. ASSUME NEW y \in Task, back[y] # "none" PROVE lbs[NetOf[y]] # 0
    <3>1. /\ NetOf[y] \in Network /\ objs[o].lbs \in [Network -> Nat]
          /\ objs[o].back \in [Task -> {"none", "on", "off"}]
      BY <1>3, TasksAssumption DEF Object
    <3>2. objs[o].back[y] # "none"
      BY <1>2, <1>7, <2>4, <3>1 DEF Remaining
    <3>3. objs[o].lbs[NetOf[y]] # 0
      BY <1>2, <3>2 DEF IInv, Objects
    <3>4. NetOf[y] = n => ~rmService
      BY <2>4
    <3> QED BY <1>2, <3>1, <3>3, <3>4
  <2> HIDE DEF lbs, back, last, rmService
  <2>5. new \in Object
    BY <1>3, <2>3, Zenon DEF Object
  <2>6. new.svc = objs[o].svc /\ new.deleted = last /\ new.lbs = lbs /\ new.back = back
    BY <1>3 DEF Object
  <2>7. bindings' = IF new.deleted THEN [bindings EXCEPT ![new.svc] = 0] ELSE bindings
    BY <1>2, <2>1, <2>6, Zenon DEF Unbound
  <2>8. new.deleted => \A x \in Network : new.lbs[x] = 0
    BY <2>6 DEF last
  <2>9. \A y \in Task : new.back[y] # "none" => new.lbs[NetOf[y]] # 0
    BY <2>4, <2>6
  <2> HIDE DEF new, e, o, n
  <2> QED BY <1>2, <1>3, <1>4, <1>5, <2>1, <2>2, <2>5, <2>6, <2>7, <2>8, <2>9, ObjectStep, Zenon
<1> QED BY <1>6, <1>7

\* rmServiceBinding holds the object its service is bound to.
LEMMA FindKeeps ==
  ASSUME IInv, NEW p \in Proc, FindService(p)
  PROVE  IInv'
<1> DEFINE s == SvcOf[proc[p].task]
           o == bindings[s]
           c == [proc[p] EXCEPT !.pc = "unbind", !.obj = o]
<1>1. proc[p] \in Call /\ CallOK(proc[p]) /\ proc[p].pc = "find"
  BY DEF IInv, Typed, Calls, FindService, At
<1>2. proc[p].task \in Task /\ s \in Service
  BY <1>1, TasksAssumption DEF CallOK
<1>3. UNCHANGED <<objs, bindings, mark>> /\ queue' \in Seq(QueuedEvent)
  BY DEF IInv, Typed, FindService, bound
<1>4. CASE o = 0
  BY <1>1, <1>3, <1>4, RemovedCall, CallStep DEF FindService
<1>5. CASE o # 0
  <2>1. o \in DOMAIN objs /\ objs[o].svc = s /\ o \in 0..MaxObjects
    BY <1>2, <1>5 DEF IInv, Typed, Bindings
  <2>2. c \in Call
    BY <1>1, <2>1, Zenon DEF Call
  <2>3. c.pc = "unbind" /\ c.task = proc[p].task /\ c.todo = proc[p].todo /\ c.obj = o
    BY <1>1 DEF Call
  <2>4. proc' = [proc EXCEPT ![p] = c]
    BY <1>1, <1>5, Zenon DEF FindService, IInv, Typed
  <2> HIDE DEF c, o
  <2>5. CallOK(c)
    BY <1>1, <1>2, <2>1, <2>3, TasksAssumption DEF CallOK
  <2> QED BY <1>3, <2>2, <2>4, <2>5, CallStep, Zenon
<1> QED BY <1>4, <1>5

\* Every step of addServiceBinding and rmServiceBinding keeps the invariant.
LEMMA BindingKeeps ==
  ASSUME IInv, NEW p \in Proc, BindingStep(p)
  PROVE  IInv'
<1>0. queue \in Seq(QueuedEvent)
  BY DEF IInv, Typed
<1>1. CASE LockNetwork(p)
  <2>1. proc[p].pc = "lock" /\ UNCHANGED <<queue, objs, bindings, mark>>
    BY <1>1 DEF LockNetwork, At, bound
  <2>2. CASE Goto(p, "lookup")
    BY <1>0, <2>1, <2>2, GotoStep
  <2>3. CASE Added(p, FALSE)
    BY <1>0, <2>1, <2>3, AddedCall, CallStep, Zenon
  <2> QED BY <1>1, <2>2, <2>3, Zenon DEF LockNetwork
<1>2. CASE RecordName(p)
  <2>1. proc[p].pc = "record" /\ UNCHANGED <<queue, objs, bindings, mark>>
    BY <1>2 DEF RecordName, At, bound
  <2>2. CASE Goto(p, "name")
    BY <1>0, <2>1, <2>2, GotoStep
  <2>3. CASE Added(p, FALSE)
    BY <1>0, <2>1, <2>3, AddedCall, CallStep, Zenon
  <2> QED BY <1>2, <2>2, <2>3, Zenon DEF RecordName
<1>3. CASE AddName(p)
  BY <1>0, <1>3, AddedCall, CallStep, Zenon DEF AddName, At
<1>4. CASE UnrecordName(p)
  BY <1>0, <1>4, RemovedCall, CallStep DEF UnrecordName, At
<1> QED BY <1>1, <1>2, <1>3, <1>4, LookupKeeps, AddKeeps, FindKeeps, RemoveKeeps DEF BindingStep

-----------------------------------------------------------------------------

\* The watcher of the table: the events it takes are of tasks.
LEMMA WatcherKeeps ==
  ASSUME IInv, HandleEpTableEvent
  PROVE  IInv'
<1> DEFINE ev == Head(queue)
<1>1. queue \in Seq(QueuedEvent) /\ queue # <<>> /\ proc[Watcher].pc = "idle"
  BY DEF IInv, Typed, HandleEpTableEvent, At
<1>2. ev \in QueuedEvent /\ Tail(queue) \in Seq(QueuedEvent)
  BY <1>1
<1>3. ev.task \in Task
  BY <1>2 DEF QueuedEvent, Remote
<1>4. queue' \in Seq(QueuedEvent) /\ UNCHANGED <<objs, bindings, mark>>
  BY <1>2 DEF HandleEpTableEvent, bound
<1> HIDE DEF ev
<1>5. \/ proc' = Adding(Watcher, ev.task)
      \/ \E full \in BOOLEAN : proc' = Removing(Watcher, ev.task, full, TRUE)
      \/ proc' = proc
  BY Zenon DEF HandleEpTableEvent, ev
<1>6. Watcher \in Proc
  BY Goroutines
<1>7. CASE proc' = Adding(Watcher, ev.task)
  BY <1>3, <1>4, <1>6, <1>7, AddingStep
<1>8. CASE \E full \in BOOLEAN : proc' = Removing(Watcher, ev.task, full, TRUE)
  BY <1>1, <1>3, <1>4, <1>6, <1>8, RemovingStep, Zenon
<1>9. CASE proc' = proc
  BY <1>4, <1>9, QueueStep
<1> QED BY <1>5, <1>7, <1>8, <1>9, Zenon

\* The calls of a local container.
LEMMA LocalKeeps ==
  ASSUME IInv, NEW e \in Local,
         EnableService(e) \/ DisableService(e) \/ SbLeave(e) \/ LocalStep(e)
  PROVE  IInv'
<1>0. queue \in Seq(QueuedEvent) /\ Svc(e) \in Proc /\ Leave(e) \in Proc /\ e \in Task
  BY Goroutines, TasksAssumption DEF IInv, Typed
<1>1. CASE EnableService(e)
  BY <1>0, <1>1, GotoStep, QueueStep DEF EnableService, At, bound
<1>2. CASE DisableService(e)
  BY <1>0, <1>2, GotoStep, QueueStep DEF DisableService, At, bound
<1>3. CASE SbLeave(e)
  BY <1>0, <1>3, GotoStep DEF SbLeave, At, bound
<1>4. CASE AddServiceInfo(e)
  BY <1>0, <1>4, AddingStep, DoneStep DEF AddServiceInfo, bound
<1>5. CASE PublishRecord(e)
  BY <1>0, <1>5, DoneStep DEF PublishRecord, bound
<1>6. CASE DisableServiceInfo(e)
  BY <1>0, <1>6, RemovingStep, DoneStep, Zenon DEF DisableServiceInfo, At, bound
<1>7. CASE DeleteServiceInfo(e)
  BY <1>0, <1>7, RemovingStep, Zenon DEF DeleteServiceInfo, At, bound
<1>8. CASE ClearNetworkResources(e)
  BY <1>0, <1>8, DoneStep DEF ClearNetworkResources, bound
<1> QED BY <1>1, <1>2, <1>3, <1>4, <1>5, <1>6, <1>7, <1>8 DEF LocalStep

\* What other nodes say: only the queue of the watcher grows.
LEMMA RemoteKeeps ==
  ASSUME IInv, NEW e \in Remote,
         \/ RemoteEnable(e) \/ RemoteDisable(e) \/ RemoteLeave(e) \/ NodeFails(e)
         \/ \E v \in {"on", "off", "gone"}, sync \in BOOLEAN : Learn(e, v, sync)
  PROVE  IInv'
<1>1. UNCHANGED <<proc, objs, bindings, mark>>
  BY DEF RemoteEnable, RemoteDisable, RemoteLeave, NodeFails, Learn, bound
<1>2. queue \in Seq(QueuedEvent)
  BY DEF IInv, Typed
<1>3. \A t \in {"create", "update", "delete"} :
        Event(t, e) \in QueuedEvent
  BY DEF Event, QueuedEvent
<1>4. queue' \in Seq(QueuedEvent)
  <2>1. \/ queue' = queue
        \/ \E t \in {"create", "update", "delete"} : queue' = Append(queue, Event(t, e))
    BY DEF RemoteEnable, RemoteDisable, RemoteLeave, NodeFails, Learn
  <2> QED BY <1>2, <1>3, <2>1
<1> QED BY <1>1, <1>4, QueueStep

\* The events of the entries dropped, written in some order.
LEMMA DroppedQueue ==
  ASSUME IInv, NEW n \in Network
  PROVE  queue \o SetToSeq({Event("delete", e) : e \in Dropped(n)}) \in Seq(QueuedEvent)
<1> DEFINE S == {Event("delete", e) : e \in Dropped(n)}
<1>1. S \subseteq QueuedEvent
  BY DEF Dropped, Event, QueuedEvent
<1>2. IsFiniteSet(S)
  <2>1. IsFiniteSet(Dropped(n))
    BY TasksAssumption, FS_Subset DEF Dropped, Remote
  <2>2. [e \in Dropped(n) |-> Event("delete", e)] \in Surjection(Dropped(n), S)
    BY DEF Surjection
  <2> QED BY <2>1, <2>2, FS_Surjection
<1> HIDE DEF S
<1>3. PICK k \in Nat : ExistsBijection(1..k, S)
  BY <1>2, FS_NatBijection
<1>4. Cardinality(S) = k
  BY <1>2, <1>3, FS_CountingElements
<1>5. \E f \in [1..Cardinality(S) -> S] : IsInjective(f)
  BY <1>3, <1>4 DEF ExistsBijection, Bijection, Injection, IsInjective
<1>6. SetToSeq(S) \in [1..Cardinality(S) -> S]
  BY <1>5 DEF SetToSeq
<1>7. SetToSeq(S) \in Seq(QueuedEvent)
  BY <1>1, <1>3, <1>4, <1>6
<1> QED BY <1>7 DEF IInv, Typed, S

\* The deletion of a network.
LEMMA DeleteKeeps ==
  ASSUME IInv, NEW n \in Network, DeleteNetwork(n) \/ DeleteStep(n)
  PROVE  IInv'
<1>0. queue \in Seq(QueuedEvent) /\ Deleter(n) \in Proc
  BY Goroutines DEF IInv, Typed
<1>1. CASE DeleteNetwork(n)
  BY <1>0, <1>1, GotoStep DEF DeleteNetwork, At
<1>2. CASE LeaveCluster(n)
  <2>1. queue' \in Seq(QueuedEvent)
    BY <1>0, <1>2, DroppedQueue, Zenon DEF LeaveCluster
  <2> QED BY <1>0, <1>2, <2>1, GotoStep DEF LeaveCluster, At, bound
<1>3. CASE CleanupServiceDiscovery(n)
  BY <1>0, <1>3, GotoStep DEF CleanupServiceDiscovery, At
<1>4. CASE DeleteFromStore(n)
  BY <1>0, <1>4, DoneStep DEF DeleteFromStore, bound
<1> QED BY <1>1, <1>2, <1>3, <1>4 DEF DeleteStep

\* While the agent runs, the goroutine that closes it has not started.
Closing == agent => At(Cluster, "idle")

\* The end of the agent: the endpoints it removes are tasks of the objects it saw.
LEMMA ClusterKeeps ==
  ASSUME IInv, Closing, AgentClose \/ ClusterStep
  PROVE  IInv'
<1>0. /\ queue \in Seq(QueuedEvent) /\ Cluster \in Proc
      /\ proc[Cluster] \in Call /\ CallOK(proc[Cluster])
  BY Goroutines DEF IInv, Typed, Calls
<1>1. CASE AgentClose
  BY <1>0, <1>1, GotoStep DEF AgentClose, Closing, At, bound
<1>2. CASE CleanupAllDiscovery
  BY <1>0, <1>2, GotoStep DEF CleanupAllDiscovery, At
<1>3. CASE SnapshotServices
  <2> DEFINE t == {bindings[s] : s \in Service} \ {0}
             c == [proc[Cluster] EXCEPT !.pc = "collect", !.todo = t]
  <2>1. t \subseteq 1..MaxObjects
    BY TasksAssumption DEF IInv, Typed
  <2>2. t \in SUBSET (0..MaxObjects \cup Task)
    BY <2>1, TasksAssumption
  <2>3. proc' = [proc EXCEPT ![Cluster] = c]
    BY <1>0, <1>3, Zenon DEF SnapshotServices, IInv, Typed
  <2> HIDE DEF t
  <2>4. c \in Call
    BY <1>0, <2>2, Zenon DEF Call
  <2>5. c.pc = "collect" /\ c.todo = t
    BY <1>0 DEF Call
  <2> HIDE DEF c
  <2>6. CallOK(c)
    BY <2>1, <2>5 DEF CallOK
  <2> QED BY <1>0, <1>3, <2>3, <2>4, <2>6, CallStep, Zenon DEF SnapshotServices, bound
<1>4. CASE CollectEndpoints
  <2> DEFINE todo == proc[Cluster].todo
             left == todo \cap (1..MaxObjects)
             o == CHOOSE x \in left : TRUE
             t == (todo \ {o}) \cup (IF objs[o].deleted THEN {}
                                    ELSE {e \in Task : objs[o].back[e] # "none"})
             c1 == [proc[Cluster] EXCEPT !.pc = "cleanup"]
             c2 == [proc[Cluster] EXCEPT !.todo = t]
  <2>1. proc[Cluster].pc = "collect" /\ todo \subseteq (1..MaxObjects) \cup Task
    BY <1>0, <1>4 DEF CollectEndpoints, At, CallOK
  <2>2. proc' = IF left = {} THEN [proc EXCEPT ![Cluster] = c1]
                ELSE [proc EXCEPT ![Cluster] = c2]
    BY <1>0, <1>4 DEF CollectEndpoints, IInv, Typed
  <2>3. CASE left = {}
    <3>1. c1 \in Call
      BY <1>0 DEF Call
    <3>2. c1.pc = "cleanup" /\ c1.todo = todo
      BY <1>0 DEF Call
    <3> HIDE DEF c1
    <3>3. CallOK(c1)
      BY <2>1, <2>3, <3>2 DEF CallOK
    <3> QED BY <1>0, <1>4, <2>2, <2>3, <3>1, <3>3, CallStep, Zenon DEF CollectEndpoints, bound
  <2>4. CASE left # {}
    <3>1. t \subseteq (1..MaxObjects) \cup Task
      BY <2>1
    <3>2. t \in SUBSET (0..MaxObjects \cup Task)
      BY <3>1, TasksAssumption
    <3> HIDE DEF t
    <3>3. c2 \in Call
      BY <1>0, <3>2 DEF Call
    <3>4. c2.pc = "collect" /\ c2.todo = t
      BY <1>0, <2>1 DEF Call
    <3> HIDE DEF c2
    <3>5. CallOK(c2)
      BY <3>1, <3>4 DEF CallOK
    <3> QED BY <1>0, <1>4, <2>2, <2>4, <3>3, <3>5, CallStep, Zenon DEF CollectEndpoints, bound
  <2> QED BY <2>3, <2>4
<1>5. CASE CleanupServiceBindings
  <2> DEFINE todo == proc[Cluster].todo
  <2>1. /\ proc[Cluster].pc = "cleanup" /\ todo \subseteq Task
        /\ UNCHANGED <<queue, objs, bindings, mark>>
    BY <1>0, <1>5 DEF CleanupServiceBindings, At, CallOK, bound
  <2>2. CASE todo = {}
    BY <1>0, <1>5, <2>1, <2>2, DoneStep DEF CleanupServiceBindings
  <2>3. CASE todo # {}
    <3>1. PICK e \in todo :
            proc' = [Removing(Cluster, e, TRUE, FALSE) EXCEPT ![Cluster].todo = @ \ {e}]
      BY <1>5, <2>3, Zenon DEF CleanupServiceBindings
    <3> DEFINE c == [proc[Cluster] EXCEPT
                       !.pc = IF SvcOf[e] = NoService THEN "unrecord" ELSE "find",
                       !.task = e, !.full = TRUE, !.dns = FALSE, !.todo = todo \ {e}]
    <3>2. proc' = [proc EXCEPT ![Cluster] = c]
      BY <1>0, <3>1, Zenon DEF Removing, IInv, Typed, Call
    <3>3. e \in Task /\ todo \ {e} \in SUBSET (0..MaxObjects \cup Task)
      BY <2>1
    <3>4. c \in Call
      BY <1>0, <3>3, Zenon DEF Call
    <3>5. /\ c.pc = (IF SvcOf[e] = NoService THEN "unrecord" ELSE "find")
          /\ c.task = e /\ c.todo = todo \ {e}
      BY <1>0 DEF Call
    <3> HIDE DEF c
    <3>6. CallOK(c)
      BY <2>1, <3>3, <3>5 DEF CallOK
    <3> QED BY <1>0, <2>1, <3>2, <3>4, <3>6, CallStep, Zenon
  <2> QED BY <2>2, <2>3
<1> QED BY <1>1, <1>2, <1>3, <1>4, <1>5 DEF ClusterStep

\* The agent is closed once, and only then does that goroutine start.
LEMMA ClosingStep ==
  ASSUME IInv, Closing, [Next]_vars
  PROVE  Closing'
<1> SUFFICES ASSUME agent' PROVE At(Cluster, "idle")'
  BY DEF Closing
<1>0. proc \in [Proc -> Call]
  BY DEF IInv, Typed
<1>1. agent' = agent \/ ~agent'
  BY Zenon DEF Next, vars, RemoteEnable, RemoteDisable, RemoteLeave, NodeFails, Learn,
         HandleEpTableEvent, BindingStep, LockNetwork, LookupService, AddBinding, FindService,
         RemoveBinding, RecordName, AddName, UnrecordName, EnableService, DisableService,
         SbLeave, LocalStep, AddServiceInfo, PublishRecord, DisableServiceInfo,
         DeleteServiceInfo, ClearNetworkResources, DeleteNetwork, DeleteStep, LeaveCluster,
         CleanupServiceDiscovery, DeleteFromStore, AgentClose, ClusterStep,
         CleanupAllDiscovery, SnapshotServices, CollectEndpoints, CleanupServiceBindings
<1>2. agent /\ proc[Cluster].pc = "idle"
  BY <1>1, Zenon DEF Closing, At
<1>3. proc'[Cluster] = proc[Cluster]
  <2>1. /\ Watcher # Cluster /\ \A n \in Network : Deleter(n) # Cluster
        /\ \A e \in Local : Svc(e) # Cluster /\ Leave(e) # Cluster
    BY DEF Watcher, Cluster, Deleter, Svc, Leave
  <2>2. ~AgentClose /\ ~ClusterStep
    BY <1>2 DEF AgentClose, ClusterStep, CleanupAllDiscovery, SnapshotServices,
                CollectEndpoints, CleanupServiceBindings, At
  <2>3. ASSUME NEW p \in Proc, BindingStep(p) PROVE proc'[Cluster] = proc[Cluster]
    <3>1. p # Cluster
      BY <1>2, <2>3, Zenon DEF BindingStep, LockNetwork, LookupService, AddBinding, FindService,
                       RemoveBinding, RecordName, AddName, UnrecordName, At
    <3> QED BY <1>0, <2>3, <3>1, Goroutines, Zenon DEF BindingStep, LockNetwork, LookupService, AddBinding,
              FindService, RemoveBinding, RecordName, AddName, UnrecordName, Goto, Done, Added,
              Removed
  <2>4. ASSUME NEW e \in Local,
               EnableService(e) \/ DisableService(e) \/ SbLeave(e) \/ LocalStep(e)
        PROVE  proc'[Cluster] = proc[Cluster]
    BY <1>0, <2>1, <2>4, Goroutines, Zenon DEF EnableService, DisableService, SbLeave, LocalStep,
       AddServiceInfo, PublishRecord, DisableServiceInfo, DeleteServiceInfo,
       ClearNetworkResources, Goto, Done, Adding, Removing
  <2>5. ASSUME NEW n \in Network, DeleteNetwork(n) \/ DeleteStep(n)
        PROVE  proc'[Cluster] = proc[Cluster]
    BY <1>0, <2>1, <2>5, Goroutines, Zenon DEF DeleteNetwork, DeleteStep, LeaveCluster,
       CleanupServiceDiscovery, DeleteFromStore, Goto, Done
  <2>6. HandleEpTableEvent => proc'[Cluster] = proc[Cluster]
    BY <1>0, <2>1, Goroutines DEF HandleEpTableEvent, Adding, Removing
  <2> QED BY <2>2, <2>3, <2>4, <2>5, <2>6, Zenon DEF Next, vars, RemoteEnable, RemoteDisable,
                                              RemoteLeave, NodeFails, Learn
<1> QED BY <1>2, <1>3 DEF At
-----------------------------------------------------------------------------

\* The goroutines start with nothing bound.
LEMMA InitLive == Init => IInv /\ Closing
<1> SUFFICES ASSUME Init PROVE IInv /\ Closing
  OBVIOUS
<1>1. Typed
  BY IdleOK, TasksAssumption DEF Init, Typed
<1>2. Bindings /\ Objects
  BY DEF Init, Bindings, Objects
<1>3. Calls
  BY IdleOK DEF Init, Calls
<1>4. Closing
  BY Goroutines DEF Init, Closing, At, Idle
<1> QED BY <1>1, <1>2, <1>3, <1>4 DEF IInv

\* Every step keeps the invariant.
LEMMA StepLive == IInv /\ Closing /\ [Next]_vars => IInv' /\ Closing'
<1> SUFFICES ASSUME IInv, Closing, [Next]_vars PROVE IInv'
  BY ClosingStep
<1>1. CASE UNCHANGED vars
  BY <1>1, QueueStep DEF vars, bound, IInv, Typed
<1>2. CASE Next
  BY <1>2, RemoteKeeps, WatcherKeeps, BindingKeeps, LocalKeeps, DeleteKeeps, ClusterKeeps DEF Next
<1> QED BY <1>1, <1>2

(***************************************************************************)
(* However adds and removes of the tasks of a service meet, in the watcher *)
(* of the table, in the calls of local containers and in the end of the    *)
(* agent, the service is bound to at most one live object, and every back  *)
(* end is in it: the deleted flag, set under the lock of the object, is    *)
(* enough to make the lookup under another lock safe.                      *)
(***************************************************************************)
THEOREM OneLiveObjectAlways == Spec => []OneLiveObject
<1>1. IInv => OneLiveObject
  <2> SUFFICES ASSUME IInv PROVE OneLiveObject
    OBVIOUS
  <2>1. ASSUME NEW s \in Service, bindings[s] # 0 PROVE ~objs[bindings[s]].deleted
    BY <2>1 DEF IInv, Bindings, Objects
  <2>2. ASSUME NEW o \in DOMAIN objs, NEW e \in Task, objs[o].back[e] # "none"
        PROVE  bindings[objs[o].svc] = o
    <3>1. objs[o].lbs[NetOf[e]] # 0 /\ NetOf[e] \in Network
      BY <2>2, TasksAssumption DEF IInv, Objects
    <3> QED BY <3>1 DEF IInv, Objects
  <2> QED BY <2>1, <2>2 DEF OneLiveObject
<1>2. Init => IInv /\ Closing
  BY InitLive
<1>3. IInv /\ Closing /\ [Next]_vars => IInv' /\ Closing'
  BY StepLive
<1> QED BY <1>1, <1>2, <1>3, PTL DEF Spec
====
