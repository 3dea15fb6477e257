------------------------- MODULE DemandProxyProofs -------------------------
(***************************************************************************)
(* The port allocator, for any tasks and any finite ranges of ports: no    *)
(* port leaks, and the allocator implements the plain pool. The demand     *)
(* proxy, for any number of clients, any finite ranges of ports and any    *)
(* lists of distinct addresses.                                            *)
(***************************************************************************)
EXTENDS DemandProxy, WellFoundedInduction, FiniteSetTheorems, TLAPS

-----------------------------------------------------------------------------
(* The port allocator.                                                     *)

\* The lowest free port is one of the free ports.
LEMMA MinIsMember ==
    ASSUME NEW S, S \subseteq Nat, S # {}
    PROVE  Min(S) \in S
<1> DEFINE R == {ss \in Nat \X Nat : ss[1] < ss[2]}
<1>1. OpToRel(<, Nat) = R
  BY Zenon DEF OpToRel
<1>2. IsWellFoundedOn(R, Nat)
  BY <1>1, NatLessThanWellFounded, Zenon
<1> HIDE DEF R
<1>3. PICK x \in S : \A y \in S : ~(<<y, x>> \in R)
  BY <1>2, WFMin, Zenon
<1>4. ASSUME NEW y \in Nat, NEW z \in Nat, y < z PROVE <<y, z>> \in R
  <2>1. <<y, z>> \in Nat \X Nat /\ <<y, z>>[1] = y /\ <<y, z>>[2] = z
    OBVIOUS
  <2> QED
    BY <1>4, <2>1, Zenon DEF R
<1>5. ASSUME NEW y \in S PROVE x =< y
  <2>1. x \in Nat /\ y \in Nat
    OBVIOUS
  <2>2. ~(y < x)
    BY <1>3, <1>4, <2>1, Zenon
  <2> QED
    BY <2>1, <2>2
<1> QED
  BY <1>5, Zenon DEF Min

\* What allocate() takes: a port of the range that is not recorded.
LEMMA TakenPortIsFree ==
    ASSUME AllocatorTypeOK, range \ allocated # {}
    PROVE  /\ Min(range \ allocated) \in range \ allocated
           /\ Min(range \ allocated) \in AllPorts
<1>1. range \ allocated \subseteq Nat /\ range \subseteq AllPorts
  BY AllocatorAssumption DEF AllocatorTypeOK, AllPorts
<1>2. Min(range \ allocated) \in range \ allocated
  BY <1>1, MinIsMember
<1> QED
  BY <1>1, <1>2
-----------------------------------------------------------------------------
(***************************************************************************)
(* AllocatorInv is inductive.  Its last two conjuncts are about the steps  *)
(* of allocate() alone, the others about ports.                            *)
(***************************************************************************)
LEMMA AllocatorInitInv == AllocatorInit => AllocatorInv
  BY AllocatorAssumption
  DEF AllocatorInit, AllocatorInv, AllocatorTypeOK, NothingLeaks, AllPorts

LEMMA TakePortInv ==
    ASSUME NEW t \in Tasks, AllocatorInv, TakePort(t)
    PROVE  AllocatorInv'
<1> DEFINE p == Min(range \ allocated)
<1>1. p \in range /\ p \notin allocated /\ p \in AllPorts
  BY TakenPortIsFree DEF AllocatorInv, TakePort
<1>2. /\ step[t] = "drained" /\ port' = [port EXCEPT ![t] = p]
      /\ step' = [step EXCEPT ![t] = "idle"] /\ holder' = NoTask
      /\ UNCHANGED <<range, marks>>
  BY DEF TakePort
<1>3. allocated' = allocated \union {p}
  BY <1>2 DEF TakePort, AllocatorInv, AllocatorTypeOK
<1> HIDE DEF p
<1>4. AllocatorTypeOK'
  BY <1>1, <1>2, <1>3 DEF AllocatorInv, AllocatorTypeOK
<1>5. port[t] = NoPort /\ \A u \in Tasks : port'[u] = IF u = t THEN p ELSE port[u]
  BY <1>2 DEF AllocatorInv, AllocatorTypeOK
<1>6. marks[p] = 0 /\ \A u \in Tasks : port[u] # p
  BY <1>1 DEF AllocatorInv, NothingLeaks
<1>7. NothingLeaks'
  BY <1>1, <1>2, <1>3, <1>5, <1>6, AllocatorAssumption DEF AllocatorInv, NothingLeaks
<1>8. \A u \in Tasks : step'[u] = IF u = t THEN "idle" ELSE step[u]
  BY <1>2 DEF AllocatorInv, AllocatorTypeOK
<1> QED
  BY <1>2, <1>4, <1>5, <1>6, <1>7, <1>8, AllocatorAssumption DEF AllocatorInv

LEMMA DropHandleInv ==
    ASSUME NEW t \in Tasks, AllocatorInv, DropHandle(t)
    PROVE  AllocatorInv'
<1> DEFINE p == port[t]
<1>1. p \in AllPorts /\ p # NoPort /\ p \in allocated /\ marks[p] = 0
  BY DEF AllocatorInv, AllocatorTypeOK, NothingLeaks, DropHandle
<1>2. \A u \in Tasks : port'[u] = IF u = t THEN NoPort ELSE port[u]
  BY DEF AllocatorInv, AllocatorTypeOK, DropHandle
<1>3. port[t] = p /\ \A u \in Tasks : port'[u] # p
  BY <1>1, <1>2 DEF AllocatorInv
<1>4. UNCHANGED <<range, holder, step>> /\ port' = [port EXCEPT ![t] = NoPort]
  BY DEF DropHandle
<1> HIDE DEF p
<1>5. CASE holder = NoTask
  <2>1. allocated' = allocated \ {p} /\ marks' = marks
    BY <1>5 DEF DropHandle, MarkFreed, p
  <2>2. AllocatorTypeOK'
    BY <1>4, <2>1 DEF AllocatorInv, AllocatorTypeOK
  <2>3. NothingLeaks'
    BY <1>1, <1>2, <1>3, <2>1, AllocatorAssumption DEF AllocatorInv, NothingLeaks
  <2> QED
    BY <1>2, <1>4, <2>1, <2>2, <2>3 DEF AllocatorInv
<1>6. CASE holder # NoTask
  <2>1. allocated' = allocated /\ marks' = [marks EXCEPT ![p] = @ + 1]
    BY <1>6 DEF DropHandle, MarkFreed, p
  <2>2. AllocatorTypeOK'
    BY <1>1, <1>4, <2>1 DEF AllocatorInv, AllocatorTypeOK
  <2>3. \A q \in AllPorts : marks'[q] = IF q = p THEN 1 ELSE marks[q]
    BY <1>1, <2>1 DEF AllocatorInv, AllocatorTypeOK
  <2>4. NothingLeaks'
    BY <1>1, <1>2, <1>3, <2>1, <2>3, AllocatorAssumption DEF AllocatorInv, NothingLeaks
  <2> QED
    BY <1>2, <1>4, <2>1, <2>2, <2>3, <2>4 DEF AllocatorInv
<1> QED
  BY <1>5, <1>6

LEMMA CleanupInv ==
    ASSUME NEW t \in Tasks, AllocatorInv, CleanupFreedPorts(t)
    PROVE  AllocatorInv'
<1>1. PICK p \in AllPorts :
          marks[p] > 0 /\ marks' = [marks EXCEPT ![p] = @ - 1] /\ allocated' = allocated \ {p}
  BY Zenon DEF CleanupFreedPorts
<1>2. UNCHANGED <<range, holder, step, port>>
  BY DEF CleanupFreedPorts
<1>3. marks[p] = 1
  BY <1>1 DEF AllocatorInv
<1>4. \A q \in AllPorts : marks'[q] = IF q = p THEN 0 ELSE marks[q]
  BY <1>1, <1>3 DEF AllocatorInv, AllocatorTypeOK
<1>5. AllocatorTypeOK'
  BY <1>1, <1>2, <1>3 DEF AllocatorInv, AllocatorTypeOK
<1>6. \A u \in Tasks : port[u] # p
  BY <1>3 DEF AllocatorInv, NothingLeaks
<1>7. NothingLeaks'
  BY <1>1, <1>2, <1>4, <1>6 DEF AllocatorInv, NothingLeaks
<1> QED
  BY <1>2, <1>4, <1>5, <1>7 DEF AllocatorInv

\* The other steps change neither the set nor the queue nor a handle.
LEMMA QuietInv ==
    ASSUME NEW t \in Tasks, AllocatorInv,
           \/ Allocate(t) \/ Lock(t) \/ CleanupEnds(t) \/ NoFreePorts(t)
           \/ AllocationFailed(t) \/ AbandonAllocate(t)
    PROVE  AllocatorInv' /\ UNCHANGED port
<1>1. UNCHANGED <<range, allocated, marks, port>>
  BY DEF Allocate, Lock, CleanupEnds, NoFreePorts, AllocationFailed, AllocateStep,
         AbandonAllocate
<1>2. PICK s \in {"idle", "locking", "draining", "drained", "full"} :
          step' = [step EXCEPT ![t] = s]
  BY DEF Allocate, Lock, CleanupEnds, NoFreePorts, AllocationFailed, AbandonAllocate
<1>3. \A u \in Tasks : step'[u] = IF u = t THEN s ELSE step[u]
  BY <1>2 DEF AllocatorInv, AllocatorTypeOK
<1>4. /\ AllocatorTypeOK'
      /\ s # "idle" => port[t] = NoPort
      /\ \A u \in Tasks : step'[u] \in {"draining", "drained"} <=> holder' = u
  BY <1>1, <1>2, <1>3, AllocatorAssumption
  DEF AllocatorInv, AllocatorTypeOK, Allocate, Lock, CleanupEnds, NoFreePorts,
      AllocationFailed, AbandonAllocate
<1> QED
  BY <1>1, <1>3, <1>4 DEF AllocatorInv, NothingLeaks

LEMMA AllocatorStepInv ==
    ASSUME AllocatorInv, [AllocatorNext]_allocatorVars
    PROVE  AllocatorInv'
<1>1. CASE UNCHANGED allocatorVars
  BY <1>1 DEF AllocatorInv, AllocatorTypeOK, NothingLeaks, allocatorVars
<1>2. ASSUME NEW t \in Tasks, AllocatorStep(t) PROVE AllocatorInv'
  BY <1>2, TakePortInv, DropHandleInv, CleanupInv, QuietInv DEF AllocatorStep, AllocateStep
<1> QED
  BY <1>1, <1>2 DEF AllocatorNext
-----------------------------------------------------------------------------
(***************************************************************************)
(* AllocatorInv is invariant: any number of tasks may allocate, drop their *)
(* handles and give up in any order (server/mod.rs).                       *)
(***************************************************************************)
THEOREM AllocatorCorrect == AllocatorSpec => []AllocatorInv
  BY AllocatorInitInv, AllocatorStepInv, PTL DEF AllocatorSpec

(***************************************************************************)
(* No port leaks and none is freed twice, whichever of its two paths       *)
(* mark_freed takes.                                                       *)
(***************************************************************************)
THEOREM NoPortLeaks == AllocatorSpec => []NothingLeaks
<1>1. AllocatorInv => NothingLeaks
  BY DEF AllocatorInv
<1> QED
  BY <1>1, AllocatorCorrect, PTL

LEMMA AllocatorStepSimulation ==
    ASSUME AllocatorInv, [AllocatorNext]_allocatorVars
    PROVE  [Pool!Next]_port
<1>1. CASE UNCHANGED allocatorVars
  BY <1>1 DEF allocatorVars
<1>2. ASSUME NEW t \in Tasks, AllocatorStep(t) PROVE [Pool!Next]_port
  <2>1. CASE TakePort(t)
    <3> DEFINE p == Min(range \ allocated)
    <3>1. p \notin allocated /\ p \in AllPorts
      BY <2>1, TakenPortIsFree DEF AllocatorInv, TakePort
    <3>2. port[t] = NoPort /\ port' = [port EXCEPT ![t] = p]
      BY <2>1 DEF TakePort, AllocatorInv
    <3> HIDE DEF p
    <3>3. p \notin Pool!Owned
      BY <3>1 DEF AllocatorInv, NothingLeaks, Pool!Owned
    <3> QED
      BY <3>1, <3>2, <3>3, Zenon DEF Pool!Next, Pool!Grant
  <2>2. CASE DropHandle(t)
    BY <2>2, Zenon DEF DropHandle, Pool!Next, Pool!Return
  <2>3. CASE CleanupFreedPorts(t)
    BY <2>3 DEF CleanupFreedPorts
  <2>4. CASE \/ Allocate(t) \/ Lock(t) \/ CleanupEnds(t) \/ NoFreePorts(t)
             \/ AllocationFailed(t) \/ AbandonAllocate(t)
    BY <2>4, QuietInv
  <2> QED
    BY <1>2, <2>1, <2>2, <2>3, <2>4 DEF AllocatorStep, AllocateStep
<1> QED
  BY <1>1, <1>2 DEF AllocatorNext

(***************************************************************************)
(* The allocator, with its mutex, its queue of marks and its allocations   *)
(* that are given up half-way, implements the pool in which a port has one *)
(* owner at a time (server/mod.rs, PortRangeAllocationHandle).             *)
(***************************************************************************)
THEOREM AllocatorImplementsPool == AllocatorSpec => PoolSpec
<1>1. AllocatorInit => Pool!Init
  BY DEF AllocatorInit, Pool!Init
<1> QED
  BY <1>1, AllocatorStepSimulation, AllocatorCorrect, PTL DEF AllocatorSpec, PoolSpec, Pool!Spec


-----------------------------------------------------------------------------
(***************************************************************************)
(* The proxy's use of the allocator.                                       *)
(***************************************************************************)
LEMMA ProxyAllocatorStep ==
    ASSUME [Next]_vars
    PROVE  [AllocatorNext]_allocatorVars
<1>1. CASE UNCHANGED vars
  BY <1>1 DEF vars
<1>2. ASSUME NEW t \in Tasks, ClientStep(t) PROVE UNCHANGED allocatorVars
  BY <1>2 DEF ClientStep, Demand, ReadAnswer, WaitClose, ReadFails
<1>3. ASSUME NEW t \in Tasks, TaskStep(t) \/ Connections(t) PROVE UNCHANGED allocatorVars
  BY <1>3 DEF TaskStep, StopAccepting, ListenersEnd, Connections, AcceptConnection,
              ConnectionEnds, ConnectionFails
<1>4. ASSUME NEW t \in Tasks, Interrupt(t) \/ LoseTunnel(t) \/ Reconnect(t)
      PROVE  UNCHANGED allocatorVars
  BY <1>4 DEF Interrupt, LoseTunnel, Reconnect
<1>5. ASSUME NEW t \in Tasks, Abandon(t) PROVE [AllocatorStep(t)]_allocatorVars
  BY <1>5 DEF Abandon, AllocatorStep
<1>6. ASSUME NEW t \in Tasks, HandlerStep(t) PROVE [AllocatorStep(t)]_allocatorVars
  <2>1. CASE Handle(t) \/ WriteRefusal(t) \/ Bind(t) \/ ClientCloses(t) \/ WriteZeros(t)
    BY <2>1 DEF Handle, WriteRefusal, Bind, ClientCloses, WriteZeros
  <2>2. CASE ReadSubject(t)
    BY <2>2 DEF ReadSubject, AllocatorStep
  <2>3. CASE Allocating(t)
    BY <2>3 DEF Allocating, AllocatorStep, AllocateStep
  <2>4. CASE Granted(t)
    BY <2>4 DEF Granted, AllocatorStep, AllocateStep
  <2>5. CASE WriteGrant(t)
    BY <2>5 DEF WriteGrant, AllocatorStep
  <2>6. CASE WriteUnbound(t)
    BY <2>6 DEF WriteUnbound, AllocatorStep
  <2>7. CASE Join(t)
    BY <2>7 DEF Join, AllocatorStep
  <2> QED
    BY <1>6, <2>1, <2>2, <2>3, <2>4, <2>5, <2>6, <2>7 DEF HandlerStep
<1> QED
  BY <1>1, <1>2, <1>3, <1>4, <1>5, <1>6 DEF Next, AllocatorNext

(***************************************************************************)
(* Handlers use the allocator as its own specification allows, dropped     *)
(* handlers included, so what is shown of the allocator holds of the proxy *)
(* (DemandProxyService::handle).                                           *)
(***************************************************************************)
THEOREM ProxyImplementsAllocator == Spec => UsesAllocator
<1>1. Init => AllocatorInit
  BY DEF Init
<1> QED
  BY <1>1, ProxyAllocatorStep, PTL DEF Spec, UsesAllocator, AllocatorSpec

(***************************************************************************)
(* No port that a demand was granted leaks.                                *)
(***************************************************************************)
THEOREM ProxyLeaksNothing == Spec => []NothingLeaks
  BY ProxyImplementsAllocator, NoPortLeaks, PTL DEF UsesAllocator

(***************************************************************************)
(* The ports of the demands have one owner at a time.                      *)
(***************************************************************************)
THEOREM ProxyImplementsPool == Spec => PoolSpec
  BY ProxyImplementsAllocator, AllocatorImplementsPool, PTL DEF UsesAllocator
-----------------------------------------------------------------------------
(***************************************************************************)
(* ProxyInv is inductive.  A step of one handler, client or listening task *)
(* does not concern the others (Frame); PortStep says what the steps of    *)
(* the allocator do to the ports.                                          *)
(***************************************************************************)
LEMMA ProxyInitInv == Init => ProxyInv
<1> SUFFICES ASSUME Init PROVE ProxyInv
  OBVIOUS
<1>1. AllocatorInv
  BY AllocatorInitInv DEF Init
<1>2. PICK addrs \in BindLists : bind_addrs = HandleDualStackAddrs(addrs)
  BY DEF Init
<1>3. addrs \in Seq(Addresses)
  BY ProxyAssumption
<1>4. /\ bind_addrs \in Seq(Addresses)
      /\ \A i, j \in 1 .. Len(bind_addrs) : i # j => ~Conflict(bind_addrs[i], bind_addrs[j])
  <2> DEFINE unspecified == {i \in DOMAIN addrs : addrs[i] \in Unspecified}
  <2>1. DOMAIN addrs = 1 .. Len(addrs) /\ unspecified \subseteq Nat
    BY <1>3
  <2>2. CASE unspecified # {}
    <3>1. Min(unspecified) \in unspecified
      BY <2>1, <2>2, MinIsMember
    <3>2. bind_addrs = <<addrs[Min(unspecified)]>>
      BY <1>2, <2>2 DEF HandleDualStackAddrs
    <3>3. \A i \in 1 .. Len(addrs) : addrs[i] \in Addresses
      BY <1>3
    <3>4. addrs[Min(unspecified)] \in Addresses
      BY <2>1, <3>1, <3>3
    <3> QED
      BY <3>2, <3>4
  <2>3. CASE unspecified = {}
    <3>1. bind_addrs = addrs
      BY <1>2, <2>3 DEF HandleDualStackAddrs
    <3> QED
      BY <1>3, <2>1, <2>3, <3>1, ProxyAssumption DEF Conflict
  <2> QED
    BY <2>2, <2>3
<1>5. /\ pc = [t \in Tasks |-> "idle"] /\ listener = [t \in Tasks |-> "none"]
      /\ sockets = [t \in Tasks |-> {}] /\ conns = [t \in Tasks |-> 0]
  BY DEF Init
<1>6. ProxyTypeOK
  BY <1>4, <1>5 DEF ProxyTypeOK
<1>7. \A t \in Tasks : HandlerInv(t)
  BY <1>5 DEF HandlerInv
<1> QED
  BY <1>1, <1>4, <1>6, <1>7 DEF ProxyInv

LEMMA Frame ==
    ASSUME NEW u \in Tasks, HandlerInv(u), bind_addrs' = bind_addrs,
           pc'[u] = pc[u], listener'[u] = listener[u], sockets'[u] = sockets[u],
           conns'[u] = conns[u], port'[u] = port[u], u \in tunnel' => u \in tunnel
    PROVE  HandlerInv(u)'
  BY DEF HandlerInv, Bound

LEMMA PortStep ==
    ASSUME NEW t \in Tasks, AllocatorInv, [AllocatorStep(t)]_allocatorVars
    PROVE  \A u \in Tasks \ {t} : port'[u] = port[u]
<1>1. \/ UNCHANGED port
      \/ \E p : port' = [port EXCEPT ![t] = p]
  BY DEF AllocatorStep, AllocateStep, Allocate, Lock, CleanupFreedPorts, CleanupEnds, TakePort,
         NoFreePorts, AllocationFailed, DropHandle, AbandonAllocate, allocatorVars
<1> QED
  BY <1>1 DEF AllocatorInv, AllocatorTypeOK

\* The client's steps, and the allocator's before it answers.
LEMMA ClientInv ==
    ASSUME ProxyInv, AllocatorInv', UNCHANGED <<bind_addrs, pc, listener, sockets, conns, port>>,
           \A u \in Tasks : u \in tunnel' => u \in tunnel
    PROVE  ProxyInv'
<1>1. \A u \in Tasks : HandlerInv(u)'
  BY Frame DEF ProxyInv
<1>2. ProxyTypeOK'
  BY DEF ProxyInv, ProxyTypeOK
<1> QED
  BY <1>1, <1>2 DEF ProxyInv, Conflict

\* A step of the slot t: what it does to t is left to show.
LEMMA SlotInv ==
    ASSUME NEW t \in Tasks, ProxyInv, AllocatorInv', ProxyTypeOK', bind_addrs' = bind_addrs,
           \A u \in Tasks \ {t} : /\ pc'[u] = pc[u] /\ listener'[u] = listener[u]
                                  /\ sockets'[u] = sockets[u] /\ conns'[u] = conns[u]
                                  /\ port'[u] = port[u]
                                  /\ (u \in tunnel' => u \in tunnel),
           HandlerInv(t)'
    PROVE  ProxyInv'
<1>1. \A u \in Tasks \ {t} : HandlerInv(u)'
  BY Frame DEF ProxyInv
<1> QED
  BY <1>1 DEF ProxyInv, Conflict

\* What a handler has bound so far is a prefix of its list.
LEMMA BoundPrefix ==
    ASSUME NEW t \in Tasks, ProxyInv, pc[t] = "binding"
    PROVE  \E k \in 0 .. Len(bind_addrs) :
              /\ sockets[t] = Bound(t, k) /\ IsFiniteSet(sockets[t])
              /\ Cardinality(sockets[t]) = k
  BY DEF ProxyInv, HandlerInv

LEMMA BindInv ==
    ASSUME NEW t \in Tasks, ProxyInv, AllocatorInv', Bind(t)
    PROVE  ProxyInv'
<1>1. PICK k \in 0 .. Len(bind_addrs) :
          /\ sockets[t] = Bound(t, k) /\ IsFiniteSet(sockets[t]) /\ Cardinality(sockets[t]) = k
  BY BoundPrefix DEF Bind
<1>2. /\ pc[t] = "binding" /\ listener[t] = "none" /\ port[t] # NoPort /\ Len(bind_addrs) \in Nat
      /\ \A s \in sockets[t] : port[t] = s[2]
      /\ ~(conns[t] > 0)
  <2>1. pc[t] = "binding" /\ HandlerInv(t)
    BY Zenon DEF Bind, ProxyInv
  <2>2. conns[t] > 0 => listener[t] \in {"running", "stopping"}
    BY ONLY <2>1 DEF HandlerInv
  <2>3. listener[t] = "none" /\ port[t] # NoPort /\ \A s \in sockets[t] : port[t] = s[2]
    BY ONLY <2>1 DEF HandlerInv
  <2>4. ~(conns[t] > 0)
    BY ONLY <2>2, <2>3
  <2>5. Len(bind_addrs) \in Nat
    BY DEF ProxyInv, ProxyTypeOK
  <2> QED
    BY ONLY <2>1, <2>3, <2>4, <2>5
<1>3. UNCHANGED <<bind_addrs, port, conns, tunnel>>
  BY DEF Bind, allocatorVars, clientVars
<1>4. CASE listener' = [listener EXCEPT ![t] = "running"] /\ Goto(t, "serving") /\ UNCHANGED sockets
  <2>1. /\ listener' = [listener EXCEPT ![t] = "running"] /\ pc' = [pc EXCEPT ![t] = "serving"]
        /\ sockets' = sockets
    BY <1>4, Zenon DEF Goto
  <2>2. ProxyTypeOK'
    BY <1>3, <2>1 DEF ProxyInv, ProxyTypeOK
  <2>3. HandlerInv(t)'
    BY <1>2, <1>3, <2>1 DEF ProxyInv, ProxyTypeOK, HandlerInv
  <2> QED
    BY <1>3, <2>1, <2>2, <2>3, SlotInv, Zenon DEF ProxyInv, ProxyTypeOK
<1>5. CASE Goto(t, "unbinding") /\ sockets' = [sockets EXCEPT ![t] = {}] /\ UNCHANGED listener
  <2>1. /\ sockets' = [sockets EXCEPT ![t] = {}] /\ pc' = [pc EXCEPT ![t] = "unbinding"]
        /\ listener' = listener
    BY <1>5, Zenon DEF Goto
  <2>2. ProxyTypeOK'
    BY <1>3, <2>1 DEF ProxyInv, ProxyTypeOK
  <2>3. HandlerInv(t)'
    BY <1>2, <1>3, <2>1 DEF ProxyInv, ProxyTypeOK, HandlerInv
  <2> QED
    BY <1>3, <2>1, <2>2, <2>3, SlotInv DEF ProxyInv, ProxyTypeOK
<1>6. CASE /\ k < Len(bind_addrs)
           /\ sockets' = [sockets EXCEPT ![t] = @ \union {<<bind_addrs[k + 1], port[t]>>}]
           /\ UNCHANGED <<pc, listener>>
  <2> DEFINE s == <<bind_addrs[k + 1], port[t]>>
  <2>1. sockets' = [sockets EXCEPT ![t] = sockets[t] \union {s}] /\ UNCHANGED <<pc, listener>>
    BY <1>6 DEF ProxyInv, ProxyTypeOK
  <2>2. k + 1 \in 1 .. Len(bind_addrs)
    BY ONLY <1>2, <1>6, k \in 0 .. Len(bind_addrs)
  <2>3. s \in Addresses \X AllPorts
    BY <1>2, <2>2 DEF ProxyInv, ProxyTypeOK, AllocatorInv, AllocatorTypeOK
  <2>4. ProxyTypeOK'
    BY <1>3, <2>1, <2>3 DEF ProxyInv, ProxyTypeOK
  <2>5. \A i \in 1 .. k : bind_addrs[i] # bind_addrs[k + 1]
    BY <1>2, <2>2 DEF ProxyInv, Conflict
  <2>6. s \notin sockets[t]
    BY <1>1, <2>5 DEF Bound
  <2>7. sockets'[t] = sockets[t] \union {s}
    BY <2>1 DEF ProxyInv, ProxyTypeOK
  <2>8. IsFiniteSet(sockets'[t]) /\ Cardinality(sockets'[t]) = k + 1
    <3> HIDE DEF s
    <3>1. /\ IsFiniteSet(sockets[t] \union {s})
          /\ Cardinality(sockets[t] \union {s}) = Cardinality(sockets[t]) + 1
      BY <1>1, <2>6, FS_AddElement, Zenon
    <3> QED
      BY <1>1, <2>7, <3>1
  <2>9. sockets'[t] = Bound(t, k + 1)'
    <3>1. 1 .. (k + 1) = (1 .. k) \union {k + 1}
      BY <2>2
    <3> QED
      BY <1>1, <1>3, <2>7, <3>1 DEF Bound
  <2>10. HandlerInv(t)'
    <3>1. k + 1 \in 0 .. Len(bind_addrs')
      BY <1>3, <2>2
    <3>2. \A r \in sockets'[t] : port'[t] = r[2]
      BY <1>2, <1>3, <2>7
    <3> QED
      BY <1>2, <1>3, <2>1, <2>8, <2>9, <3>1, <3>2, Zenon DEF HandlerInv
  <2> QED
    BY <1>3, <2>1, <2>4, <2>10, SlotInv, Zenon DEF ProxyInv, ProxyTypeOK
<1> QED
  BY <1>1, <1>4, <1>5, <1>6 DEF Bind

LEMMA HandlerStepInv ==
    ASSUME NEW t \in Tasks, ProxyInv, AllocatorInv', HandlerStep(t)
    PROVE  ProxyInv'
<1> DEFINE Others == \A u \in Tasks \ {t} :
                        /\ pc'[u] = pc[u] /\ listener'[u] = listener[u]
                        /\ sockets'[u] = sockets[u] /\ conns'[u] = conns[u]
                        /\ port'[u] = port[u]
                        /\ (u \in tunnel' => u \in tunnel)
<1> USE DEF Goto
<1>1. CASE Handle(t)
  <2>1. ProxyTypeOK' /\ Others /\ bind_addrs' = bind_addrs
    BY <1>1, Zenon DEF Handle, ProxyInv, ProxyTypeOK, allocatorVars
  <2>2. HandlerInv(t)'
    BY <1>1, Zenon DEF Handle, ProxyInv, ProxyTypeOK, HandlerInv, allocatorVars
  <2> QED
    BY <2>1, <2>2, SlotInv
<1>2. CASE ReadSubject(t)
  <2>1. ProxyTypeOK' /\ Others /\ bind_addrs' = bind_addrs /\ port' = port
    BY <1>2 DEF ReadSubject, Allocate, ProxyInv, ProxyTypeOK, allocatorVars, clientVars
  <2>2. HandlerInv(t)'
    <3>1. /\ pc[t] = "subject" /\ pc'[t] \in {"allocating", "done"}
          /\ listener'[t] = listener[t] /\ sockets'[t] = sockets[t] /\ conns'[t] = conns[t]
      BY <1>2 DEF ReadSubject, ProxyInv, ProxyTypeOK
    <3>2. HandlerInv(t)
      BY Zenon DEF ProxyInv
    <3>3. listener[t] = "none" /\ sockets[t] = {} /\ ~(conns[t] > 0)
      BY ONLY <3>1, <3>2, Zenon DEF HandlerInv
    <3> QED
      BY ONLY <3>1, <3>3, Zenon DEF HandlerInv
  <2> QED
    BY <2>1, <2>2, SlotInv, Zenon
<1>3. CASE Allocating(t)
  BY <1>3, ClientInv DEF Allocating, Lock, CleanupFreedPorts, CleanupEnds, NoFreePorts, proxyVars,
         clientVars
<1>4. CASE Granted(t)
  <2>1. [AllocatorStep(t)]_allocatorVars
    BY <1>4 DEF Granted, AllocatorStep, AllocateStep
  <2>2. ProxyTypeOK' /\ Others /\ bind_addrs' = bind_addrs
    BY <1>4, <2>1, PortStep, Zenon DEF Granted, ProxyInv, ProxyTypeOK, clientVars
  <2>3. CASE TakePort(t) /\ Goto(t, "granting")
    <3>1. port'[t] \in AllPorts
      BY <2>3, TakenPortIsFree DEF TakePort, ProxyInv, AllocatorInv, AllocatorTypeOK
    <3>2. port'[t] # NoPort
      BY <3>1, AllocatorAssumption
    <3>3. HandlerInv(t)'
      BY <1>4, <2>3, <3>2, Zenon DEF Granted, ProxyInv, ProxyTypeOK, HandlerInv
    <3> QED
      BY <2>2, <3>3, SlotInv
  <2>4. CASE AllocationFailed(t) /\ Goto(t, "refusing")
    <3>1. HandlerInv(t)'
      BY <1>4, <2>4 DEF Granted, AllocationFailed, ProxyInv, ProxyTypeOK, HandlerInv
    <3> QED
      BY <2>2, <3>1, SlotInv
  <2> QED
    BY <1>4, <2>3, <2>4 DEF Granted
<1>5. CASE WriteGrant(t)
  <2>1. [AllocatorStep(t)]_allocatorVars
    BY <1>5 DEF WriteGrant, AllocatorStep
  <2>2. ProxyTypeOK' /\ Others /\ bind_addrs' = bind_addrs
    BY <1>5, <2>1, PortStep, Zenon DEF WriteGrant, ProxyInv, ProxyTypeOK
  <2>3. pc[t] = "granting" /\ listener'[t] = "none" /\ sockets'[t] = {}
        /\ conns'[t] = conns[t] /\ port[t] # NoPort
    BY <1>5, Zenon DEF WriteGrant, ProxyInv, ProxyTypeOK, HandlerInv
  <2>4. CASE Goto(t, "binding") /\ UNCHANGED allocatorVars
    <3>1. pc'[t] = "binding" /\ port'[t] = port[t]
      BY <2>4 DEF ProxyInv, ProxyTypeOK, allocatorVars
    <3>2. /\ sockets'[t] = Bound(t, 0)' /\ IsFiniteSet(sockets'[t]) /\ Cardinality(sockets'[t]) = 0
          /\ 0 \in 0 .. Len(bind_addrs')
      <4>1. Len(bind_addrs') \in Nat
        BY <2>2 DEF ProxyTypeOK
      <4>2. 0 \in 0 .. Len(bind_addrs') /\ 1 .. 0 = {}
        BY ONLY <4>1
      <4>3. IsFiniteSet({}) /\ Cardinality({}) = 0
        BY FS_EmptySet
      <4>4. Bound(t, 0)' = {}
        BY ONLY <4>2 DEF Bound
      <4> QED
        BY ONLY <2>3, <4>2, <4>3, <4>4
    <3>3. HandlerInv(t)'
      BY <2>3, <3>1, <3>2 DEF ProxyInv, HandlerInv
    <3> QED
      BY <2>2, <3>3, SlotInv
  <2>5. CASE Goto(t, "done")
    <3>1. HandlerInv(t)'
      BY <2>3, <2>5, Zenon DEF ProxyInv, ProxyTypeOK, HandlerInv
    <3> QED
      BY <2>2, <3>1, SlotInv
  <2> QED
    BY <1>5, <2>4, <2>5 DEF WriteGrant
<1>6. CASE WriteRefusal(t)
  <2>1. ProxyTypeOK' /\ Others /\ bind_addrs' = bind_addrs
    BY <1>6 DEF WriteRefusal, ProxyInv, ProxyTypeOK, allocatorVars
  <2>2. HandlerInv(t)'
    BY <1>6, Zenon DEF WriteRefusal, ProxyInv, ProxyTypeOK, HandlerInv, allocatorVars
  <2> QED
    BY <2>1, <2>2, SlotInv
<1>7. CASE Bind(t)
  BY <1>7, BindInv
<1>8. CASE WriteUnbound(t)
  <2>1. [AllocatorStep(t)]_allocatorVars
    BY <1>8 DEF WriteUnbound, AllocatorStep
  <2>2. ProxyTypeOK' /\ Others /\ bind_addrs' = bind_addrs
    BY <1>8, <2>1, PortStep, Zenon DEF WriteUnbound, ProxyInv, ProxyTypeOK
  <2>3. HandlerInv(t)'
    BY <1>8, Zenon DEF WriteUnbound, ProxyInv, ProxyTypeOK, HandlerInv
  <2> QED
    BY <2>2, <2>3, SlotInv
<1>9. CASE ClientCloses(t)
  <2>1. ProxyTypeOK' /\ Others /\ bind_addrs' = bind_addrs
    BY <1>9 DEF ClientCloses, ProxyInv, ProxyTypeOK, allocatorVars, clientVars
  <2>2. HandlerInv(t)'
    BY <1>9, Zenon DEF ClientCloses, ProxyInv, ProxyTypeOK, HandlerInv, allocatorVars
  <2> QED
    BY <2>1, <2>2, SlotInv
<1>10. CASE Join(t)
  <2>1. [AllocatorStep(t)]_allocatorVars
    BY <1>10 DEF Join, AllocatorStep
  <2>2. ProxyTypeOK' /\ Others /\ bind_addrs' = bind_addrs
    BY <1>10, <2>1, PortStep, Zenon DEF Join, ProxyInv, ProxyTypeOK, clientVars
  <2>3. HandlerInv(t)'
    BY <1>10, Zenon DEF Join, ProxyInv, ProxyTypeOK, HandlerInv
  <2> QED
    BY <2>2, <2>3, SlotInv
<1>11. CASE WriteZeros(t)
  <2>1. ProxyTypeOK' /\ Others /\ bind_addrs' = bind_addrs
    BY <1>11 DEF WriteZeros, ProxyInv, ProxyTypeOK, allocatorVars
  <2>2. HandlerInv(t)'
    BY <1>11, Zenon DEF WriteZeros, ProxyInv, ProxyTypeOK, HandlerInv, allocatorVars
  <2> QED
    BY <2>1, <2>2, SlotInv
<1> QED
  BY <1>1, <1>2, <1>3, <1>4, <1>5, <1>6, <1>7, <1>8, <1>9, <1>10, <1>11 DEF HandlerStep

LEMMA ListeningStepInv ==
    ASSUME NEW t \in Tasks, ProxyInv, AllocatorInv', TaskStep(t) \/ Connections(t)
    PROVE  ProxyInv'
<1> DEFINE Others == \A u \in Tasks \ {t} :
                        /\ pc'[u] = pc[u] /\ listener'[u] = listener[u]
                        /\ sockets'[u] = sockets[u] /\ conns'[u] = conns[u]
                        /\ port'[u] = port[u]
                        /\ (u \in tunnel' => u \in tunnel)
<1>1. CASE AcceptConnection(t)
  <2>1. ProxyTypeOK' /\ Others /\ bind_addrs' = bind_addrs
    BY <1>1 DEF AcceptConnection, ProxyInv, ProxyTypeOK, allocatorVars, clientVars
  <2>2. HandlerInv(t)'
    BY <1>1, Zenon DEF AcceptConnection, ProxyInv, ProxyTypeOK, HandlerInv, Bound, allocatorVars, clientVars
  <2> QED
    BY <2>1, <2>2, SlotInv, Zenon
<1>2. CASE ConnectionEnds(t)
  <2>1. ProxyTypeOK' /\ Others /\ bind_addrs' = bind_addrs
    BY <1>2 DEF ConnectionEnds, ProxyInv, ProxyTypeOK, allocatorVars, clientVars
  <2>2. HandlerInv(t)'
    BY <1>2, Zenon DEF ConnectionEnds, ProxyInv, ProxyTypeOK, HandlerInv, Bound, allocatorVars, clientVars
  <2> QED
    BY <2>1, <2>2, SlotInv, Zenon
<1>3. CASE ConnectionFails(t)
  <2>1. ProxyTypeOK' /\ Others /\ bind_addrs' = bind_addrs
    BY <1>3 DEF ConnectionFails, ProxyInv, ProxyTypeOK, allocatorVars, clientVars
  <2>2. HandlerInv(t)'
    <3>1. /\ conns[t] > 0 /\ listener'[t] = "failed" /\ conns'[t] = 0 /\ sockets'[t] = {}
          /\ pc'[t] = pc[t] /\ port'[t] = port[t]
      BY <1>3 DEF ConnectionFails, ProxyInv, ProxyTypeOK, allocatorVars
    <3>2. HandlerInv(t)
      BY Zenon DEF ProxyInv
    <3>3. listener[t] \in {"running", "stopping"}
      BY <3>1, <3>2, Zenon DEF HandlerInv
    <3>4. pc[t] # "answering"
          /\ pc[t] \notin {"idle", "subject", "allocating", "granting", "refusing", "binding", "unbinding"}
      BY ONLY <3>2, <3>3 DEF HandlerInv
    <3>5. ~(conns'[t] > 0)
      BY ONLY <3>1
    <3>6. pc[t] # "binding"
      BY <3>4
    <3> QED
      BY ONLY <3>1, <3>2, <3>4, <3>5, <3>6, Zenon DEF HandlerInv
  <2> QED
    BY <2>1, <2>2, SlotInv, Zenon
<1>4. CASE StopAccepting(t)
  <2>1. ProxyTypeOK' /\ Others /\ bind_addrs' = bind_addrs
    BY <1>4 DEF StopAccepting, ProxyInv, ProxyTypeOK, allocatorVars, clientVars
  <2>2. HandlerInv(t)'
    BY <1>4, Zenon DEF StopAccepting, ProxyInv, ProxyTypeOK, HandlerInv, Bound, allocatorVars
  <2> QED
    BY <2>1, <2>2, SlotInv, Zenon
<1>5. CASE ListenersEnd(t)
  <2>1. ProxyTypeOK' /\ Others /\ bind_addrs' = bind_addrs
    BY <1>5 DEF ListenersEnd, ProxyInv, ProxyTypeOK, allocatorVars, clientVars
  <2>2. HandlerInv(t)'
    <3>1. /\ listener[t] = "stopping" /\ listener'[t] = "ok" /\ conns'[t] = 0
          /\ pc'[t] = pc[t] /\ sockets'[t] = sockets[t] /\ port'[t] = port[t]
      BY <1>5 DEF ListenersEnd, ProxyInv, ProxyTypeOK, allocatorVars
    <3>2. HandlerInv(t)
      BY Zenon DEF ProxyInv
    <3>3. pc[t] \notin {"idle", "subject", "allocating", "granting", "refusing", "binding", "unbinding"}
      BY ONLY <3>1, <3>2, Zenon DEF HandlerInv
    <3>4. pc[t] # "binding"
      BY <3>3
    <3>5. sockets[t] = {}
      BY ONLY <3>1, <3>2, <3>4 DEF HandlerInv
    <3>6. ~(conns'[t] > 0)
      BY ONLY <3>1
    <3> QED
      BY ONLY <3>1, <3>2, <3>3, <3>4, <3>5, <3>6, Zenon DEF HandlerInv
  <2> QED
    BY <2>1, <2>2, SlotInv, Zenon
<1> QED
  BY <1>1, <1>2, <1>3, <1>4, <1>5 DEF TaskStep, Connections

\* A client reconnects, or its handler is dropped.
LEMMA SlotStepInv ==
    ASSUME NEW t \in Tasks, ProxyInv, AllocatorInv', Reconnect(t) \/ Abandon(t)
    PROVE  ProxyInv'
<1> DEFINE Others == \A u \in Tasks \ {t} :
                        /\ pc'[u] = pc[u] /\ listener'[u] = listener[u]
                        /\ sockets'[u] = sockets[u] /\ conns'[u] = conns[u]
                        /\ port'[u] = port[u]
                        /\ (u \in tunnel' => u \in tunnel)
<1>1. CASE Reconnect(t)
  <2>1. ProxyTypeOK' /\ Others /\ bind_addrs' = bind_addrs
    BY <1>1 DEF Reconnect, ProxyInv, ProxyTypeOK, allocatorVars
  <2>2. HandlerInv(t)'
    BY <1>1, Zenon DEF Reconnect, ProxyInv, ProxyTypeOK, HandlerInv, Bound, allocatorVars
  <2> QED
    BY <2>1, <2>2, SlotInv
<1>2. CASE Abandon(t)
  <2>1. [AllocatorStep(t)]_allocatorVars
    BY <1>2 DEF Abandon, AllocatorStep
  <2>2. ProxyTypeOK' /\ Others /\ bind_addrs' = bind_addrs
    BY <1>2, <2>1, PortStep, Zenon DEF Abandon, Goto, ProxyInv, ProxyTypeOK, clientVars
  <2>3. HandlerInv(t)'
    BY <1>2, Zenon DEF Abandon, Goto, ProxyInv, ProxyTypeOK, HandlerInv, clientVars
  <2> QED
    BY <2>2, <2>3, SlotInv
<1> QED
  BY <1>1, <1>2

LEMMA ProxyStepInv ==
    ASSUME ProxyInv, [Next]_vars
    PROVE  ProxyInv'
<1>1. AllocatorInv'
  BY ProxyAllocatorStep, AllocatorStepInv DEF ProxyInv
<1>2. CASE UNCHANGED vars
  BY <1>1, <1>2, ClientInv DEF vars, allocatorVars, proxyVars, clientVars
<1>3. ASSUME NEW t \in Tasks, ClientStep(t) \/ Interrupt(t) \/ LoseTunnel(t) PROVE ProxyInv'
  BY <1>1, <1>3, ClientInv
 , Zenon DEF ClientStep, Demand, ReadAnswer, WaitClose, ReadFails, Interrupt, LoseTunnel, allocatorVars,
      proxyVars
<1> QED
  BY <1>1, <1>2, <1>3, HandlerStepInv, ListeningStepInv, SlotStepInv DEF Next
-----------------------------------------------------------------------------
(***************************************************************************)
(* ProxyInv is invariant, for any number of clients that come, are served, *)
(* leave and lose their tunnels.                                           *)
(***************************************************************************)
THEOREM ProxyCorrect == Spec => []ProxyInv
  BY ProxyInitInv, ProxyStepInv, PTL DEF Spec

(***************************************************************************)
(* A handler that is there holds the port of every socket it has bound     *)
(* (the join in DemandProxyService::handle).                               *)
(***************************************************************************)
THEOREM ServingHandlerHoldsPort == Spec => []ServingPortIsHeld
<1>1. ProxyInv => ServingPortIsHeld
  BY Zenon DEF ProxyInv, HandlerInv, ServingPortIsHeld
<1> QED
  BY <1>1, ProxyCorrect, PTL

(***************************************************************************)
(* What is left to bind of a granted port is in use by nothing but the     *)
(* task that a handler left behind when it was dropped with its tunnel:    *)
(* handle_dual_stack_addrs leaves no conflict within one list, and the     *)
(* allocator gives no port to two handlers.                                *)
(***************************************************************************)
THEOREM DemandsDoNotCollide == Spec => []GrantsDoNotCollide
<1>1. ASSUME ProxyInv, NEW t \in Tasks, pc[t] = "binding",
             NEW i \in Cardinality(sockets[t]) + 1 .. Len(bind_addrs),
             NEW u \in Tasks, NEW s \in sockets[u],
             s[2] = port[t], Conflict(s[1], bind_addrs[i])
      PROVE  pc[u] = "done" /\ listener[u] = "running" /\ u \notin tunnel
  <2>1. PICK k \in 0 .. Len(bind_addrs) :
            /\ sockets[t] = Bound(t, k) /\ Cardinality(sockets[t]) = k
    BY <1>1, BoundPrefix, Zenon
  <2>2. /\ i \in 1 .. Len(bind_addrs)
        /\ \A j \in 1 .. k : j # i /\ j \in 1 .. Len(bind_addrs)
    <3>1. Len(bind_addrs) \in Nat
      BY <1>1 DEF ProxyInv, ProxyTypeOK
    <3> QED
      BY ONLY <2>1, <3>1, i \in Cardinality(sockets[t]) + 1 .. Len(bind_addrs),
              k \in 0 .. Len(bind_addrs)
  <2>3. u # t
    <3>1. SUFFICES ASSUME u = t PROVE FALSE
      OBVIOUS
    <3>2. PICK j \in 1 .. k : s = <<bind_addrs[j], port[t]>>
      BY <2>1, <3>1 DEF Bound
    <3> QED
      BY <1>1, <2>2, <3>2 DEF ProxyInv
  <2>4. port[t] # NoPort
    BY <1>1, Zenon DEF ProxyInv, HandlerInv
  <2>5. pc[u] # "done" => port[u] = port[t]
    BY <1>1, Zenon DEF ProxyInv, HandlerInv
  <2>6. pc[u] = "done"
    BY <1>1, <2>3, <2>4, <2>5, Zenon DEF ProxyInv, AllocatorInv
  <2>7. HandlerInv(u) /\ sockets[u] # {}
    BY <1>1, Zenon DEF ProxyInv
  <2> QED
    BY ONLY <2>6, <2>7, Zenon DEF HandlerInv
<1>2. ProxyInv => GrantsDoNotCollide
  BY <1>1, Zenon DEF GrantsDoNotCollide
<1> QED
  BY <1>2, ProxyCorrect, PTL
=============================================================================
