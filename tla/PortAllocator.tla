--------------------------- MODULE PortAllocator ---------------------------
(***************************************************************************)
(* PortRangeAllocator (server/mod.rs): a set of allocated ports behind an  *)
(* asynchronous mutex.  A handle gives its port back when it is dropped,   *)
(* which cannot wait for the mutex: when that is taken, the port is put    *)
(* into an unbounded queue of marks, which the next allocation empties.    *)
(* The queue is modelled by the number of marks of every port, since the   *)
(* removals it stands for commute.                                         *)
(***************************************************************************)
EXTENDS Integers, FiniteSetsExt

CONSTANTS
    Tasks,      \* the tasks that allocate, each at most one port at a time
    Ranges,     \* the port ranges considered
    NoTask,     \* nobody has locked the mutex
    NoPort      \* a task without a port

AllPorts == UNION Ranges

ASSUME AllocatorAssumption ==
    /\ AllPorts \subseteq Nat
    /\ \A R \in Ranges : IsFiniteSet(R)
    /\ NoTask \notin Tasks
    /\ NoPort \notin AllPorts

VARIABLES
    range,      \* the range the allocator was made for
    allocated,  \* the set behind the mutex
    holder,     \* the task that has locked it
    marks,      \* mark_queue: how often a port is in it
    step,       \* where a task is in allocate()
    port        \* the port of a task's handle, or NoPort without one

allocatorVars == <<range, allocated, holder, marks, step, port>>

AllocatorTypeOK ==
    /\ range \in Ranges
    /\ allocated \in SUBSET range
    /\ holder \in Tasks \union {NoTask}
    /\ marks \in [AllPorts -> Nat]
    /\ step \in [Tasks -> {"idle", "locking", "draining", "drained", "full"}]
    /\ port \in [Tasks -> AllPorts \union {NoPort}]

\* PortRangeAllocator::new
AllocatorInit ==
    /\ range \in Ranges
    /\ allocated = {}
    /\ holder = NoTask
    /\ marks = [p \in AllPorts |-> 0]
    /\ step = [t \in Tasks |-> "idle"]
    /\ port = [t \in Tasks |-> NoPort]

\* allocate() is called and waits for the mutex.
Allocate(t) ==
    /\ port[t] = NoPort
    /\ step[t] = "idle"
    /\ step' = [step EXCEPT ![t] = "locking"]
    /\ UNCHANGED <<range, allocated, holder, marks, port>>

Lock(t) ==
    /\ step[t] = "locking"
    /\ holder = NoTask
    /\ holder' = t
    /\ step' = [step EXCEPT ![t] = "draining"]
    /\ UNCHANGED <<range, allocated, marks, port>>

\* One round of the loop in cleanup_freed_ports.
CleanupFreedPorts(t) ==
    /\ step[t] = "draining"
    /\ \E p \in AllPorts :
          /\ marks[p] > 0
          /\ marks' = [marks EXCEPT ![p] = @ - 1]
          /\ allocated' = allocated \ {p}
    /\ UNCHANGED <<range, holder, step, port>>

\* recv() returns nothing now: the queue is empty, or the task has used up the
\* budget that tokio gives it between two yields.  Marks left, and later ones,
\* stay in the queue.
CleanupEnds(t) ==
    /\ step[t] = "draining"
    /\ step' = [step EXCEPT ![t] = "drained"]
    /\ UNCHANGED <<range, allocated, holder, marks, port>>

\* Faulty variant: the port is chosen, but not inserted into the set.
TakePortUnrecorded(t) ==
    /\ step[t] = "drained"
    /\ range \ allocated # {}
    /\ port' = [port EXCEPT ![t] = Min(range \ allocated)]
    /\ step' = [step EXCEPT ![t] = "idle"]
    /\ holder' = NoTask
    /\ UNCHANGED <<range, allocated, marks>>

\* The lowest free port, or NoFreePorts; the mutex is unlocked either way.
TakePort(t) ==
    /\ step[t] = "drained"
    /\ range \ allocated # {}
    /\ port' = [port EXCEPT ![t] = Min(range \ allocated)]
    /\ allocated' = allocated \union {port'[t]}
    /\ step' = [step EXCEPT ![t] = "idle"]
    /\ holder' = NoTask
    /\ UNCHANGED <<range, marks>>

NoFreePorts(t) ==
    /\ step[t] = "drained"
    /\ range \subseteq allocated
    /\ step' = [step EXCEPT ![t] = "full"]
    /\ holder' = NoTask
    /\ UNCHANGED <<range, allocated, marks, port>>

\* The caller has seen the error.
AllocationFailed(t) ==
    /\ step[t] = "full"
    /\ step' = [step EXCEPT ![t] = "idle"]
    /\ UNCHANGED <<range, allocated, holder, marks, port>>

\* Faulty variant: a drop that does not get the lock forgets its port.
MarkFreedOrForget(t) ==
    IF holder = NoTask
    THEN allocated' = allocated \ {port[t]} /\ UNCHANGED marks
    ELSE UNCHANGED <<allocated, marks>>

\* mark_freed: at once if the mutex can be had, through the queue otherwise.
MarkFreed(t) ==
    IF holder = NoTask
    THEN allocated' = allocated \ {port[t]} /\ UNCHANGED marks
    ELSE marks' = [marks EXCEPT ![port[t]] = @ + 1] /\ UNCHANGED allocated

\* <PortRangeAllocationHandle as Drop>::drop
DropHandle(t) ==
    /\ port[t] # NoPort
    /\ MarkFreed(t)
    /\ port' = [port EXCEPT ![t] = NoPort]
    /\ UNCHANGED <<range, holder, step>>

\* The future of allocate() is dropped before it returns.
AbandonAllocate(t) ==
    /\ step[t] # "idle"
    /\ step' = [step EXCEPT ![t] = "idle"]
    /\ holder' = IF holder = t THEN NoTask ELSE holder
    /\ UNCHANGED <<range, allocated, marks, port>>

\* What allocate() does once it has been called.
AllocateStep(t) ==
    \/ Lock(t)
    \/ CleanupFreedPorts(t)
    \/ CleanupEnds(t)
    \/ TakePort(t)
    \/ NoFreePorts(t)

AllocatorStep(t) ==
    \/ Allocate(t)
    \/ AllocateStep(t)
    \/ AllocationFailed(t)
    \/ DropHandle(t)
    \/ AbandonAllocate(t)

AllocatorNext == \E t \in Tasks : AllocatorStep(t)

AllocatorSpec == AllocatorInit /\ [][AllocatorNext]_allocatorVars
-----------------------------------------------------------------------------
\* The allocator hands out ports as a pool does whose only state is who owns
\* which port: a port is owned by one task at most, from allocate() to the
\* drop of its handle, whatever is still recorded or queued.
Pool == INSTANCE PortPool WITH owner <- port, Ports <- AllPorts
PoolSpec == Pool!Spec

\* No port leaks: one that is recorded as allocated has a live handle, or one
\* mark in the queue that the next allocation will find, and never both; no
\* mark frees a port that has been handed out again (mark_freed's two paths).
NothingLeaks ==
    \A p \in AllPorts :
       /\ p \in allocated <=> marks[p] = 1 \/ \E t \in Tasks : port[t] = p
       /\ marks[p] = 0 \/ \A t \in Tasks : port[t] # p

\* The inductive invariant behind both: besides, a port is queued once at most,
\* a port has one handle at most, a task that allocates has none, and the set
\* is changed under the mutex.
AllocatorInv ==
    /\ AllocatorTypeOK
    /\ NothingLeaks
    /\ \A p \in AllPorts : marks[p] \in {0, 1}
    /\ \A t, u \in Tasks : port[t] = port[u] /\ port[t] # NoPort => t = u
    /\ \A t \in Tasks : step[t] # "idle" => port[t] = NoPort
    /\ \A t \in Tasks : step[t] \in {"draining", "drained"} <=> holder = t
=============================================================================
