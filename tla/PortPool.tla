------------------------------ MODULE PortPool -----------------------------
(***************************************************************************)
(* What PortRangeAllocator (server/mod.rs) promises its callers: a port of *)
(* the range belongs to one owner at a time.                               *)
(***************************************************************************)
CONSTANTS Tasks, Ports, NoPort

VARIABLE owner    \* the port that a task owns, or NoPort

Init == owner = [t \in Tasks |-> NoPort]

Owned == {owner[t] : t \in Tasks}

\* allocate() returns a handle.
Grant(t) ==
    \E p \in Ports \ Owned :
       owner[t] = NoPort /\ owner' = [owner EXCEPT ![t] = p]

\* The handle is dropped.
Return(t) ==
    owner[t] # NoPort /\ owner' = [owner EXCEPT ![t] = NoPort]

Next == \E t \in Tasks : Grant(t) \/ Return(t)

Spec == Init /\ [][Next]_owner
=============================================================================
