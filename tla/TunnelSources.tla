--------------------------- MODULE TunnelSources ---------------------------
(***************************************************************************)
(* Where a daemon's tunnels come from (common/tunnel_source/mod.rs,        *)
(* tunnel/id.rs, snocat-cli server.rs and client.rs): two runs of one      *)
(* daemon share its id generator.  The run "listen" takes connections from *)
(* a QUIC endpoint and finishes their handshakes one after the other; the  *)
(* run "dynamic" takes them from a DynamicStreamSet, to which other        *)
(* threads attach streams of one connection each.                          *)
(*                                                                         *)
(* A run is one task.  It is polled when it has been woken, and what it    *)
(* waits for wakes it: the streams that were in the set when it was last   *)
(* polled, not the ones that have been attached since.                     *)
(***************************************************************************)
EXTENDS Integers, Sequences, FiniteSets

CONSTANTS
    Incoming,    \* connections that may arrive at the endpoint
    Attached,    \* connections that may be attached to the set
    Keys,        \* the ids they are attached under
    LateAttach,  \* whether streams are attached while the run sleeps
    FirstId,     \* the generator's first id
    NoConn       \* no connection

ASSUME SourcesAssumption ==
    /\ FirstId \in Nat
    /\ NoConn \notin Incoming \cup Attached /\ Incoming \cap Attached = {}

Runs == {"listen", "dynamic"}

VARIABLES
    arrived,     \* connections queued at the endpoint, in order
    closed,      \* the endpoint is open, closed, or has lost its driver
    handshake,   \* the connection whose handshake the run awaits
    shaken,      \* connections whose handshake has ended, and how
    streams,     \* the stream map: the connection attached under each key
    lock,        \* the connection whose thread holds the set's mutex
    attaching,   \* per connection of Attached, how far its thread is
    ready,       \* connections of Attached whose stream has its item
    registered,  \* what the sleeping run "dynamic" will be woken by
    woken,       \* per run, whether its task is scheduled
    stream,      \* per run, the state of its ConstructedTunnelStream
    next,        \* the id generator
    tunnels,     \* per run, the tunnels made: connections and their ids
    shutdown     \* the shutdown request

vars == <<arrived, closed, handshake, shaken, streams, lock, attaching, ready,
          registered, woken, stream, next, tunnels, shutdown>>

setVars == <<streams, lock, attaching, ready, registered>>

endpointVars == <<arrived, closed, handshake, shaken>>

SourcesInit ==
    /\ arrived = <<>> /\ closed = "open" /\ handshake = NoConn
    /\ shaken = [c \in Incoming |-> "pending"]
    /\ streams = [k \in Keys |-> NoConn]
    /\ lock = NoConn
    /\ attaching = [c \in Attached |-> "idle"]
    /\ ready = {}
    /\ registered = {}
    /\ woken = [r \in Runs |-> TRUE]
    /\ stream = [r \in Runs |-> "Active"]
    /\ next = FirstId
    /\ tunnels = [r \in Runs |-> <<>>]
    /\ shutdown = FALSE

\* The items of a sequence of tunnels.
Made(r) == {tunnels[r][i].conn : i \in DOMAIN tunnels[r]}

-----------------------------------------------------------------------------
(* Tunnel ids.                                                             *)

\* Faulty variant: the id is kept for the next tunnel.
YieldSameId(r, c) ==
    /\ tunnels' = [tunnels EXCEPT ![r] = Append(@, [conn |-> c, id |-> next])]
    /\ next' = IF Len(tunnels[r]) = 0 THEN next ELSE next + 1

\* MonotonicAtomicGenerator::next is one fetch_add, whichever run calls it.
FetchAdd == next' = next + 1

\* ConstructedTunnelStream yields: the generator's next id, then into_tunnel.
Yield(r, c) ==
    /\ FetchAdd
    /\ tunnels' = [tunnels EXCEPT ![r] = Append(@, [conn |-> c, id |-> next])]

\* Its source has ended, or take_until has seen the shutdown.
End(r) ==
    /\ stream' = [stream EXCEPT ![r] = "Ended"]
    /\ woken' = [woken EXCEPT ![r] = FALSE]
    /\ UNCHANGED <<next, tunnels>>

Polled(r) == stream[r] = "Active" /\ woken[r]

SeesShutdown(r) ==
    /\ Polled(r) /\ shutdown
    /\ End(r)
    /\ UNCHANGED <<endpointVars, setVars, shutdown>>

-----------------------------------------------------------------------------
(* The listening endpoint.                                                 *)

Wake(r) == woken' = [woken EXCEPT ![r] = TRUE]

Arrive(c) ==
    /\ closed = "open" /\ c \notin {arrived[i] : i \in DOMAIN arrived}
    /\ c # handshake /\ c \notin Made("listen") /\ shaken[c] = "pending"
    /\ arrived' = Append(arrived, c)
    /\ Wake("listen")
    /\ UNCHANGED <<closed, handshake, shaken, setVars, stream, next, tunnels, shutdown>>

\* The endpoint is closed, or its driver fails (external).
CloseEndpoint ==
    /\ closed # "lost"
    /\ closed' \in {"closed", "lost"} \ {closed}
    /\ Wake("listen")
    /\ UNCHANGED <<arrived, handshake, shaken, setVars, stream, next, tunnels, shutdown>>

\* poll_next of the endpoint: a connection that fails to start is skipped, the
\* next one has its handshake awaited by server_main's filter_map.
AcceptIncoming ==
    /\ Polled("listen") /\ ~shutdown /\ handshake = NoConn
    /\ arrived # <<>> /\ closed # "lost"
    /\ arrived' = Tail(arrived)
    /\ \/ handshake' = Head(arrived) /\ UNCHANGED shaken
       \/ handshake' = NoConn /\ shaken' = [shaken EXCEPT ![Head(arrived)] = "rejected"]
    /\ UNCHANGED <<closed, setVars, woken, stream, next, tunnels, shutdown>>

\* Nothing is ready: the run sleeps.
ListenPending ==
    /\ Polled("listen") /\ ~shutdown
    /\ \/ handshake # NoConn /\ shaken[handshake] = "pending"
       \/ handshake = NoConn /\ arrived = <<>> /\ closed = "open"
    /\ woken' = [woken EXCEPT !["listen"] = FALSE]
    /\ UNCHANGED <<endpointVars, setVars, stream, next, tunnels, shutdown>>

\* accept answers None: at the end of the queue of a closed endpoint, and at
\* once when its driver is lost.
ListenEnds ==
    /\ Polled("listen") /\ ~shutdown
    /\ handshake = NoConn
    /\ closed = "lost" \/ (closed = "closed" /\ arrived = <<>>)
    /\ End("listen")
    /\ UNCHANGED <<endpointVars, setVars, shutdown>>

\* The peer completes or breaks off the handshake; only a handshake that is
\* awaited is driven.
Handshake ==
    /\ handshake # NoConn /\ shaken[handshake] = "pending"
    /\ \E outcome \in {"connected", "failed"} : shaken' = [shaken EXCEPT ![handshake] = outcome]
    /\ Wake("listen")
    /\ UNCHANGED <<arrived, closed, handshake, setVars, stream, next, tunnels, shutdown>>

\* filter_map: a connection that failed is dropped, another becomes a tunnel.
HandshakeEnds ==
    /\ Polled("listen") /\ ~shutdown
    /\ handshake # NoConn /\ shaken[handshake] # "pending"
    /\ handshake' = NoConn
    /\ \/ shaken[handshake] = "connected" /\ Yield("listen", handshake)
       \/ shaken[handshake] = "failed" /\ UNCHANGED <<next, tunnels>>
    /\ UNCHANGED <<arrived, closed, shaken, setVars, woken, stream, shutdown>>

-----------------------------------------------------------------------------
(* The dynamic stream set.                                                 *)

\* attach: a thread locks the set, puts its stream in the place of one that may
\* be there, and unlocks.  Nothing wakes the run.
LockSet(c) ==
    /\ attaching[c] = "idle" /\ lock = NoConn
    /\ LateAttach \/ woken["dynamic"]
    /\ lock' = c
    /\ attaching' = [attaching EXCEPT ![c] = "locked"]
    /\ UNCHANGED <<endpointVars, streams, ready, registered, woken, stream, next, tunnels, shutdown>>

Attach(c, k) ==
    /\ attaching[c] = "locked" /\ lock = c
    /\ streams' = [streams EXCEPT ![k] = c]
    /\ registered' = registered \ {streams[k]}
    /\ lock' = NoConn
    /\ attaching' = [attaching EXCEPT ![c] = "attached"]
    /\ UNCHANGED <<endpointVars, ready, woken, stream, next, tunnels, shutdown>>

Detach(k) ==
    /\ lock = NoConn /\ streams[k] # NoConn
    /\ streams' = [streams EXCEPT ![k] = NoConn]
    /\ registered' = registered \ {streams[k]}
    /\ UNCHANGED <<endpointVars, lock, attaching, ready, woken, stream, next, tunnels, shutdown>>

\* The connection a stream waits for is there.
BecomeReady(c) ==
    /\ attaching[c] = "attached" /\ c \notin ready
    /\ ready' = ready \cup {c}
    /\ IF c \in registered
       THEN registered' = registered \ {c} /\ Wake("dynamic")
       ELSE UNCHANGED <<registered, woken>>
    /\ UNCHANGED <<endpointVars, streams, lock, attaching, stream, next, tunnels, shutdown>>

InSet == {streams[k] : k \in Keys} \ {NoConn}

\* poll_next finds the mutex locked: the task wakes itself.
PollContended ==
    /\ Polled("dynamic") /\ ~shutdown /\ lock # NoConn
    /\ Wake("dynamic")
    /\ UNCHANGED <<endpointVars, setVars, stream, next, tunnels, shutdown>>

\* One of the streams that is ready yields.  It has no second item; that it is
\* over is only found, and it is only removed, by a later poll.
PollYields ==
    /\ Polled("dynamic") /\ ~shutdown /\ lock = NoConn
    /\ \E c \in (InSet \cap ready) \ Made("dynamic") : Yield("dynamic", c)
    /\ UNCHANGED <<endpointVars, setVars, woken, stream, shutdown>>

\* Faulty variant: the wakers are not registered.
PollPendingUnregistered ==
    /\ Polled("dynamic") /\ ~shutdown /\ lock = NoConn
    /\ (InSet \cap ready) \subseteq Made("dynamic")
    /\ streams' = [k \in Keys |-> IF streams[k] \in Made("dynamic") THEN NoConn ELSE streams[k]]
    /\ InSet \ Made("dynamic") # {}
    /\ woken' = [woken EXCEPT !["dynamic"] = FALSE]
    /\ UNCHANGED <<endpointVars, lock, attaching, ready, registered, stream, next, tunnels, shutdown>>

\* None is: the streams that are over are removed, the others wake the task.
PollPending ==
    /\ Polled("dynamic") /\ ~shutdown /\ lock = NoConn
    /\ (InSet \cap ready) \subseteq Made("dynamic")
    /\ streams' = [k \in Keys |-> IF streams[k] \in Made("dynamic") THEN NoConn ELSE streams[k]]
    /\ InSet \ Made("dynamic") # {}
    /\ registered' = InSet \ Made("dynamic")
    /\ woken' = [woken EXCEPT !["dynamic"] = FALSE]
    /\ UNCHANGED <<endpointVars, lock, attaching, ready, stream, next, tunnels, shutdown>>

\* An empty set has ended, and with it the run's tunnels.
PollEnds ==
    /\ Polled("dynamic") /\ ~shutdown /\ lock = NoConn
    /\ InSet \subseteq Made("dynamic")
    /\ streams' = [k \in Keys |-> NoConn]
    /\ End("dynamic")
    /\ UNCHANGED <<endpointVars, lock, attaching, ready, registered, shutdown>>

-----------------------------------------------------------------------------
\* The shutdown request wakes every run: take_until polls its listener.
Shutdown ==
    /\ ~shutdown
    /\ shutdown' = TRUE
    /\ woken' = [r \in Runs |-> TRUE]
    /\ UNCHANGED <<endpointVars, setVars, stream, next, tunnels>>

\* The steps the executor owes the two tasks and the thread in the lock.
Poll ==
    \/ \E r \in Runs : SeesShutdown(r)
    \/ AcceptIncoming \/ ListenPending \/ ListenEnds \/ HandshakeEnds
    \/ PollYields \/ PollPending \/ PollEnds

SourcesNext ==
    \/ Poll \/ PollContended \/ Handshake
    \/ \E c \in Incoming : Arrive(c)
    \/ \E c \in Attached : LockSet(c) \/ BecomeReady(c) \/ \E k \in Keys : Attach(c, k)
    \/ \E k \in Keys : Detach(k)
    \/ CloseEndpoint \/ Shutdown

\* A handshake ends: QUIC times it out.  A run is polled when it is woken,
\* whatever the other does.
SourcesSpec ==
    /\ SourcesInit /\ [][SourcesNext]_vars
    /\ WF_vars(Handshake)
    /\ WF_vars(\E c \in Attached, k \in Keys : Attach(c, k))
    /\ WF_vars(SeesShutdown("listen") \/ AcceptIncoming \/ ListenPending \/ ListenEnds \/ HandshakeEnds)
    /\ SF_vars(SeesShutdown("dynamic") \/ PollYields \/ PollPending \/ PollEnds)
-----------------------------------------------------------------------------
(* Properties.                                                             *)

\* The runs of a daemon share its generator: no two tunnels have the same id,
\* a later tunnel of a run has a larger one, and no connection is made into
\* two tunnels.
UniqueTunnels ==
    \A r, q \in Runs : \A i \in DOMAIN tunnels[r], j \in DOMAIN tunnels[q] :
        <<r, i>> # <<q, j>> =>
            /\ tunnels[r][i].id # tunnels[q][j].id
            /\ tunnels[r][i].conn # tunnels[q][j].conn
            /\ r = q /\ i < j => tunnels[r][i].id < tunnels[q][j].id

\* A connection that has arrived at the endpoint is made into a tunnel unless it
\* fails, whatever the ones before it do; so is a connection whose stream is in
\* the set, unless it is replaced or detached.  Only a shutdown, the loss of the
\* endpoint's driver, or the end of an empty set excuses.
SourcesAreServed ==
    /\ \A c \in Incoming :
        (\E i \in DOMAIN arrived : arrived[i] = c) ~>
            (c \in Made("listen") \/ shaken[c] \in {"rejected", "failed"} \/ shutdown
             \/ closed = "lost")
    /\ \A c \in Attached :
        (c \in InSet /\ c \in ready) ~>
            (c \in Made("dynamic") \/ c \notin InSet \/ stream["dynamic"] = "Ended")
-----------------------------------------------------------------------------
(* The inductive invariant behind UniqueTunnels.                           *)

ConnsOf(r) == IF r = "listen" THEN Incoming ELSE Attached

TunnelsInv ==
    /\ next \in Nat
    /\ tunnels \in [Runs -> Seq([conn : Incoming \cup Attached, id : Nat])]
    /\ \A r \in Runs : \A i \in DOMAIN tunnels[r] :
          tunnels[r][i].id < next /\ tunnels[r][i].conn \in ConnsOf(r)
    /\ UniqueTunnels

\* A connection is in one place: the queue, the handshake, or a tunnel.
QueueInv ==
    /\ arrived \in Seq(Incoming) /\ handshake \in Incoming \cup {NoConn}
    /\ handshake \notin Made("listen")
    /\ \A i \in DOMAIN arrived : arrived[i] # handshake /\ arrived[i] \notin Made("listen")
    /\ \A i, j \in DOMAIN arrived : i # j => arrived[i] # arrived[j]

SourcesInv == TunnelsInv /\ QueueInv /\ streams \in [Keys -> Attached \cup {NoConn}]
=============================================================================
