---------------------------- MODULE DemandProxy ----------------------------
(***************************************************************************)
(* The demand proxy of the command-line programs: a client asks the server *)
(* over its tunnel (DemandProxyClient, and the tcp_watcher of client_main) *)
(* for a TCP port that is forwarded to it; DemandProxyService allocates    *)
(* the port, binds it on every address, and runs the listeners in a task   *)
(* of its own until the client closes the stream of the demand.            *)
(*                                                                         *)
(* A slot is one client with its tunnel, its demand and the handler of it; *)
(* it is used again by another client once all of that is over.            *)
(***************************************************************************)
EXTENDS PortAllocator, Sequences

CONSTANTS
    Addresses,      \* the addresses of the server's host
    BindLists,      \* the lists of addresses the service is created with
    Unspecified,    \* the addresses that stand for every address
    MaxConns        \* bound on the TCP connections of a listener at a time

ASSUME ProxyAssumption ==
    /\ BindLists \subseteq Seq(Addresses)
    /\ \A addrs \in BindLists : \A i, j \in DOMAIN addrs : addrs[i] = addrs[j] => i = j
    /\ MaxConns \in Nat

VARIABLES
    bind_addrs,     \* what is left of the list
    pc,             \* the handler of a demand
    sockets,        \* what it has bound: sets of pairs of an address and a port
    listener,       \* its task that runs the listeners
    conns,          \* the TCP connections that task is forwarding
    stop,           \* no_new_requests is cancelled
    watcher,        \* tcp_watcher of the client
    asked,          \* demands the service has not seen yet
    open,           \* the client's half of the stream is open
    frames,         \* what the service has written and the client not read
    tunnel          \* the tunnels that are up

proxyVars == <<bind_addrs, pc, sockets, listener, conns, stop>>
clientVars == <<watcher, asked, open, frames, tunnel>>
vars == <<allocatorVars, proxyVars, clientVars>>

\* An address conflicts with an equal one, and with an unspecified one.
Conflict(a, b) == a = b \/ a \in Unspecified \/ b \in Unspecified

\* Faulty variant: every address of the list is bound.
HandleDualStackAddrsNot(addrs) == addrs

\* handle_dual_stack_addrs: the first unspecified address replaces the list.
HandleDualStackAddrs(addrs) ==
    LET unspecified == {i \in DOMAIN addrs : addrs[i] \in Unspecified}
    IN IF unspecified = {} THEN addrs ELSE <<addrs[Min(unspecified)]>>

Init ==
    /\ AllocatorInit
    /\ \E addrs \in BindLists : bind_addrs = HandleDualStackAddrs(addrs)
    /\ pc = [t \in Tasks |-> "idle"]
    /\ sockets = [t \in Tasks |-> {}]
    /\ listener = [t \in Tasks |-> "none"]
    /\ conns = [t \in Tasks |-> 0]
    /\ stop = {}
    /\ watcher = [t \in Tasks |-> "sleeping"]
    /\ asked = {}
    /\ open = {}
    /\ frames = [t \in Tasks |-> <<>>]
    /\ tunnel = Tasks
-----------------------------------------------------------------------------
(***************************************************************************)
(* The client.                                                             *)
(***************************************************************************)
\* tcp_watcher wakes, opens a link on its tunnel, negotiates, and writes the
\* subject; or it finds no tunnel, or the link fails.
Demand(t) ==
    /\ watcher[t] = "sleeping"
    /\ \/ /\ t \in tunnel
          /\ watcher' = [watcher EXCEPT ![t] = "asked"]
          /\ asked' = asked \union {t}
          /\ open' = open \union {t}
       \/ /\ watcher' = [watcher EXCEPT ![t] = "failed"]
          /\ UNCHANGED <<asked, open>>
    /\ UNCHANGED <<allocatorVars, proxyVars, frames, tunnel>>

\* The demand is over for the client, which drops its stream unread.
Leave(t, how) ==
    /\ watcher' = [watcher EXCEPT ![t] = how]
    /\ open' = open \ {t}
    /\ frames' = [frames EXCEPT ![t] = <<>>]

\* The answer to the demand: the addresses, or null.
ReadAnswer(t) ==
    /\ watcher[t] = "asked"
    /\ frames[t] # <<>>
    /\ IF Head(frames[t]) = "addresses"
       THEN /\ watcher' = [watcher EXCEPT ![t] = "granted"]
            /\ frames' = [frames EXCEPT ![t] = Tail(@)]
            /\ UNCHANGED open
       ELSE Leave(t, "refused")
    /\ UNCHANGED <<allocatorVars, proxyVars, asked, tunnel>>

\* wait_close reads eight bytes, whatever they are: the eight zeros, or the
\* frame of a null, which is a length of four and four characters.
WaitClose(t) ==
    /\ watcher[t] = "granted"
    /\ frames[t] # <<>>
    /\ Leave(t, "closed")
    /\ UNCHANGED <<allocatorVars, proxyVars, asked, tunnel>>

\* The stream ends: the handler has dropped its half, or the tunnel is lost.
ReadFails(t) ==
    /\ watcher[t] \in {"asked", "granted"}
    /\ (frames[t] = <<>> /\ pc[t] = "done") \/ t \notin tunnel
    /\ Leave(t, "failed")
    /\ UNCHANGED <<allocatorVars, proxyVars, asked, tunnel>>

\* SIGINT cancels shutdown, which wins the select against wait_close.
Interrupt(t) ==
    /\ watcher[t] = "granted"
    /\ Leave(t, "closed")
    /\ UNCHANGED <<allocatorVars, proxyVars, asked, tunnel>>

LoseTunnel(t) ==
    /\ t \in tunnel
    /\ tunnel' = tunnel \ {t}
    /\ UNCHANGED <<allocatorVars, proxyVars, watcher, asked, open, frames>>

\* Another client connects, once nothing is left of the one before it.
Reconnect(t) ==
    /\ watcher[t] \in {"refused", "closed", "failed"}
    /\ pc[t] = "done" \/ (pc[t] = "idle" /\ t \notin asked)
    /\ listener[t] \notin {"running", "stopping"}
    /\ watcher' = [watcher EXCEPT ![t] = "sleeping"]
    /\ pc' = [pc EXCEPT ![t] = "idle"]
    /\ listener' = [listener EXCEPT ![t] = "none"]
    /\ stop' = stop \ {t}
    /\ tunnel' = tunnel \union {t}
    /\ UNCHANGED <<allocatorVars, bind_addrs, sockets, conns, asked, open, frames>>
-----------------------------------------------------------------------------
(***************************************************************************)
(* The handler, DemandProxyService::handle.                                *)
(***************************************************************************)
Goto(t, to) == pc' = [pc EXCEPT ![t] = to]

\* Can a write of the handler succeed, and can it fail?
Writable(t) == t \in tunnel
Unwritable(t) == t \notin tunnel \/ t \notin open

Written(t, frame) ==
    frames' = IF t \in open THEN [frames EXCEPT ![t] = Append(@, frame)] ELSE frames

\* The stream is negotiated and the peer is tracked; otherwise AddressError.
Handle(t) ==
    /\ pc[t] = "idle"
    /\ t \in asked
    /\ pc' \in {[pc EXCEPT ![t] = to] : to \in {"subject", "done"}}
    /\ asked' = asked \ {t}
    /\ UNCHANGED <<allocatorVars, bind_addrs, sockets, listener, conns, stop,
                   watcher, open, frames, tunnel>>

\* The subject is read, and allocate() called; or UnexpectedEnd.
ReadSubject(t) ==
    /\ pc[t] = "subject"
    /\ \/ Allocate(t) /\ Goto(t, "allocating")
       \/ t \notin tunnel /\ Goto(t, "done") /\ UNCHANGED allocatorVars
    /\ UNCHANGED <<bind_addrs, sockets, listener, conns, stop, clientVars>>

Allocating(t) ==
    /\ pc[t] = "allocating"
    /\ \/ Lock(t) \/ CleanupFreedPorts(t) \/ CleanupEnds(t)
       \/ NoFreePorts(t)
    /\ UNCHANGED <<proxyVars, clientVars>>

Granted(t) ==
    /\ pc[t] = "allocating"
    /\ \/ TakePort(t) /\ Goto(t, "granting")
       \/ AllocationFailed(t) /\ Goto(t, "refusing")
    /\ UNCHANGED <<bind_addrs, sockets, listener, conns, stop, clientVars>>

\* The client is told its port before that is bound; IllegalResponse if it
\* cannot be told, and then the handle is dropped.
WriteGrant(t) ==
    /\ pc[t] = "granting"
    /\ \/ Writable(t) /\ Written(t, "addresses") /\ Goto(t, "binding") /\ UNCHANGED allocatorVars
       \/ Unwritable(t) /\ DropHandle(t) /\ Goto(t, "done") /\ UNCHANGED frames
    /\ UNCHANGED <<bind_addrs, sockets, listener, conns, stop, watcher, asked, open, tunnel>>

\* DependencyFailure, once null has been written.
WriteRefusal(t) ==
    /\ pc[t] = "refusing"
    /\ \/ Writable(t) /\ Written(t, "null")
       \/ Unwritable(t) /\ UNCHANGED frames
    /\ Goto(t, "done")
    /\ UNCHANGED <<allocatorVars, bind_addrs, sockets, listener, conns, stop,
                   watcher, asked, open, tunnel>>

\* Somebody else, or this handler, listens on the port and the address.
InUse(a, p) == \E u \in Tasks : \E s \in sockets[u] : s[2] = p /\ Conflict(s[1], a)

\* The addresses are bound one after the other, and then given to the task
\* that listens.  Binding one fails if it is in use, and may fail for any other
\* reason the system has (another process, no such family, no permission):
\* those bound so far are dropped.
Bind(t) ==
    LET n == Cardinality(sockets[t])
    IN /\ pc[t] = "binding"
       /\ \/ /\ n = Len(bind_addrs)
             /\ listener' = [listener EXCEPT ![t] = "running"]
             /\ Goto(t, "serving")
             /\ UNCHANGED sockets
          \/ /\ n < Len(bind_addrs)
             /\ ~InUse(bind_addrs[n + 1], port[t])
             /\ sockets' = [sockets EXCEPT ![t] = @ \union {<<bind_addrs[n + 1], port[t]>>}]
             /\ UNCHANGED <<pc, listener>>
          \/ /\ n < Len(bind_addrs)
             /\ sockets' = [sockets EXCEPT ![t] = {}]
             /\ Goto(t, "unbinding")
             /\ UNCHANGED listener
       /\ UNCHANGED <<allocatorVars, bind_addrs, conns, stop, clientVars>>

\* The client is told, after all, that there is no port.
WriteUnbound(t) ==
    /\ pc[t] = "unbinding"
    /\ \/ Writable(t) /\ Written(t, "null")
       \/ Unwritable(t) /\ UNCHANGED frames
    /\ DropHandle(t)
    /\ Goto(t, "done")
    /\ UNCHANGED <<bind_addrs, sockets, listener, conns, stop, watcher, asked, open, tunnel>>

\* Faulty variant: the listeners are not told.
ClientClosesUnheard(t) ==
    /\ pc[t] = "serving"
    /\ t \notin open \/ t \notin tunnel
    /\ Goto(t, "closing")
    /\ UNCHANGED <<allocatorVars, bind_addrs, sockets, listener, conns, stop, clientVars>>

\* wait_for_client_close: the read ends, and the listeners are to stop.
ClientCloses(t) ==
    /\ pc[t] = "serving"
    /\ t \notin open \/ t \notin tunnel
    /\ stop' = stop \union {t}
    /\ Goto(t, "closing")
    /\ UNCHANGED <<allocatorVars, bind_addrs, sockets, listener, conns, clientVars>>

\* Faulty variant: the port is given back before the listeners have ended.
JoinEarly(t) ==
    /\ pc[t] = "closing"
    /\ DropHandle(t)
    /\ Goto(t, "answering")
    /\ UNCHANGED <<bind_addrs, sockets, listener, conns, stop, clientVars>>

\* The join of the two is over; the port is dropped on either way out.
Join(t) ==
    /\ pc[t] = "closing"
    /\ listener[t] \in {"ok", "failed"}
    /\ DropHandle(t)
    /\ Goto(t, IF listener[t] = "ok" THEN "answering" ELSE "done")
    /\ UNCHANGED <<bind_addrs, sockets, listener, conns, stop, clientVars>>

WriteZeros(t) ==
    /\ pc[t] = "answering"
    /\ \/ Writable(t) /\ Written(t, "zeros")
       \/ Unwritable(t) /\ UNCHANGED frames
    /\ Goto(t, "done")
    /\ UNCHANGED <<allocatorVars, bind_addrs, sockets, listener, conns, stop,
                   watcher, asked, open, tunnel>>

\* The daemon drops the handler of a lost tunnel wherever it is suspended:
\* its handle and bare listeners go, the listening task does not.
Abandon(t) ==
    /\ pc[t] \notin {"idle", "done"}
    /\ t \notin tunnel
    /\ IF port[t] # NoPort THEN DropHandle(t)
       ELSE IF step[t] # "idle" THEN AbandonAllocate(t) ELSE UNCHANGED allocatorVars
    /\ sockets' = [sockets EXCEPT ![t] = IF listener[t] = "running" THEN @ ELSE {}]
    /\ Goto(t, "done")
    /\ UNCHANGED <<bind_addrs, listener, conns, stop, clientVars>>
-----------------------------------------------------------------------------
(***************************************************************************)
(* The listening task, run_tcp_listeners.                                  *)
(***************************************************************************)
AcceptConnection(t) ==
    /\ listener[t] = "running"
    /\ conns[t] < MaxConns
    /\ conns' = [conns EXCEPT ![t] = @ + 1]
    /\ UNCHANGED <<allocatorVars, bind_addrs, pc, sockets, listener, stop, clientVars>>

ConnectionEnds(t) ==
    /\ conns[t] > 0
    /\ conns' = [conns EXCEPT ![t] = @ - 1]
    /\ UNCHANGED <<allocatorVars, bind_addrs, pc, sockets, listener, stop, clientVars>>

\* A connection that cannot be routed or proxied ends the task, with every
\* listener and every other connection of it.
ConnectionFails(t) ==
    /\ conns[t] > 0
    /\ listener' = [listener EXCEPT ![t] = "failed"]
    /\ conns' = [conns EXCEPT ![t] = 0]
    /\ sockets' = [sockets EXCEPT ![t] = {}]
    /\ UNCHANGED <<allocatorVars, bind_addrs, pc, stop, clientVars>>

\* take_until: the listeners are dropped, the connections go on.
StopAccepting(t) ==
    /\ listener[t] = "running"
    /\ t \in stop
    /\ listener' = [listener EXCEPT ![t] = "stopping"]
    /\ sockets' = [sockets EXCEPT ![t] = {}]
    /\ UNCHANGED <<allocatorVars, bind_addrs, pc, conns, stop, clientVars>>

ListenersEnd(t) ==
    /\ listener[t] = "stopping"
    /\ conns[t] = 0
    /\ listener' = [listener EXCEPT ![t] = "ok"]
    /\ UNCHANGED <<allocatorVars, bind_addrs, pc, sockets, conns, stop, clientVars>>
-----------------------------------------------------------------------------
ClientStep(t) == Demand(t) \/ ReadAnswer(t) \/ WaitClose(t) \/ ReadFails(t)

HandlerStep(t) ==
    \/ Handle(t) \/ ReadSubject(t) \/ Allocating(t) \/ Granted(t)
    \/ WriteGrant(t) \/ WriteRefusal(t) \/ Bind(t) \/ WriteUnbound(t)
    \/ ClientCloses(t) \/ Join(t) \/ WriteZeros(t)

TaskStep(t) == StopAccepting(t) \/ ListenersEnd(t)

Connections(t) == AcceptConnection(t) \/ ConnectionEnds(t) \/ ConnectionFails(t)

Next == \E t \in Tasks :
    \/ ClientStep(t) \/ HandlerStep(t) \/ TaskStep(t) \/ Connections(t)
    \/ Interrupt(t) \/ LoseTunnel(t) \/ Abandon(t) \/ Reconnect(t)

\* Every task is scheduled again and again, and the mutex is handed over in
\* the order of the requests for it (tokio::sync::Mutex).  Nothing makes a
\* TCP connection end, a client leave, or a tunnel fail.
Fairness == \A t \in Tasks :
    /\ WF_vars(HandlerStep(t) \/ TaskStep(t))
    /\ SF_vars(Allocating(t))

Spec == Init /\ [][Next]_vars /\ Fairness
-----------------------------------------------------------------------------
\* As long as a handler is there, its port is not given back before its
\* listeners are gone: the join keeps the handle alive past them, whichever of
\* the two fails ("ensuring it lived long enough to get here", in handle).
ServingPortIsHeld ==
    \A t \in Tasks : pc[t] # "done" => \A s \in sockets[t] : port[t] = s[2]

\* The demands do not stand in each other's way: what is still to be bound of a
\* granted port is in use by no other handler and by no address that this one
\* has bound itself, only ever by the listening task that a handler left behind
\* when it was dropped with its tunnel (run_tcp_listeners).  Nothing is
\* said of what other processes hold: there, Bind fails.
GrantsDoNotCollide ==
    \A t \in Tasks : pc[t] = "binding" =>
       \A i \in Cardinality(sockets[t]) + 1 .. Len(bind_addrs) :
          \A u \in Tasks : \A s \in sockets[u] :
             s[2] = port[t] /\ Conflict(s[1], bind_addrs[i]) =>
                pc[u] = "done" /\ listener[u] = "running" /\ u \notin tunnel

\* A handler whose client has left gives its port back, unless connections of
\* it remain (wait_for_client_close, run_tcp_listeners).
ClosedClientFreesPort ==
    \A t \in Tasks :
       (port[t] # NoPort /\ t \notin open) ~> (port[t] = NoPort \/ conns[t] > 0)

\* Every step of the proxy uses the allocator as its interface allows.
UsesAllocator == AllocatorSpec
-----------------------------------------------------------------------------
\* The inductive invariant behind ServingPortIsHeld and GrantsDoNotCollide: which
\* sockets a handler has at which of its steps, and that its list of addresses
\* has no conflict in it.
ProxyTypeOK ==
    /\ bind_addrs \in Seq(Addresses)
    /\ pc \in [Tasks -> {"idle", "subject", "allocating", "granting", "refusing", "binding",
                         "unbinding", "serving", "closing", "answering", "done"}]
    /\ listener \in [Tasks -> {"none", "running", "stopping", "ok", "failed"}]
    /\ sockets \in [Tasks -> SUBSET (Addresses \X AllPorts)]
    /\ conns \in [Tasks -> Nat]

Bound(t, k) == {<<bind_addrs[i], port[t]>> : i \in 1 .. k}

HandlerInv(t) ==
    /\ pc[t] \in {"idle", "subject", "allocating", "granting", "refusing", "binding",
                  "unbinding"} => listener[t] = "none"
    /\ pc[t] \in {"serving", "closing"} => listener[t] # "none"
    /\ pc[t] = "answering" => listener[t] = "ok"
    /\ pc[t] \in {"granting", "binding", "unbinding", "serving", "closing"} => port[t] # NoPort
    /\ listener[t] # "running" /\ pc[t] # "binding" => sockets[t] = {}
    /\ pc[t] = "binding" => \E k \in 0 .. Len(bind_addrs) :
          sockets[t] = Bound(t, k) /\ IsFiniteSet(sockets[t]) /\ Cardinality(sockets[t]) = k
    /\ conns[t] > 0 => listener[t] \in {"running", "stopping"}
    /\ pc[t] # "done" => \A s \in sockets[t] : port[t] = s[2]
    /\ pc[t] = "done" /\ t \in tunnel => sockets[t] = {}

ProxyInv ==
    /\ AllocatorInv
    /\ ProxyTypeOK
    /\ \A i, j \in 1 .. Len(bind_addrs) : i # j => ~Conflict(bind_addrs[i], bind_addrs[j])
    /\ \A t \in Tasks : HandlerInv(t)
=============================================================================
