------------------------------ MODULE Daemon -------------------------------
(***************************************************************************)
(* The tunnel lifecycle of ModularDaemon (daemon/mod.rs): every tunnel is  *)
(* accepted, authenticated, registered under its name, tracked as a peer,  *)
(* served, and, once the last clone of its RAII wrapper is dropped,        *)
(* deregistered by a background task; a tunnel that is never registered is *)
(* closed by another drop callback instead.                                *)
(*                                                                         *)
(* A tunnel is worked on by several tasks at once: its lifecycle future,   *)
(* the spawned authentication, the blocking call of the registry, the      *)
(* requests it serves, tasks its services leave behind, closing tasks and  *)
(* the deregistration.  A step is what one of them does between two await  *)
(* points, finer where it touches the peer tables (PeerTracker).           *)
(*                                                                         *)
(* The tunnel registry is the in-memory one (registry/memory.rs).          *)
(***************************************************************************)
EXTENDS PeerTracker, Sequences

CONSTANTS
    Requests,       \* the requests a tunnel may have in flight at once
    Cancellable,    \* tunnels whose lifecycle future may be dropped half-way
    FlakyRegistry,  \* whether registry calls and record construction may fail
    Nobody          \* the registry's empty entry

ASSUME DaemonAssumption ==
    /\ Cancellable \subseteq Tunnels
    /\ FlakyRegistry \in BOOLEAN
    /\ Nobody \notin Tunnels

VARIABLES
    pc,             \* the lifecycle future of a tunnel
    outcome,        \* the Result it ended with
    auth,           \* the spawned authentication task
    registering,    \* the registry's blocking register call
    registry,       \* name -> the tunnel whose record is registered
    callback,       \* the drop callback armed in the tunnel's WrappedTunnel
    deregistration, \* the task that callback spawns for a registered tunnel
    request,        \* the incoming requests of the tunnel
    retained,       \* tunnels of which some service's own task holds a clone
    closing,        \* the reasons of the spawned TunnelControl::close calls
    lost,           \* tunnels whose connection has failed
    close_reason,   \* TunnelCloseReason of the tunnel
    closed,         \* tunnels marked closed
    events,         \* the daemon events sent about the tunnel, in order
    shutdown        \* the shutdown listener has been cancelled

lifecycleVars == <<pc, outcome, auth, registering, registry>>
dropVars == <<callback, deregistration, closing>>
serviceVars == <<request, retained>>
tunnelVars == <<lost, close_reason, closed>>
daemonVars == <<lifecycleVars, dropVars, serviceVars, tunnelVars, events, shutdown>>
vars == <<trackerVars, daemonVars>>

\* Where a lifecycle future can be suspended; "tracking" is inside one poll.
Awaiting == {"authenticating", "constructing", "registering", "reporting",
             "downlink", "serving", "draining"}
Running == Awaiting \union {"tracking"}

Reasons == {"AuthenticationFailure", "ApplicationErrorMessage", "GracefulExit", "Error"}

DaemonTypeOK ==
    /\ TrackerTypeOK
    /\ pc \in [Tunnels -> Running \union {"source", "ended", "over"}]
    /\ outcome \in [Tunnels -> {"none", "ok", "refused", "error", "cancelled"}]
    /\ auth \in [Tunnels -> {"none", "running", "ok", "refused", "error"}]
    /\ registering \in [Tunnels -> {"none", "pending", "done", "failed"}]
    /\ registry \in [Names -> Tunnels \union {Nobody}]
    /\ callback \in [Tunnels -> {"none", "failure_closing", "deregistering", "spent"}]
    /\ deregistration \in [Tunnels -> {"none", "spawned", "clearing", "done", "failed"}]
    /\ request \in [Tunnels -> [Requests -> {"idle", "negotiating", "handling"}]]
    /\ retained \in SUBSET Tunnels
    /\ closing \in [Tunnels -> SUBSET Reasons]
    /\ lost \in SUBSET Tunnels
    /\ close_reason \in [Tunnels -> Reasons \union {"Unspecified"}]
    /\ closed \in SUBSET Tunnels
    /\ events \in [Tunnels -> Seq({"connected", "authenticated", "disconnected"})]
    /\ shutdown \in BOOLEAN

Init ==
    /\ TrackerInit
    /\ pc = [t \in Tunnels |-> "source"]
    /\ outcome = [t \in Tunnels |-> "none"]
    /\ auth = [t \in Tunnels |-> "none"]
    /\ registering = [t \in Tunnels |-> "none"]
    /\ registry = [n \in Names |-> Nobody]
    /\ callback = [t \in Tunnels |-> "none"]
    /\ deregistration = [t \in Tunnels |-> "none"]
    /\ request = [t \in Tunnels |-> [r \in Requests |-> "idle"]]
    /\ retained = {}
    /\ closing = [t \in Tunnels |-> {}]
    /\ lost = {}
    /\ close_reason = [t \in Tunnels |-> "Unspecified"]
    /\ closed = {}
    /\ events = [t \in Tunnels |-> <<>>]
    /\ shutdown = FALSE
-----------------------------------------------------------------------------
(***************************************************************************)
(* WrappedTunnel and its Dropkick.                                         *)
(***************************************************************************)
\* Some clone of the tunnel's WrappedTunnel is alive.
Wrapped(t) == pc[t] \in Running \/ auth[t] = "running" \/ t \in retained

\* The strong PeerRecord: a local of register_tunnel, then of the callback,
\* then of the task that runs it until the tables are cleared.
RecordAlive(t) ==
    \/ pc[t] \in {"tracking", "reporting"}
    \/ callback[t] = "deregistering"
    \/ deregistration[t] \in {"spawned", "clearing"} /\ phase[t] # "cleared"

\* Faulty variant: clones held outside the lifecycle are not counted.
RunDropCallbackEarly(t) ==
    IF pc'[t] \in Running
    THEN UNCHANGED dropVars
    ELSE /\ callback' = [callback EXCEPT ![t] = "spent"]
         /\ deregistration' = IF callback[t] = "deregistering"
                              THEN [deregistration EXCEPT ![t] = "spawned"]
                              ELSE deregistration
         /\ UNCHANGED closing

\* Faulty variant: the callback is not taken out of its Option when it runs.
RunDropCallbackAgain(t) ==
    /\ deregistration' = IF callback[t] = "deregistering" /\ pc'[t] \notin Running
                         THEN [deregistration EXCEPT ![t] = "spawned"]
                         ELSE deregistration
    /\ UNCHANGED <<callback, closing>>

\* The two callbacks, each of which spawns a task.
RegistrationFailureClosing(t) == [closing EXCEPT ![t] = @ \union {"AuthenticationFailure"}]
DeregistrationDropkick(t) == [deregistration EXCEPT ![t] = "spawned"]

\* The last clone is gone: Dropkick takes the callback and runs it.
RunDropCallback(t) ==
    IF Wrapped(t)'
    THEN UNCHANGED dropVars
    ELSE /\ callback' = [callback EXCEPT ![t] = "spent"]
         /\ closing' = IF callback[t] = "failure_closing"
                       THEN RegistrationFailureClosing(t) ELSE closing
         /\ deregistration' = IF callback[t] = "deregistering"
                              THEN DeregistrationDropkick(t) ELSE deregistration

\* The lifecycle moves on within its future, which keeps its wrapper.
Proceed(t, from, to) ==
    /\ pc[t] = from
    /\ pc' = [pc EXCEPT ![t] = to]
    /\ UNCHANGED outcome

\* The lifecycle returns: the requests in flight and the wrapper are dropped.
Return(t, result) ==
    /\ pc' = [pc EXCEPT ![t] = "ended"]
    /\ outcome' = [outcome EXCEPT ![t] = result]
    /\ request' = [request EXCEPT ![t] = [r \in Requests |-> "idle"]]
    /\ UNCHANGED retained
    /\ RunDropCallback(t)

Send(t, event) == events' = [events EXCEPT ![t] = Append(@, event)]
-----------------------------------------------------------------------------
(***************************************************************************)
(* run, tunnel_lifecycle and authenticate_tunnel.                          *)
(***************************************************************************)
\* The first poll of tunnel_lifecycle, up to the spawned authentication.
StartLifecycle(t) ==
    /\ callback' = [callback EXCEPT ![t] = "failure_closing"]
    /\ Send(t, "connected")
    /\ auth' = [auth EXCEPT ![t] = "running"]

\* The source yields the tunnel, unless the shutdown comes first.
Accept(t) ==
    /\ ~shutdown
    /\ Proceed(t, "source", "authenticating")
    /\ StartLifecycle(t)
    /\ UNCHANGED <<trackerVars, registering, registry, deregistration, closing,
                   serviceVars, tunnelVars, shutdown>>

\* The authentication task ends and drops its own clone of the wrapper.
AuthenticationTaskEnds(t, result) ==
    /\ auth[t] = "running"
    /\ auth' = [auth EXCEPT ![t] = result]
    /\ UNCHANGED <<trackerVars, pc, outcome, registering, registry,
                   serviceVars, tunnelVars, events, shutdown>>
    /\ RunDropCallback(t)

\* Faulty variant: the task's result is not looked at.
AuthenticatedUnchecked(t) ==
    /\ auth[t] # "running"
    /\ Proceed(t, "authenticating", "constructing")
    /\ UNCHANGED <<trackerVars, auth, registering, registry, dropVars,
                   serviceVars, tunnelVars, events, shutdown>>

Authenticated(t) ==
    /\ auth[t] = "ok"
    /\ Proceed(t, "authenticating", "constructing")
    /\ UNCHANGED <<trackerVars, auth, registering, registry, dropVars,
                   serviceVars, tunnelVars, events, shutdown>>

AuthenticationFails(t) ==
    /\ pc[t] = "authenticating"
    /\ auth[t] \in {"refused", "error"}
    /\ UNCHANGED <<trackerVars, auth, registering, registry, tunnelVars, events, shutdown>>
    /\ Return(t, auth[t])

(***************************************************************************)
(* register_tunnel, with InMemoryTunnelRegistry::register.                 *)
(***************************************************************************)
\* The record is constructed and the registry's blocking call is spawned.
RecordConstructed(t) ==
    /\ Proceed(t, "constructing", "registering")
    /\ registering' = [registering EXCEPT ![t] = "pending"]
    /\ UNCHANGED <<trackerVars, auth, registry, dropVars, serviceVars,
                   tunnelVars, events, shutdown>>

\* The blocking call runs whether or not its caller still awaits it.
RegistryRegister(t) ==
    /\ registering[t] = "pending"
    /\ registering' = [registering EXCEPT ![t] = "done"]
    /\ registry' = [registry EXCEPT ![NameOf[t]] = t]
    /\ UNCHANGED <<trackerVars, pc, outcome, auth, dropVars, serviceVars,
                   tunnelVars, events, shutdown>>

RegistryRegisterFails(t) ==
    /\ FlakyRegistry
    /\ registering[t] = "pending"
    /\ registering' = [registering EXCEPT ![t] = "failed"]
    /\ UNCHANGED <<trackerVars, pc, outcome, auth, registry, dropVars, serviceVars,
                   tunnelVars, events, shutdown>>

\* construct_record or register has returned an error.
ConstructionFails(t) ==
    /\ FlakyRegistry
    /\ pc[t] = "constructing"
    /\ UNCHANGED <<trackerVars, auth, registering, registry, tunnelVars, events, shutdown>>
    /\ Return(t, "error")

RegistrationFails(t) ==
    /\ pc[t] = "registering"
    /\ registering[t] = "failed"
    /\ UNCHANGED <<trackerVars, auth, registering, registry, tunnelVars, events, shutdown>>
    /\ Return(t, "error")

\* peers.insert, in its two statements.
TrackById(t) ==
    /\ registering[t] = "done"
    /\ Proceed(t, "registering", "tracking")
    /\ InsertById(t)
    /\ UNCHANGED <<auth, registering, registry, dropVars, serviceVars,
                   tunnelVars, events, shutdown>>

TrackByName(t) ==
    /\ Proceed(t, "tracking", "reporting")
    /\ InsertByName(t)
    /\ UNCHANGED <<auth, registering, registry, dropVars, serviceVars,
                   tunnelVars, events, shutdown>>

\* Faulty variant: the failure callback is dropped without being countered.
ReportAuthenticationUncountered(t) ==
    /\ Proceed(t, "reporting", "downlink")
    /\ Send(t, "authenticated")
    /\ callback' = [callback EXCEPT ![t] = "deregistering"]
    /\ closing' = [closing EXCEPT ![t] = @ \union {"AuthenticationFailure"}]
    /\ UNCHANGED <<trackerVars, auth, registering, registry, deregistration,
                   serviceVars, tunnelVars, shutdown>>

\* Faulty variant: whether the tunnel is closed is not looked at.
ReportAuthenticationOfClosed(t) ==
    /\ Proceed(t, "reporting", "downlink")
    /\ Send(t, "authenticated")
    /\ callback' = [callback EXCEPT ![t] = "deregistering"]
    /\ UNCHANGED <<trackerVars, auth, registering, registry, deregistration, closing,
                   serviceVars, tunnelVars, shutdown>>

\* Faulty variant: a closed tunnel is given up before the callbacks are exchanged.
ReportAuthenticationOrReturn(t) ==
    \/ t \notin closed /\ ReportAuthenticationOfClosed(t)
    \/ /\ t \in closed /\ pc[t] = "reporting"
       /\ UNCHANGED <<trackerVars, auth, registering, registry, tunnelVars, events, shutdown>>
       /\ Return(t, "error")

\* report_authentication_success, then the exchange of the drop callbacks.
ReportAuthentication(t) ==
    /\ Proceed(t, "reporting", "downlink")
    /\ IF t \in closed THEN UNCHANGED events ELSE Send(t, "authenticated")
    /\ callback' = [callback EXCEPT ![t] = "deregistering"]
    /\ UNCHANGED <<trackerVars, auth, registering, registry, deregistration, closing,
                   serviceVars, tunnelVars, shutdown>>

(***************************************************************************)
(* registered_tunnel_lifecycle and the handlers of incoming requests.      *)
(***************************************************************************)
OpenDownlink(t) ==
    /\ t \notin closed
    /\ Proceed(t, "downlink", "serving")
    /\ UNCHANGED <<trackerVars, auth, registering, registry, dropVars, serviceVars,
                   tunnelVars, events, shutdown>>

DownlinkClosed(t) ==
    /\ pc[t] = "downlink"
    /\ t \in closed
    /\ UNCHANGED <<trackerVars, auth, registering, registry, tunnelVars, events, shutdown>>
    /\ Return(t, "error")

\* What a step of the request r leaves alone.
RequestStep(t, r, from, to) ==
    /\ request[t][r] = from
    /\ request' = [request EXCEPT ![t][r] = to]
    /\ UNCHANGED <<trackerVars, lifecycleVars, dropVars, retained, tunnelVars,
                   events, shutdown>>

\* take_until polls the shutdown listener, and the tunnel its own token, first.
IncomingRequest(t, r) ==
    /\ pc[t] = "serving"
    /\ ~shutdown /\ t \notin closed
    /\ RequestStep(t, r, "idle", "negotiating")

NegotiationRefused(t, r) == RequestStep(t, r, "negotiating", "idle")

\* A request negotiated after the shutdown request is dropped unserved.
Negotiated(t, r) ==
    RequestStep(t, r, "negotiating", IF shutdown THEN "idle" ELSE "handling")

HandlerReturns(t, r) == RequestStep(t, r, "handling", "idle")

\* UnsupportedProtocolVersion and FatalError end the whole lifecycle.
NegotiationFatal(t, r) ==
    /\ request[t][r] = "negotiating"
    /\ UNCHANGED <<trackerVars, auth, registering, registry, tunnelVars, events, shutdown>>
    /\ Return(t, "error")

\* A service hands its clone of the tunnel to a task of its own, which ends later.
ServiceRetains(t) ==
    /\ \E r \in Requests : request[t][r] = "handling"
    /\ retained' = retained \union {t}
    /\ UNCHANGED <<trackerVars, lifecycleVars, dropVars, request, tunnelVars,
                   events, shutdown>>

ServiceReleases(t) ==
    /\ t \in retained
    /\ retained' = retained \ {t}
    /\ UNCHANGED <<trackerVars, lifecycleVars, request, tunnelVars, events, shutdown>>
    /\ RunDropCallback(t)

\* Faulty variant: the stream of requests does not listen to the shutdown.
IncomingEndsOnClose(t) ==
    /\ t \in closed
    /\ Proceed(t, "serving", "draining")
    /\ UNCHANGED <<trackerVars, auth, registering, registry, dropVars, serviceVars,
                   tunnelVars, events, shutdown>>

\* The incoming stream ends: what is in flight is waited for.
IncomingEnds(t) ==
    /\ shutdown \/ t \in closed
    /\ Proceed(t, "serving", "draining")
    /\ UNCHANGED <<trackerVars, auth, registering, registry, dropVars, serviceVars,
                   tunnelVars, events, shutdown>>

\* Faulty variant: a failed connection is not noticed.
IncomingFailsOnClose(t) ==
    /\ pc[t] = "serving"
    /\ ~shutdown
    /\ t \in closed
    /\ UNCHANGED <<trackerVars, auth, registering, registry, tunnelVars, events, shutdown>>
    /\ Return(t, "error")

\* The incoming stream fails: what is in flight is dropped.
IncomingFails(t) ==
    /\ pc[t] = "serving"
    /\ ~shutdown
    /\ t \in lost \union closed
    /\ UNCHANGED <<trackerVars, auth, registering, registry, tunnelVars, events, shutdown>>
    /\ Return(t, "error")

Drained(t) ==
    /\ pc[t] = "draining"
    /\ \A r \in Requests : request[t][r] = "idle"
    /\ UNCHANGED <<trackerVars, auth, registering, registry, tunnelVars, events, shutdown>>
    /\ Return(t, "ok")

(***************************************************************************)
(* After the lifecycle: run's match on its result, and the spawned tasks.  *)
(***************************************************************************)
CloseReasonFor(result) ==
    IF result = "refused" THEN "AuthenticationFailure"
    ELSE IF result = "ok" THEN "GracefulExit"
    ELSE "ApplicationErrorMessage"

\* Faulty variant: the result is logged, the tunnel left open.
LeaveOpenAfterLifecycle(t) ==
    /\ pc[t] = "ended"
    /\ pc' = [pc EXCEPT ![t] = "over"]
    /\ UNCHANGED <<trackerVars, outcome, auth, registering, registry, dropVars,
                   serviceVars, tunnelVars, events, shutdown>>

(***************************************************************************)
(* run holds the tunnel weakly: it closes it if it can still be upgraded.  *)
(* A strong reference is certain while a wrapper, a closing task or the    *)
(* peer record lives; readers of events and of the PeersView may hold      *)
(* others.  Without any the tunnel is dropped, its connection with it.     *)
(***************************************************************************)
CloseAfterLifecycle(t) ==
    /\ pc[t] = "ended"
    /\ pc' = [pc EXCEPT ![t] = "over"]
    /\ \/ /\ closing' = [closing EXCEPT ![t] = @ \union {CloseReasonFor(outcome[t])}]
          /\ UNCHANGED lost
       \/ /\ ~Wrapped(t) /\ closing[t] = {} /\ ~RecordAlive(t)
          /\ lost' = lost \union {t}
          /\ UNCHANGED closing
    /\ UNCHANGED <<trackerVars, outcome, auth, registering, registry, callback,
                   deregistration, serviceVars, close_reason, closed, events, shutdown>>

(***************************************************************************)
(* The lifecycle future is dropped at an await: the task run returned is   *)
(* aborted, or a handler of another tunnel of that task panics.            *)
(***************************************************************************)
Cancel(t) ==
    /\ t \in Cancellable
    /\ pc[t] \in Awaiting
    /\ pc' = [pc EXCEPT ![t] = "over"]
    /\ outcome' = [outcome EXCEPT ![t] = "cancelled"]
    /\ request' = [request EXCEPT ![t] = [r \in Requests |-> "idle"]]
    /\ UNCHANGED <<trackerVars, auth, registering, registry, retained, tunnelVars,
                   events, shutdown>>
    /\ RunDropCallback(t)

\* TunnelControl::close: the first specified reason is kept.
Close(t, reason) ==
    /\ reason \in closing[t]
    /\ closing' = [closing EXCEPT ![t] = @ \ {reason}]
    /\ close_reason' = [close_reason EXCEPT ![t] = IF @ = "Unspecified" THEN reason ELSE @]
    /\ closed' = closed \union {t}
    /\ UNCHANGED <<trackerVars, lifecycleVars, callback, deregistration, serviceVars,
                   lost, events, shutdown>>

\* DeregisteringTunnelWrapper::deregister_identifier: the event is sent first,
SendDisconnected(t) ==
    /\ deregistration[t] = "spawned"
    /\ deregistration' = [deregistration EXCEPT ![t] = "clearing"]
    /\ Send(t, "disconnected")
    /\ UNCHANGED <<trackerVars, lifecycleVars, callback, closing, serviceVars,
                   tunnelVars, shutdown>>

\* then a blocking thread clears the peer tables,
ClearPeer(t) ==
    /\ deregistration[t] = "clearing"
    /\ ClearStep(t)
    /\ UNCHANGED daemonVars

\* Faulty variant: the registry call is forgotten.
RegistryDeregisterForgotten(t) ==
    /\ deregistration[t] = "clearing"
    /\ phase[t] = "cleared"
    /\ deregistration' = [deregistration EXCEPT ![t] = "done"]
    /\ UNCHANGED <<trackerVars, lifecycleVars, callback, closing,
                   serviceVars, tunnelVars, events, shutdown>>

\* then the registry is called; the identifier it was given is the name.
RegistryDeregister(t) ==
    /\ deregistration[t] = "clearing"
    /\ phase[t] = "cleared"
    /\ deregistration' = [deregistration EXCEPT ![t] = "done"]
    /\ registry' = [registry EXCEPT ![NameOf[t]] = Nobody]
    /\ UNCHANGED <<trackerVars, pc, outcome, auth, registering, callback, closing,
                   serviceVars, tunnelVars, events, shutdown>>

\* A failed call is logged, and the registration stays.
RegistryDeregisterFails(t) ==
    /\ FlakyRegistry
    /\ deregistration[t] = "clearing"
    /\ phase[t] = "cleared"
    /\ deregistration' = [deregistration EXCEPT ![t] = "failed"]
    /\ UNCHANGED <<trackerVars, lifecycleVars, callback, closing, serviceVars,
                   tunnelVars, events, shutdown>>

\* The connection fails.
LoseConnection(t) ==
    /\ pc[t] # "source"
    /\ t \notin lost
    /\ lost' = lost \union {t}
    /\ UNCHANGED <<trackerVars, lifecycleVars, dropVars, serviceVars, close_reason,
                   closed, events, shutdown>>

\* An accept on a dead connection fails: it stores its own reason, whatever
\* was stored before, and cancels the incoming token, which closes the tunnel.
AcceptFails(t) ==
    /\ t \in lost \union closed
    /\ closed' = closed \union {t}
    /\ close_reason' = [close_reason EXCEPT ![t] = "Error"]
    /\ UNCHANGED <<trackerVars, lifecycleVars, dropVars, serviceVars, lost, events, shutdown>>

\* A failing open_link stores its reason as well, and closes only the uplink.
OpenFails(t) ==
    /\ t \in lost \union closed
    /\ close_reason' = [close_reason EXCEPT ![t] = "Error"]
    /\ UNCHANGED <<trackerVars, lifecycleVars, dropVars, serviceVars, lost, closed,
                   events, shutdown>>

Shutdown ==
    /\ ~shutdown
    /\ shutdown' = TRUE
    /\ UNCHANGED <<trackerVars, lifecycleVars, dropVars, serviceVars, tunnelVars, events>>
-----------------------------------------------------------------------------
\* The lifecycle future of a tunnel.
LifecycleStep(t) ==
    \/ Authenticated(t) \/ AuthenticationFails(t)
    \/ RecordConstructed(t) \/ ConstructionFails(t) \/ RegistrationFails(t)
    \/ TrackById(t) \/ TrackByName(t) \/ ReportAuthentication(t)
    \/ OpenDownlink(t) \/ DownlinkClosed(t)
    \/ IncomingEnds(t) \/ IncomingFails(t) \/ Drained(t)
    \/ CloseAfterLifecycle(t)

\* Tasks that need no one else: registry calls, closing, deregistration.
BackgroundStep(t) ==
    \/ RegistryRegister(t) \/ RegistryRegisterFails(t)
    \/ SendDisconnected(t) \/ ClearPeer(t)
    \/ RegistryDeregister(t) \/ RegistryDeregisterFails(t)

\* The peer's turn, and the code supplied by the application.
NegotiationStep(t, r) ==
    NegotiationRefused(t, r) \/ Negotiated(t, r) \/ NegotiationFatal(t, r)

AuthenticationStep(t) ==
    \E result \in {"ok", "refused", "error"} : AuthenticationTaskEnds(t, result)

Next ==
    \/ Shutdown
    \/ \E t \in Tunnels :
          \/ Accept(t) \/ LifecycleStep(t) \/ BackgroundStep(t)
          \/ AuthenticationStep(t)
          \/ \E reason \in Reasons : Close(t, reason)
          \/ \E r \in Requests :
                IncomingRequest(t, r) \/ NegotiationStep(t, r) \/ HandlerReturns(t, r)
          \/ ServiceRetains(t) \/ ServiceReleases(t)
          \/ LoseConnection(t) \/ AcceptFails(t) \/ OpenFails(t) \/ Cancel(t)

Safety == Init /\ [][Next]_vars

(***************************************************************************)
(* The runtime keeps polling every task that can go on.  Authentication    *)
(* handlers, peers and services may stall for ever as long as the          *)
(* connection is up; their reads and writes fail once it is gone.          *)
(***************************************************************************)
Gone(t) == t \in lost \union closed

Fairness ==
    \A t \in Tunnels :
        /\ WF_vars(LifecycleStep(t))
        /\ WF_vars(BackgroundStep(t))
        /\ WF_vars(\E reason \in Reasons : Close(t, reason))
        /\ WF_vars(Gone(t) /\ AuthenticationStep(t))
        /\ WF_vars(Gone(t) /\ ServiceReleases(t))
        /\ \A r \in Requests :
              WF_vars(Gone(t) /\ (NegotiationStep(t, r) \/ HandlerReturns(t, r)))

Spec == Safety /\ Fairness
-----------------------------------------------------------------------------
\* PeersView: a record is returned if the table leads to it and it is alive.
GetById(t) == t \in by_id /\ RecordAlive(t)
GetByName(n) == {t \in Lookup(n) : RecordAlive(t)}

(***************************************************************************)
(* A tunnel that has not passed authentication is in no table, not in the  *)
(* registry, and has no request (CHANGELOG.md:41-42 "Tunnels which fail    *)
(* authentication are never considered registered, and thus never enter    *)
(* the registry or process requests"; 74-75 for the peer tracker).         *)
(***************************************************************************)
OnlyAuthenticatedIsRegistered ==
    \A t \in Tunnels :
        \/ t \in by_id \/ t \in Lookup(NameOf[t]) \/ registry[NameOf[t]] = t
        \/ \E r \in Requests : request[t][r] # "idle"
        => auth[t] = "ok"

(***************************************************************************)
(* As long as a registered tunnel is served, or a service's task holds it, *)
(* the PeersView finds it by id and by name, whatever other tunnels of its *)
(* name do (daemon/mod.rs:1192 against 258-275).                           *)
(***************************************************************************)
ServedTunnelIsFound ==
    \A t \in Tunnels :
        pc[t] \in {"downlink", "serving", "draining"} \/ t \in retained
            => GetById(t) /\ t \in GetByName(NameOf[t])

(***************************************************************************)
(* Deregistration, and with it the disconnected event, starts only when no *)
(* clone of the wrapper is left: no request is in flight and no service    *)
(* task holds the tunnel (daemon/mod.rs:1020 "The tunnel is dropped by     *)
(* this point, and will be automatically deregistered").                   *)
(***************************************************************************)
DeregisteredOnlyWhenReleased ==
    \A t \in Tunnels :
        deregistration[t] # "none"
            => /\ ~Wrapped(t)
               /\ \A r \in Requests : request[t][r] = "idle"

(***************************************************************************)
(* The events of a tunnel are sent once each and in order; disconnected    *)
(* comes with the deregistration, and with nothing else.  A tunnel that is *)
(* found closed is not announced as authenticated any more, neither when   *)
(* its registration ends nor later (daemon/mod.rs:955, 1195-1206, 250-254).*)
(***************************************************************************)
EventOrder ==
    /\ [](\A t \in Tunnels :
            \/ /\ events[t] \in {<<>>, <<"connected">>, <<"connected", "authenticated">>}
               /\ deregistration[t] \in {"none", "spawned"}
            \/ /\ events[t] \in {<<"connected", "disconnected">>,
                                 <<"connected", "authenticated", "disconnected">>}
               /\ deregistration[t] \in {"clearing", "done", "failed"})
    /\ [][\A t \in closed : events'[t] # Append(events[t], "authenticated")]_vars

(***************************************************************************)
(* The failure callback and run's own close race, but a tunnel that has a  *)
(* deregistration is never reported as failing authentication, and only    *)
(* one whose lifecycle succeeded as exiting gracefully.  A lifecycle       *)
(* dropped between the registry's answer and the exchange of the callbacks *)
(* is reported as failing authentication, although it did not (daemon/     *)
(* mod.rs:840-873, 334-346, 1209 extract_inner).                           *)
(***************************************************************************)
CloseReasonMatchesOutcome ==
    \A t \in Tunnels :
        /\ close_reason[t] = "GracefulExit" => outcome[t] = "ok"
        /\ close_reason[t] = "AuthenticationFailure" =>
              /\ outcome[t] \in {"refused", "error", "cancelled"}
              /\ deregistration[t] = "none"

\* The lifecycle was dropped before the callbacks were exchanged: nothing will
\* deregister the tunnel.
DroppedHalfWay(t) ==
    outcome[t] = "cancelled" /\ callback[t] = "spent" /\ deregistration[t] = "none"

(***************************************************************************)
(* A record outlives its tunnel in the registry for two reasons only: the  *)
(* lifecycle was dropped before the callbacks were exchanged, or the       *)
(* registry's own deregister failed (daemon/mod.rs:1170-1212, 276-283).    *)
(* Every other path, with whatever fails on it, leads to a deregistration. *)
(***************************************************************************)
StaleOnlyAfterFault ==
    \A n \in Names : \A t \in Tunnels :
        registry[n] = t =>
            \/ Wrapped(t) \/ deregistration[t] \in {"spawned", "clearing"}
            \/ DroppedHalfWay(t)
            \/ deregistration[t] = "failed"

(***************************************************************************)
(* The registry holds no record of a tunnel that nothing will deregister   *)
(* any more (CHANGELOG.md:86-87 "ensuring that the daemon does not miss a  *)
(* path").  A lifecycle that is dropped half-way misses it.                *)
(***************************************************************************)
NoStaleRegistration ==
    \A n \in Names : \A t \in Tunnels :
        registry[n] = t => Wrapped(t) \/ deregistration[t] \in {"spawned", "clearing"}

(***************************************************************************)
(* Why these hold, tunnel by tunnel: the armed callback says how far the   *)
(* tunnel came, and with it which of its tasks may exist, where its record *)
(* is in the peer tables, and which events have been sent.                 *)
(***************************************************************************)
Served == {"downlink", "serving", "draining"}

TunnelInv(t) ==
    /\ pc[t] = "source" <=> callback[t] = "none"
    /\ pc[t] \in Running \ Served => callback[t] = "failure_closing"
    /\ callback[t] = "failure_closing" => Wrapped(t)
    /\ callback[t] = "deregistering" <=> pc[t] \in Served \/ t \in retained
    /\ deregistration[t] # "none" => callback[t] = "spent"
    /\ callback[t] = "spent" => ~Wrapped(t)
    /\ auth[t] = "running" => pc[t] \in {"authenticating", "over"} /\ callback[t] = "failure_closing"
    /\ pc[t] \in {"constructing", "registering", "tracking", "reporting"} => auth[t] = "ok"
    /\ pc[t] = "over" /\ callback[t] = "failure_closing" => registering[t] = "none"
    /\ registering[t] # "none" => auth[t] = "ok"
    /\ pc[t] \in {"source", "authenticating", "constructing"} => registering[t] = "none"
    /\ registering[t] # "done" \/ pc[t] = "registering" => phase[t] = "untracked"
    /\ pc[t] = "tracking" <=> phase[t] = "by_id_inserted"
    /\ pc[t] = "reporting" \/ callback[t] = "deregistering" \/ deregistration[t] = "spawned"
          => phase[t] = "tracked"
    /\ deregistration[t] = "none" => phase[t] \in {"untracked", "by_id_inserted", "tracked"}
    /\ (\E r \in Requests : request[t][r] # "idle") => pc[t] \in {"serving", "draining"}
    /\ callback[t] = "none" => events[t] = <<>>
    /\ callback[t] = "failure_closing" => events[t] = <<"connected">>
    /\ callback[t] = "deregistering" \/ (callback[t] = "spent" /\ deregistration[t] \in {"none", "spawned"})
          => events[t] \in {<<"connected">>, <<"connected", "authenticated">>}
    /\ deregistration[t] \in {"clearing", "done", "failed"}
          => events[t] \in {<<"connected", "disconnected">>,
                            <<"connected", "authenticated", "disconnected">>}

\* A record in the registry was put there by its tunnel's own register call.
RegistryInv ==
    \A n \in Names : \A t \in Tunnels : registry[n] = t => registering[t] = "done"

DaemonInv ==
    /\ DaemonTypeOK
    /\ TrackerInv
    /\ \A t \in Tunnels : TunnelInv(t)
    /\ RegistryInv

(***************************************************************************)
(* Why CloseReasonMatchesOutcome holds: a reason that is stored, or that a *)
(* spawned close will store, was chosen after the lifecycle had its        *)
(* result, and a failed authentication only once the callback that would   *)
(* deregister can no longer be armed.                                      *)
(***************************************************************************)
OutcomeInv(t) ==
    /\ outcome[t] = "none" <=> pc[t] \notin {"ended", "over"}
    /\ outcome[t] = "ok" => callback[t] # "failure_closing"
    /\ outcome[t] = "refused" => callback[t] = "spent" /\ deregistration[t] = "none"
    /\ "GracefulExit" \in closing[t] \union {close_reason[t]} => outcome[t] = "ok"
    /\ "AuthenticationFailure" \in closing[t] \union {close_reason[t]} =>
          /\ outcome[t] \in {"refused", "error", "cancelled"}
          /\ callback[t] = "spent" /\ deregistration[t] = "none"

(***************************************************************************)
(* Why StaleOnlyAfterFault holds: a lifecycle waits for its register call, *)
(* and from there on runs, has armed the deregistering callback, has left  *)
(* the record to the task which that callback spawned, or was dropped; the *)
(* task does not succeed without clearing the name.                        *)
(***************************************************************************)
RegisteredInv(t) ==
    /\ registering[t] = "pending" => pc[t] = "registering" \/ DroppedHalfWay(t)
    /\ registering[t] = "done" =>
          \/ pc[t] \in {"registering", "tracking", "reporting"}
          \/ callback[t] = "deregistering"
          \/ deregistration[t] # "none"
          \/ DroppedHalfWay(t)
    /\ \A n \in Names : registry[n] = t => n = NameOf[t] /\ deregistration[t] # "done"

(***************************************************************************)
(* An identifier clears the association it was returned for and no other   *)
(* (registry/mod.rs:26-27 "A value returned that uniquely addresses a      *)
(* registered association, such that it can be cleared without complex     *)
(* queries or lookup").  The in-memory identifier is the name alone        *)
(* (registry/memory.rs:76, 95-100): it clears a later tunnel's record.     *)
(***************************************************************************)
ClearsOwnAssociation ==
    [][\A n \in Names : \A t \in Tunnels :
           registry[n] = t /\ registry'[n] = Nobody => deregistration'[t] = "done"]_vars
-----------------------------------------------------------------------------
(***************************************************************************)
(* A tunnel whose connection fails is forgotten: its lifecycle ends, the   *)
(* tables are cleared, and if it was ever tracked its deregistration is    *)
(* complete (daemon/mod.rs:238-285).                                       *)
(***************************************************************************)
LostTunnelIsForgotten ==
    \A t \in Tunnels :
        t \in lost ~> /\ pc[t] = "over" /\ ~Wrapped(t)
                      /\ \/ phase[t] = "untracked"
                         \/ phase[t] = "cleared" /\ deregistration[t] \in {"done", "failed"}

(***************************************************************************)
(* A tunnel that is closed before it is announced as authenticated is      *)
(* announced as disconnected all the same, once (daemon/mod.rs:1195-1212,  *)
(* 250-254): by then its drop callback is the one that deregisters.        *)
(***************************************************************************)
ClosedWhileRegistering ==
    \A t \in Tunnels :
        pc[t] = "reporting" /\ t \in closed ~> events[t] = <<"connected", "disconnected">>

(***************************************************************************)
(* After a shutdown request a lifecycle runs on only as long as the peer   *)
(* or the application keeps it: in authentication, or in a request that    *)
(* was under way (daemon/mod.rs:822-825, 1046-1047, 1128-1132).            *)
(***************************************************************************)
ShutdownDrains ==
    \A t \in Tunnels :
        shutdown /\ pc[t] # "source" ~>
            \/ pc[t] = "over"
            \/ auth[t] = "running"
            \/ \E r \in Requests : request[t][r] # "idle"

(***************************************************************************)
(* A tunnel whose lifecycle has returned is closed, by the failure         *)
(* callback or by run, or else was already gone (daemon/mod.rs:840-873).   *)
(***************************************************************************)
EndedTunnelIsClosed ==
    \A t \in Tunnels : pc[t] = "ended" ~> Gone(t)
=============================================================================
