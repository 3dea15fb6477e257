# Formal models of snocat

TLA+ modules for the parts of snocat in which tasks, threads, processes and
connections meet: the daemon that runs the life of a tunnel and its table of
peers, the QUIC tunnel, the registries, a link from authentication to the last
byte, the demand proxy with its ports, and the sources tunnels come from. TLC
checks them on small instances; TLAPS proves the main safety results for any
number of tunnels, names, tasks and ports, and any addresses. Paths below are relative to
`src/snocat/src/common/` unless they start with `src/`.

## The system

snocat forwards streams through named QUIC tunnels. A `ModularDaemon` takes
tunnels from a source, authenticates each one, registers it under the name that
authentication gave it, tracks it as a peer, and serves the requests its remote
side opens on it, until the tunnel fails, the peer closes it, or a shutdown is
requested. A request is a stream on which an address is negotiated with a
service: a TCP proxy, which copies bytes to and from a connection, or the demand
proxy, which opens a port for the peer and routes its connections back.

| Part | Source | Modelled by |
|---|---|---|
| Peer tables: `PeerTracker`, `PeersView` | `daemon/mod.rs` 78-277 | `PeerTracker`, `PeerDirectory` |
| Tunnel lifecycle: `run`, `tunnel_lifecycle`, `register_tunnel`, `handle_incoming_requests` | `daemon/mod.rs` 808-1216 | `Daemon` |
| Clean-up on drop: `WrappedTunnel`, `DeregisteringTunnelWrapper`, `Dropkick` | `daemon/mod.rs` 225-365, `src/snocat/src/util/dropkick.rs` | `Daemon` |
| `QuinnTunnel` | `protocol/tunnel/quinn_tunnel.rs` | `QuinnTunnel`; in `Daemon`, its close flag and reason |
| Registries: in memory | `protocol/tunnel/registry/memory.rs` | `Daemon`, `CachedRegistry` |
| Registries: Redis | `protocol/tunnel/registry/redis.rs` | `RedisRegistry` |
| Registries: write-through cache, mapped | `protocol/tunnel/registry/cache.rs`, `mapped.rs` | `CachedRegistry` |
| Authentication and its handlers | `authentication/` | `Link`; in `Daemon`, its outcomes |
| Negotiation, framing of addresses | `protocol/negotiation.rs`, `src/snocat/src/util/framed.rs` | `Link` |
| Addresses, targets, search for a service | `protocol/address.rs`, `protocol/proxy_tcp.rs`, `src/snocat-cli/src/services/mod.rs` | `RouteAddress` |
| TCP proxy and copying | `protocol/proxy_tcp.rs`, `src/snocat/src/util/mod.rs` | `Link` |
| `PortRangeAllocator` | `src/snocat/src/server/mod.rs` | `PortAllocator`, `PortPool` |
| Demand proxy, service and client | `src/snocat-cli/src/services/demand_proxy.rs`, `src/snocat-cli/src/client.rs` | `DemandProxy` |
| Tunnel sources, ids | `tunnel_source/mod.rs`, `protocol/tunnel/id.rs`, `src/snocat-cli/src/server.rs` | `TunnelSources` |
| Duplex tunnel, adaptors, certificates, logging, arguments | see "Not modelled" | no |

`PROJECT.json` lists every part with its status, the source lines of every
definition, and the hazards the models are aimed at.

## The modules

### PeerDirectory: what the peer tables promise

Two plain indexes. A tunnel enters the index by id, then the index by name; it
leaves the index by id, then the index by name; each once, and no step of one
tunnel touches another.

### PeerTracker: how the tables work

`by_name` maps a name to a shared subtable. An insertion runs inside the daemon's
task, and every deregistration on a blocking thread, all in parallel; DashMap
guards are the only locks. One action is what happens under one guard:

| Action | Code |
|---|---|
| `InsertById`, `InsertByName` | `PeerTracker::insert`; `entry()` holds its guard across the insertion into the subtable |
| `RemoveById` | `peers_by_id.remove` |
| `FetchSubtable` | `peers_by_name.get(..).map(Arc::clone)`; the guard ends here |
| `RemoveFromSubtable` | the removal from the fetched subtable, wherever that is by now |
| `RetainVisit`, `RetainEnd` | `peers_by_name.retain`, entry by entry, because the sweep locks one shard at a time |

A subtable is identified by the tunnel whose insertion created it, so a subtable
that was dropped from `by_name` while a thread still holds it is a different one
from its successor. Records are held weakly; `RecordAlive` in `Daemon` says when
one can still be upgraded.

### Daemon: the life of a tunnel

`Daemon` extends `PeerTracker` and drives it. `pc[t]` is where the lifecycle
future of tunnel `t` is suspended. Beside it run, each with a variable of its own,
the spawned authentication (`auth`), the registry's blocking call
(`registering`), the requests (`request`), tasks in which services keep a clone
of the tunnel (`retained`), the spawned `TunnelControl::close` calls (`closing`)
and the deregistration task (`deregistration`).

`Wrapped(t)` says that a clone of the tunnel's `WrappedTunnel` is alive. Every
action that may drop one ends in `RunDropCallback`, which does what `Dropkick`
does when the last clone goes: the armed callback is taken and run. The callback
is first the one that closes a tunnel whose registration failed;
`ReportAuthentication` exchanges it for the one that deregisters.

What the model leaves out: the contents of records and attributes, logging, and
everything the peer sends. What it adds: a connection may be lost at any time; a
lifecycle future may be dropped at an await point (`Cancel`, for the tunnels in
`Cancellable`), as when the task returned by `run` is aborted or a handler polled
in it panics; record construction and registry calls may fail
(`FlakyRegistry`). `AcceptFails` and `OpenFails` overwrite the close reason, as the
two `inspect_err` closures of `QuinnTunnel` do.

### QuinnTunnel: one tunnel and its handles

A step is one atomic operation on what the handles of a tunnel share: the three
cancellation tokens, the `ArcSwap` of the close reason, the lock of the
authenticated name, the stream counter. Callers of `close`, `open_link`,
`report_authentication_success` and `on_authenticated`, the served downlink and the
task that joins the tokens run in parallel; the connection may fail under them
with any `ConnectionError` of `Failures`. `closed`, `incoming_closed` and
`outgoing_closed` are the tokens. `unused_outgoing` is the token the joining task
listens to, which the constructor drops, the tunnel keeping a third child instead.
So the task waits for the downlink only: once that is closed the whole tunnel
closes, open uplink or not; cancellation of the uplink alone closes nothing else.
quinn itself is external.

### RedisRegistry and CachedRegistry: one name, several processes

`RedisRegistry` has one step per Redis command, or per what a task does between
two. A registration has an entry key, found through the name's reference key;
`register` writes the entry and then takes the reference over, whoever held it.
`renewer` is the task that extends both keys and sets a missing entry again,
`dereg` and `unlink` are `deregister_identifier` and `deregister` in progress, and
`owned` is the map that tells an origin which ids are its own. A process may
crash, an identifier be dropped, a key expire or be lost (`losses`).

`CachedRegistry` adds what some origins put in front: the write-through cache over
the in-memory registry, whose blocking calls run at any time before the call
returns, and the mapped registry, which refuses a record it cannot translate
before it calls Redis but after the cache was called. `Below(A)` is a step of
`RedisRegistry` the cache has no part in. `steady` is a history variable for
`HeldIsFound`: the registration that has been held ever since a lookup began.

A cached record may be stale: nothing removes it when another origin takes the
name, and a lookup may fill the cache with a record that was deregistered
meanwhile; a cache also keeps the record of a registration that then failed in
Redis. This is how the code works, and no property denies it: `HeldIsFound` is
about lookups that miss the cache, and makes no promise once the reference has
been deleted, be it by another origin's `deregister` (see `registries_foreign`).

### PortPool, PortAllocator and DemandProxy: the life of a granted port

`PortPool` is the promise: a port is owned by one task at most. `PortAllocator` is
the code: a set behind an asynchronous mutex, and handles whose drop cannot wait
for it, so that a port is then put into `mark_queue`, which the next allocation
empties. The queue is kept as the number of marks of each port, because the
removals it stands for commute. An `allocate` may be abandoned at its await.

`DemandProxy` extends `PortAllocator`. `pc[t]` is where the handler is:
subject, allocation, grant, binding, serving, closing. `listener[t]` is the task
that runs the listeners, which the handler awaits but does not own: when the
daemon drops the handler (`Abandon`), the port's handle goes with it and the
listeners stay. `watcher[t]` is the client, `frames[t]` what it has not read.
`Conflict` says which sockets exclude each other; `HandleDualStackAddrs` is why the
list of a handler has no conflict in itself. A bind may also fail for reasons the
proxy does not know of (another process, the limits of the system), at any address
of the list.

### RouteAddress and Link: one link, from authentication to the last byte

`RouteAddress` has the pure functions: rendering and parsing of addresses with
their escapes, targets of the TCP proxy to and from addresses and text, the
demand proxy's addresses, resolution, and the search for a service. A character
(`Words`) is a separator, an escape, or a word of which nothing but its identity
matters.

`Link` is one tunnel with two sides, each of which runs, in order, the
authentication (`auth`), the negotiation and the service or client (`state`).
What one side writes and the other has not read is `wire`; a dropped stream ends
after what was written, a lost tunnel fails every read and write. The negotiation
is symmetric up to the version, then the opener sends its address and waits for
the verdict. An accepted TCP target is connected and copied both ways; an accepted
demand goes on in `DemandProxy`. Each direction of the copying reads and writes in
separate steps: `taken` and `got` are what has been read from the TCP connection
and from the link, `copied` and `given` what of it has been written on. An error
drops what lies in between, and the peer sees the dropped link end as if it had
been shut down. A version the acceptor does not know ends the
tunnel, as the daemon treats that error as fatal (`CloseOnVersion`).

### TunnelSources: where tunnels come from

Two runs of a daemon share its id generator. One takes connections from a
listening endpoint and awaits their handshakes one after the other, as
`server_main` does; the other polls a `DynamicStreamSet`. A run is a task that is
polled only when it has been woken: `registered` is what will wake the set's task,
which is what was in the set when it was last polled. The endpoint may be closed,
after which what has arrived is still served, or lose its driver, after which
nothing is. The generator's counter does not wrap: 2^64 tunnels are out of reach. `LateAttach` says whether
streams may be attached while that task sleeps.

### Faulty variants

Each operator marked "Faulty variant" is a plausible mistake in the definition
that follows it. It is used by no specification; it is there to show that the
properties notice it (`mutants` in `PROJECT.json`).

## What TLC checks

| Run | Instance | What holds |
|---|---|---|
| `tracker` | 4 tunnels, 3 of one name | no tracked peer is lost (`FoundByName`); the inductive invariant (`TrackerInv`); the tables implement the directory (`DirectorySpec`); a deregistration ends (`ClearingEnds`) and no empty subtable stays (`EmptySubtableGoes`) |
| `daemon` | 2 tunnels of one name, 1 request each, everything may fail | the inductive invariant (`DaemonInv`); authentication before registration (`OnlyAuthenticatedIsRegistered`); a served tunnel is found (`ServedTunnelIsFound`); deregistration after the last clone (`DeregisteredOnlyWhenReleased`); events once and in order, disconnection with every deregistration, and no authentication of a closed tunnel (`EventOrder`); the close reason is that of the outcome (`CloseReasonMatchesOutcome`); a registration goes stale only through a lifecycle dropped half-way or a failed deregistration (`StaleOnlyAfterFault`) |
| `daemon_live` | 1 tunnel, 2 requests, failing registry | a lost tunnel is forgotten (`LostTunnelIsForgotten`); one that closes while it is registered is announced as disconnected and never as authenticated (`ClosedWhileRegistering`); a shutdown drains (`ShutdownDrains`); an ended lifecycle closes its tunnel (`EndedTunnelIsClosed`) |
| `quinn` | 2 closers, an opener and an arrival; or a closer, 2 reporters and 2 listeners | a closure has a reason (`NoticeHasReason`); the count of streams is exact (`StreamsAreCounted`); one close and one authentication succeed (`OneCloserSucceeds`, `OneAuthentication`); lost and dropped tunnels close (`LostTunnelCloses`, `DroppedTunnelCloses`); whoever waits for an authentication is answered (`ListenersAreTold`) |
| `registries` | 2 origins with a registration each, in three setups | a held registration is found (`HeldIsFound`); its entry and its renewal end only through its own process (`HeldEntryStays`); an abandoned entry goes for good (`AbandonedEntryGoes`); a lost one comes back (`LostEntryIsRestored`) |
| `proxy` | 2 clients that reconnect, 1 or 2 ports, the server's bind list | every port is held, queued or free (`NothingLeaks`); the allocator is a pool (`PoolSpec`); a serving handler holds its port (`ServingPortIsHeld`); what a demand still has to bind is in the way of no other (`GrantsDoNotCollide`); a client that left frees its port (`ClosedClientFreesPort`) |
| `link` | both handlers, versions 0 and 1, all classes of targets, small addresses, 2 bytes each way, losses | nothing is used before authentication (`AuthenticationComesFirst`); the address arrives as it was meant (`AddressArrives`); the sides agree (`SidesAgree`); bytes arrive in order, and complete unless the other side reports an error (`PayloadIntact`); services connect within their target (`ConnectsWithinTarget`); everything ends (`Settles`) |
| `sources` | 2 arriving and 2 attached connections, 2 keys | no two tunnels share an id or a connection (`UniqueTunnels`); sources are served (`SourcesAreServed`) |

Bounds. No run checks deadlock, because every system here may come to rest:
tunnels, registrations and connections are used once, except for the clients of
`proxy`, which reconnect.

* Three tunnels of one name are what the races between a fetched subtable, a
  sweep and a new subtable need: one that removes, one whose sweep drops the
  entry, one that creates it anew.
* Two tunnels suffice where lifecycles meet only through the tables and the
  registry's one entry per name. Two requests show that one request's fatal
  error drops another, and that draining waits for both.
* `quinn` splits its callers into two sets, because streams and authentication
  meet only in the tokens, which both sets have a closer for. Its two failures
  are one that the conversion of errors keeps and one that it renames.
* Two origins are enough to take a name over and back. The setups of `registries`
  are renewal and deregistration with one lost key and a Redis without `GETDEL`;
  the cache; and the cache with a record the mapping refuses.
* Two clients and one port show exhaustion and reuse; two ports show that marks
  and grants of different ports do not interfere. One TCP connection at a time
  (`MaxConns`) is enough for the listeners to outlive their handler.
* `link` has every address of at most two segments of at most two characters over
  a separator, an escape and a word; `MaxLength`, 2048 bytes in the code, is 12 so
  that some addresses exceed it.
* `FirstId` is 7 so that an id is not mistaken for an index.

The safety results proved below do not depend on any of these bounds.

Fairness. The runtime polls every task that can go on, so weak fairness is assumed
of each lifecycle, each spawned task, each call that has begun and each started
blocking closure.

* `daemon_live`: nothing is assumed of the application's authentication handlers
  and services or of the peer while the connection is up. Once it is gone their
  reads and writes fail, and they are assumed to end.
* `quinn`: nothing is assumed of a caller before its call, and the downlink is
  polled as long as somebody holds it. `LostTunnelCloses` says so in its premise.
* `registries`: renewal tasks are polled, keys that nobody renews expire, and a
  `register` that has begun goes on. Nothing is assumed of deregistrations.
* `proxy`: besides, the mutex is handed over in the order of the requests for it,
  as Tokio's is, which is strong fairness of each allocation. Nothing makes a TCP
  connection end or a client leave.
* `link`: reads and writes that can go on do; nothing makes a TCP connection send,
  and a timeout is not needed to end. `Settles` takes it that the far end of a TCP
  connection accepts what is written to it: one that stops reading holds its link
  up for as long as it likes.
* `sources`: a handshake ends, because QUIC gives up on it; a woken task is
  polled. The set's task gets strong fairness: a poll that finds the mutex taken
  wakes itself again at once, and whoever holds the mutex releases it.

Four runs end in a counterexample, because the code differs from what is
written about it:

* `daemon_dropped`: the changelog says that encoding deregistration in the
  wrapper type ensures "that the daemon does not miss a path". A future dropped
  between the registry's answer and the exchange of the callbacks
  (`daemon/mod.rs` 1180-1215) leaves a registration that nothing removes.
* `daemon_identifier`: an identifier "uniquely addresses a registered
  association" (`protocol/tunnel/registry/mod.rs` 26-27). In memory it is the
  name alone, so the deregistration of an older tunnel removes the record of a
  newer one.
* `registries_foreign`: `deregister` "is purely for explicit cleanup of those it
  created", and implementations "will generally not allow deletion of an entry
  created by another origin's instances" (`protocol/tunnel/registry/mod.rs` 57-58).
  In Redis it deletes the name's reference before it looks whose it is
  (`protocol/tunnel/registry/redis.rs` 453-454). The holder's entry stays and is
  renewed, but nothing leads to it any more.
* `sources_late`: a stream set "can be updated dynamically, to allow runtime
  addition" (`tunnel_source/mod.rs` 218-219). A stream attached while the polling
  task sleeps does not wake it, and is not served until another one does.
  `sources` shows that, short of the end of the run, nothing else keeps a source
  unserved: there, streams are attached only while the task is awake.

Other places where a comment and the code differ, met while modelling; the models
follow the code:

* `/tcp/<port>` is a target "with an IPv6 preference" (`protocol/proxy_tcp.rs`
  374-375). `try_from`, 294-299, makes it IPv4's loopback address and nothing else,
  and `ConnectsWithinTarget` says so. The arm of the resolution that would try IPv6
  first is reached by no request.
* If a renewal finds its target missing "and no current target exists at the name
  mapping, it will attempt reregistration" (`protocol/tunnel/registry/redis.rs`
  39-40). It restores the lost entry whatever the name refers to by then, and
  extends the reference if there is one; it sets no reference again.
* The joining task is to close the tunnel "if both channels are closed" (`protocol/tunnel/quinn_tunnel.rs`
  154), and waits for the downlink only, as said above.
* A test of the copying says of a stream its peer has closed that "In a networked
  context, this read would error instead of being empty"
  (`src/snocat/src/util/mod.rs` 407-409). A QUIC stream that
  is dropped is finished, so its reader sees an orderly end, and only a writer may
  see an error. `PayloadIntact` therefore allows data that ends early where the other
  side reports an error, and nowhere else.

## What is proved

For all values of the constants that satisfy the named assumptions of their
modules: any sets of tunnels, names and requests with any assignment of names
(`TrackerAssumption`) and any choice of what may fail (`DaemonAssumption`), any
callers of a QUIC tunnel, any origins, registrations and setups
(`RedisAssumption`), any finite port ranges (`AllocatorAssumption`), any bind lists
without repetition (`ProxyAssumption`), any connections (`SourcesAssumption`), any
characters among which are the two special ones and any name server
(`AddressAssumption`), any set-ups of a link (`LinkAssumption`).

* `DaemonProofs`, the peer tables
  * `TrackerCorrect`: `TrackerSpec => []TrackerInv`. `FoundByName` alone is not
    inductive: a removal works on the subtable it fetched earlier, and a sweep may
    have dropped that one. The strengthening says that a subtable holds only
    tunnels of the one name that leads to it, hence that the subtable of a tunnel
    that is still in it cannot have been dropped, hence that a fetched subtable is
    still the live one.
  * `TrackedIsFound`: `FoundByName`, from it.
  * `TrackerImplementsDirectory`: the tables implement `PeerDirectory`; sweeps and
    fetches are stuttering steps.
* `DaemonProofs`, the daemon
  * `DaemonImplementsTracker`: every step of the daemon is a step of `TrackerSpec`
    or leaves the tables alone, so the results above hold of the daemon.
  * `DaemonCorrect`: `Safety => []DaemonInv`. The strengthening `TunnelInv` is
    stated tunnel by tunnel: the armed callback determines how far the tunnel
    came, and with it which of its tasks exist, in which phase its record is, and
    which events were sent. It is what links `Wrapped`, which no single task can
    see, to the tables.
  * `AuthenticationComesFirst`, `ServedIsFound`, `DeregistrationComesLast`,
    `EventsInOrder`: the four safety properties of the same content, from it.
  * `CloseReasonFitsOutcome`: `CloseReasonMatchesOutcome`, with `OutcomeInv`, which
    follows a reason from the outcome that gives rise to it through the spawned
    call of `close` to the tunnel: as long as one such call is on its way, the
    outcome still is the one that began it, and a tunnel closed for a failed
    authentication has no callback left that could deregister it.
  * `RegistrationsAreCleared`: `StaleOnlyAfterFault`, with `RegisteredInv`: whoever has
    been registered is still on the way to the exchange of the callbacks, or has
    the callback that deregisters, or is being deregistered, or was dropped before
    the exchange.

  `DaemonStepInv` puts together one lemma per conjunct of `DaemonInv`: the
  tracker's own step, the types, the registry and the tunnels. `TunnelStep` has
  one step per action: the action's effect on its own tunnel, from which alone
  `TunnelInv` follows, and `Frame` for the tunnels it does not touch. The drop
  callback, which many actions share, is described once by `DropCallbackEffect`.
* `QuinnTunnelProofs`
  * `QuinnCorrect`: `Spec => []QuinnInv`. `NoticeHasReason` needs to know that every
    token that is cancelled, and every step that is about to cancel one, comes
    after a stored reason, and that no step takes a reason away (`ReasonInv`,
    `ReasonStays`). `OneAuthentication` needs the lock: one reporter holds it, and
    finds no name when it does (`LockInv`). The counter needs that a stream is
    opened and dropped one at a time (`StreamStep`, `CountInv`).
  * `NoticeIsExplained`, `CounterIsExact`, `OneCloseGivesReason`,
    `OneNameIsReported`: the four safety properties, from it.
* `CachedRegistryProofs`
  * `RegistryCorrect`: `Spec => []RegistryInv`. It says which registrations may
    still have their entry deleted or expire (`RegistrationInv`), that what an
    origin is about to delete is its own (`UnlinkInv`), and what a lookup in
    progress may rely on (`SteadyInv`). The steps are grouped by what they touch:
    one registration, one origin, or only a lookup.
  * `HeldRegistrationIsFound`, `HeldEntriesStay`: the two action properties, from
    it. The first is stated as long as Redis loses no key, the second of the steps
    in which it loses none.
* `DemandProxyProofs`, the port allocator
  * `AllocatorCorrect`, `NoPortLeaks`: `NothingLeaks` is inductive together with: a
    port is queued once at most, has one handle at most, and whoever is inside the
    mutex has no port.
  * `AllocatorImplementsPool`: every step is a grant, a return or a stuttering step
    of `PortPool`; a port is free there as soon as its handle is dropped, though
    the code may still count it.
* `DemandProxyProofs`, the proxy
  * `ProxyImplementsAllocator`: every step of the proxy is a step of the allocator
    or leaves it alone; hence `ProxyLeaksNothing` and `ProxyImplementsPool`.
  * `ProxyCorrect`: `Spec => []ProxyInv`, which adds which sockets a handler has at
    which of its steps, while binding a prefix of its list.
  * `ServingHandlerHoldsPort`, `DemandsDoNotCollide`: from it. The second names the
    one case in which a granted port is in use by the proxy itself: the listeners of
    a handler that was dropped still have it.
* `TunnelSourcesProofs`
  * `TunnelsAreUnique`: ids are below the generator's next one, and a connection is
    in the queue, in its handshake or a tunnel, and in one of them only.
* `RouteAddressProofs`
  * `AddressRoundTrip`: `FromStr(Rendered(a)) = Some(a)` for every address, whatever
    separators, escapes and empty segments are in it.
  * `ParsedTextRoundTrip`: a text that parses is the rendered form of what it parses
    to, so no two texts stand for one address.
  * `TargetRoundTrip`: the target of an address is the one its text gives, with or
    without the protocol's name in front.

  The definitions recurse over texts. The library states induction for an operator,
  which the provers cannot instantiate; here it is stated for a set instead
  (`SetInduction`, `SeqInduction`), from the well-foundedness of the naturals.
  `Iteration` shows that the recursive functions exist, and each gets a lemma on one
  character or segment more (`JoinedAppend`, `EscapedAppend`, `SegmentsReadAppend`,
  `RenderedAppend`); the round trips are inductions with these.
* `LinkStepProofs` and `LinkProofs`
  * `LinkInvariance`: `LinkSpec => []LinkInv`. None of the properties of a link is
    inductive: what a side reads is what the other has written long before. The
    strengthening counts. `Sent(x, k)` is the k-th item a side ever writes, `ReadBy`
    and `Written` say how many it has read and written, and `WireInv` that the wire
    holds just the items between the two numbers, and which number goes with which
    state of the writer. `FoundInv` says what the acceptor has settled on, `CopyInv`
    what has been copied, `BufferInv` what is between reading and writing, `AuthInv` whose stream is on which queue during the
    authentication.
  * `AuthenticationFirst`, `AddressesArrive`, `SidesStayInAgreement`,
    `PayloadStaysIntact`, `ConnectionsStayWithinTarget`: the five safety properties of
    `Link`, from it; the second also from `TargetRoundTrip`.

  `LinkStepProofs` has a lemma per action, in the terms of what a step does to the
  wire: nothing (`ActorWriterQuiet`, `ActorReaderQuiet`), one item off it
  (`ActorReads`), some items onto it (`ActorWrites`). It takes what it needs of
  addresses as a hypothesis (`RouteFacts`), which `LinkProofs` discharges with
  `RouteAddressProofs`.

Every invariant and every action property that a run checks is proved. Only
model-checked are the liveness properties, because liveness under fairness is out
of the proof system's reach, and the four runs that end in a counterexample.

## Not modelled

* The duplex tunnel (`protocol/tunnel/duplex.rs`), in-memory pipes used by tests.
* `ConstructedTunnelTryStream`, `PortRangeAllocator::free`, `Delayed` and
  `TryDelayed`: nothing outside tests uses them.
* The bound counter, tracked futures and monitored streams
  (`src/snocat/src/ext/stream.rs`, `ext/future/tracked.rs`): the futures they
  count are polled within one task of the daemon, so the counts change one after
  the other. `TryFuseStream` and the other adaptors keep no state that tasks share.
* `Dropkick`'s background task for a contended mutex: the `Arc` of that mutex is
  private to one `Dropkick`, so its drop always finds it free.
* Which of several tunnels a router picks: `PeersView`'s searches compare ids or
  times of registration among what `GetByName` returns.
* The boxing and error-mapping adaptors around services, registries and record
  constructors, which pass calls through.
* The bounds of JSON frames, the encoding of records, and connection pools.
* `Daemon` is not composed with `QuinnTunnel`: it has the tunnel's close flag,
  reason and connection as variables of its own, because the product of both
  state spaces is out of TLC's reach for two tunnels.
* Certificate handling, argument parsing and validation, logging: I/O without
  state of the system.
