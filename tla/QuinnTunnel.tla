---------------------------- MODULE QuinnTunnel ----------------------------
(***************************************************************************)
(* A tunnel over a QUIC connection (tunnel/quinn_tunnel.rs): its three     *)
(* cancellation tokens and the task that joins them, the close reason, the *)
(* streams it accepts and opens.                                           *)
(*                                                                         *)
(* The connection is quinn's (external): it is open, or it has failed with *)
(* a ConnectionError that every later accept_bi and open_bi returns.       *)
(* Callers on several threads run concurrently; a step is one atomic       *)
(* operation on the shared state (token, ArcSwap, RwLock, connection).     *)
(***************************************************************************)
EXTENDS Naturals, FiniteSets

CONSTANTS
    Closers,     \* callers of TunnelControl::close, each with a reason of its own
    Openers,     \* callers of open_link
    Arrivals,    \* streams the peer may open
    Reporters,   \* callers of report_authentication_success, each with a name of its own
    Listeners,   \* callers of on_authenticated
    Parties,     \* the sets of callers that use one tunnel together
    Failures     \* the ConnectionErrors the connection may fail with

VARIABLES
    conn,            \* "open", or the ConnectionError it failed with
    closed,          \* the overall token
    incoming_closed, \* its child for the downlink
    outgoing_closed, \* its child for the uplink, kept by the tunnel
    unused_outgoing, \* the child the joining task listens to
    joiner,          \* the joining task
    close_reason,
    handle,          \* the QuinnTunnel has not been dropped
    downlink,        \* the incoming stream, asked for and locked by whoever serves it
    link,            \* opener or arrival -> the state of its stream
    active,          \* active_stream_count
    closer,          \* caller of close -> its progress
    answer,          \* caller of close -> "ok", or "err" if there was a reason already
    noticed,         \* what an on_closed future of some channel resolved to
    reporter,        \* caller of report_authentication_success -> its progress
    authenticated,   \* the reporter whose name is stored and sent, or "none"
    listener,        \* caller of on_authenticated -> its progress, or the name it got
    callers          \* the callers of this tunnel

tokens == <<closed, incoming_closed, outgoing_closed, unused_outgoing>>
streams == <<downlink, link, active>>
closing == <<closer, answer>>
auth == <<reporter, authenticated, listener>>
vars == <<conn, tokens, joiner, close_reason, handle, streams, closing, noticed, auth, callers>>

ConnectionErrors == {"VersionMismatch", "TransportError", "ConnectionClosed",
                     "ApplicationClosed", "Reset", "TimedOut", "LocallyClosed",
                     "CidsExhausted"}
TunnelErrors == {"TransportError", "ConnectionClosed", "ApplicationClosed",
                 "TimedOut", "LocallyClosed"}
Channels == {"tunnel", "uplink", "downlink"}

\* The reasons a tunnel may be closed with: an error, or what a caller gave.
CloseReasons == TunnelErrors \union Closers

ASSUME QuinnAssumption ==
    /\ Failures \subseteq ConnectionErrors
    /\ IsFiniteSet(Openers \union Arrivals)
    /\ "Unspecified" \notin CloseReasons
    /\ Closers \intersect TunnelErrors = {}
    /\ Reporters \intersect {"none", "idle", "waiting", "closed"} = {}

\* TunnelError::from(quinn::ConnectionError)
ToTunnelError(e) ==
    IF e \in {"VersionMismatch", "Reset", "CidsExhausted"} THEN "TransportError" ELSE e

QuinnTypeOK ==
    /\ conn \in ConnectionErrors \union {"open"}
    /\ closed \in BOOLEAN /\ incoming_closed \in BOOLEAN /\ outgoing_closed \in BOOLEAN
    /\ unused_outgoing \in BOOLEAN /\ handle \in BOOLEAN
    /\ joiner \in {"joining", "yielded", "done"}
    /\ close_reason \in CloseReasons \union {"Unspecified"}
    /\ downlink \in {"free", "asked", "held", "failed", "stored", "ended"}
    /\ link \in [Openers \union Arrivals ->
                    {"idle", "opening", "failed", "stored", "open", "over"}]
    /\ active \in Nat
    /\ closer \in [Closers -> {"idle", "sent", "swapped", "done"}]
    /\ answer \in [Closers -> {"none", "ok", "err"}]
    /\ noticed \in {"none", "reason", "Unspecified"}
    /\ reporter \in [Reporters -> {"idle", "checked", "locked", "ok", "taken", "closed"}]
    /\ authenticated \in Reporters \union {"none"}
    /\ listener \in [Listeners -> Reporters \union {"idle", "waiting", "closed"}]

\* from_quinn_connection.  The first outgoing child is dropped with the
\* function's locals, so its Dropkick has cancelled it; the tunnel keeps
\* another one.
Init ==
    /\ conn = "open"
    /\ closed = FALSE /\ incoming_closed = FALSE /\ outgoing_closed = FALSE
    /\ unused_outgoing = TRUE
    /\ joiner = "joining"
    /\ close_reason = "Unspecified"
    /\ handle = TRUE
    /\ downlink = "free"
    /\ link = [s \in Openers \union Arrivals |-> "idle"]
    /\ active = 0
    /\ closer = [c \in Closers |-> "idle"]
    /\ answer = [c \in Closers |-> "none"]
    /\ noticed = "none"
    /\ reporter = [r \in Reporters |-> "idle"]
    /\ authenticated = "none"
    /\ listener = [l \in Listeners |-> "idle"]
    /\ callers \in Parties
-----------------------------------------------------------------------------
(***************************************************************************)
(* The tokens.                                                             *)
(***************************************************************************)
\* Cancelling the overall token cancels its children.
CancelAll ==
    /\ closed' = TRUE /\ incoming_closed' = TRUE /\ outgoing_closed' = TRUE
    /\ unused_outgoing' = TRUE

CancelIncoming == incoming_closed' = TRUE /\ UNCHANGED <<closed, outgoing_closed, unused_outgoing>>
CancelOutgoing == outgoing_closed' = TRUE /\ UNCHANGED <<closed, incoming_closed, unused_outgoing>>

\* Both listeners of the joining task have fired; it yields once.
JoinChannels ==
    /\ joiner = "joining" /\ incoming_closed /\ unused_outgoing
    /\ joiner' = "yielded"
    /\ UNCHANGED <<conn, tokens, close_reason, handle, streams, closing, noticed, auth, callers>>

JoinCancels ==
    /\ joiner = "yielded"
    /\ joiner' = "done"
    /\ CancelAll
    /\ UNCHANGED <<conn, close_reason, handle, streams, closing, noticed, auth, callers>>

\* on_closed, on_closed_uplink, on_closed_downlink: when the channel's token
\* is cancelled, read the reason.
TokenOf(ch) ==
    CASE ch = "tunnel" -> closed
      [] ch = "uplink" -> outgoing_closed
      [] ch = "downlink" -> incoming_closed

OnClosed(ch) ==
    /\ noticed = "none" /\ TokenOf(ch)
    /\ noticed' = IF close_reason = "Unspecified" THEN "Unspecified" ELSE "reason"
    /\ UNCHANGED <<conn, tokens, joiner, close_reason, handle, streams, closing, auth, callers>>

\* The uplink token is shared by the tunnel and its pending open_link calls,
\* the downlink token by the tunnel and the locked downlink: the last share
\* to go cancels it (Dropkick).
OutgoingShared == handle \/ \E o \in Openers : link[o] \in {"opening", "failed", "stored"}
IncomingShared == handle \/ downlink \in {"held", "failed", "stored"}
DropShares ==
    /\ incoming_closed' = (incoming_closed \/ ~IncomingShared')
    /\ outgoing_closed' = (outgoing_closed \/ ~OutgoingShared')
    /\ UNCHANGED <<closed, unused_outgoing>>

\* Faulty variant: the tunnel's tokens are plain ones.
DropTunnelSilently ==
    /\ handle /\ downlink # "asked" /\ \A c \in Closers : closer[c] \in {"idle", "done"}
    /\ handle' = FALSE
    /\ UNCHANGED <<conn, tokens, joiner, close_reason, streams, closing, noticed, auth, callers>>

\* The tunnel is dropped.  Its methods borrow it, and so do the futures of close
\* and of downlink, but no others.
DropTunnel ==
    /\ handle /\ downlink # "asked" /\ \A c \in Closers : closer[c] \in {"idle", "done"}
    /\ handle' = FALSE
    /\ UNCHANGED <<conn, joiner, close_reason, streams, closing, noticed, auth, callers>>
    /\ DropShares
-----------------------------------------------------------------------------
(***************************************************************************)
(* Streams.                                                                *)
(***************************************************************************)
\* The connection fails by itself, or through the peer (external).
LoseConnection ==
    /\ conn = "open"
    /\ \E e \in Failures : conn' = e
    /\ UNCHANGED <<tokens, joiner, close_reason, handle, streams, closing, noticed, auth, callers>>

\* downlink(): None once the downlink is closed, else a future that takes the
\* exclusive lock, however much later.
AskDownlink ==
    /\ handle /\ ~incoming_closed /\ downlink = "free"
    /\ downlink' = "asked"
    /\ UNCHANGED <<conn, tokens, joiner, close_reason, handle, link, active, closing, noticed, auth, callers>>

TakeDownlink ==
    /\ downlink = "asked"
    /\ downlink' = "held"
    /\ UNCHANGED <<conn, tokens, joiner, close_reason, handle, link, active, closing, noticed, auth, callers>>

\* The lock or its future is dropped; another call may have been waiting.
ReleaseDownlink ==
    /\ \/ downlink \in {"asked", "held"} /\ downlink' = "free"
       \/ downlink = "held" /\ handle /\ downlink' = "asked"
    /\ UNCHANGED <<conn, joiner, close_reason, handle, link, active, closing, noticed, auth, callers>>
    /\ DropShares

\* A poll of the incoming stream: take_until looks at the token first.
IncomingEnds ==
    /\ downlink = "held" /\ incoming_closed
    /\ downlink' = "ended"
    /\ UNCHANGED <<conn, tokens, joiner, close_reason, handle, link, active, closing, noticed, auth, callers>>

AcceptStream(a) ==
    /\ downlink = "held" /\ ~incoming_closed /\ conn = "open" /\ link[a] = "idle"
    /\ a \in callers
    /\ link' = [link EXCEPT ![a] = "open"]
    /\ active' = active + 1
    /\ UNCHANGED <<conn, tokens, joiner, close_reason, handle, downlink, closing, noticed, auth, callers>>

AcceptFails ==
    /\ downlink = "held" /\ ~incoming_closed /\ conn # "open"
    /\ downlink' = "failed"
    /\ UNCHANGED <<conn, tokens, joiner, close_reason, handle, link, active, closing, noticed, auth, callers>>

\* Faulty variant: the token is cancelled before the reason is stored.
StoreAcceptReasonLate ==
    \/ /\ downlink = "failed"
       /\ downlink' = "stored"
       /\ CancelIncoming
       /\ UNCHANGED <<conn, joiner, close_reason, handle, link, active, closing, noticed, auth, callers>>
    \/ /\ downlink = "stored" /\ close_reason = "Unspecified"
       /\ close_reason' = "ConnectionClosed"
       /\ UNCHANGED <<conn, tokens, joiner, handle, streams, closing, noticed, auth, callers>>

\* inspect_err stores the same reason whatever the error was.
StoreAcceptReason ==
    /\ downlink = "failed"
    /\ downlink' = "stored"
    /\ close_reason' = "ConnectionClosed"
    /\ UNCHANGED <<conn, tokens, joiner, handle, link, active, closing, noticed, auth, callers>>

\* Faulty variant: the failure is recorded but the token is left alone.
CloseIncomingForgotten ==
    /\ downlink = "stored"
    /\ downlink' = "ended"
    /\ UNCHANGED <<conn, tokens, joiner, close_reason, handle, link, active, closing, noticed, auth, callers>>

\* ... then cancels the downlink; the stream is fused.
CloseIncoming ==
    /\ downlink = "stored"
    /\ downlink' = "ended"
    /\ CancelIncoming
    /\ UNCHANGED <<conn, joiner, close_reason, handle, link, active, closing, noticed, auth, callers>>

\* open_link, refused at once when the uplink is closed.
OpenLink(o) ==
    /\ handle /\ link[o] = "idle" /\ o \in callers
    /\ link' = [link EXCEPT ![o] = IF outgoing_closed THEN "over" ELSE "opening"]
    /\ UNCHANGED <<conn, tokens, joiner, close_reason, handle, downlink, active, closing, noticed, auth, callers>>

\* Faulty variant: the counter is raised before the outcome is known.
LinkOpensCounted(o) ==
    /\ link[o] = "opening"
    /\ active' = active + 1
    /\ link' = [link EXCEPT ![o] = IF conn = "open" THEN "open" ELSE "failed"]
    /\ UNCHANGED <<conn, tokens, joiner, close_reason, handle, downlink, closing, noticed, auth, callers>>

\* open_bi returns: a guarded stream, or the connection's error.
LinkOpens(o) ==
    /\ link[o] = "opening"
    /\ IF conn = "open"
       THEN link' = [link EXCEPT ![o] = "open"] /\ active' = active + 1
       ELSE link' = [link EXCEPT ![o] = "failed"] /\ UNCHANGED active
    /\ UNCHANGED <<conn, joiner, close_reason, handle, downlink, closing, noticed, auth, callers>>
    /\ DropShares

StoreOpenReason(o) ==
    /\ link[o] = "failed"
    /\ link' = [link EXCEPT ![o] = "stored"]
    /\ close_reason' = ToTunnelError(conn)
    /\ UNCHANGED <<conn, tokens, joiner, handle, downlink, active, closing, noticed, auth, callers>>

CloseOutgoing(o) ==
    /\ link[o] = "stored"
    /\ link' = [link EXCEPT ![o] = "over"]
    /\ CancelOutgoing
    /\ UNCHANGED <<conn, joiner, close_reason, handle, downlink, active, closing, noticed, auth, callers>>

\* StreamDropGuard::drop, or an open_link future dropped before it is done.
DropStream(s) ==
    /\ link[s] \in {"open", "opening"}
    /\ link' = [link EXCEPT ![s] = "over"]
    /\ active' = IF link[s] = "open" THEN active - 1 ELSE active
    /\ UNCHANGED <<conn, joiner, close_reason, handle, downlink, closing, noticed, auth, callers>>
    /\ DropShares
-----------------------------------------------------------------------------
(***************************************************************************)
(* close: tell the peer, swap the reason in if there is none, cancel.      *)
(***************************************************************************)
SendClose(c) ==
    /\ handle /\ closer[c] = "idle" /\ c \in callers
    /\ closer' = [closer EXCEPT ![c] = "sent"]
    /\ conn' = IF conn = "open" THEN "LocallyClosed" ELSE conn
    /\ UNCHANGED <<tokens, joiner, close_reason, handle, streams, answer, noticed, auth, callers>>

\* Faulty variant: a later close replaces the reason of an earlier one.
SwapReasonAlways(c) ==
    /\ closer[c] = "sent"
    /\ closer' = [closer EXCEPT ![c] = "swapped"]
    /\ answer' = [answer EXCEPT ![c] = "ok"]
    /\ close_reason' = c
    /\ UNCHANGED <<conn, tokens, joiner, handle, streams, noticed, auth, callers>>

SwapReason(c) ==
    /\ closer[c] = "sent"
    /\ closer' = [closer EXCEPT ![c] = "swapped"]
    /\ answer' = [answer EXCEPT ![c] = IF close_reason = "Unspecified" THEN "ok" ELSE "err"]
    /\ close_reason' = IF close_reason = "Unspecified" THEN c ELSE close_reason
    /\ UNCHANGED <<conn, tokens, joiner, handle, streams, noticed, auth, callers>>

FinishClose(c) ==
    /\ closer[c] = "swapped"
    /\ closer' = [closer EXCEPT ![c] = "done"]
    /\ CancelAll
    /\ UNCHANGED <<conn, joiner, close_reason, handle, streams, answer, noticed, auth, callers>>
-----------------------------------------------------------------------------
(***************************************************************************)
(* Authentication.                                                         *)
(***************************************************************************)
LockHeld == \E r \in Reporters : reporter[r] = "locked"

\* report_authentication_success: refused at once on a closed tunnel, else
\* wait for the write lock.
Report(r) ==
    /\ handle /\ reporter[r] = "idle" /\ r \in callers
    /\ reporter' = [reporter EXCEPT ![r] = IF closed THEN "closed" ELSE "checked"]
    /\ UNCHANGED <<conn, tokens, joiner, close_reason, handle, streams, closing, noticed,
                   authenticated, listener, callers>>

\* Faulty variant: the state is checked without waiting for the lock.
LockAuthenticatedShared(r) ==
    /\ reporter[r] = "checked"
    /\ reporter' = [reporter EXCEPT ![r] = CASE closed -> "closed"
                                             [] ~closed /\ authenticated # "none" -> "taken"
                                             [] OTHER -> "locked"]
    /\ UNCHANGED <<conn, tokens, joiner, close_reason, handle, streams, closing, noticed,
                   authenticated, listener, callers>>

\* The write lock is acquired and the state checked again.
LockAuthenticated(r) ==
    /\ reporter[r] = "checked" /\ ~LockHeld
    /\ reporter' = [reporter EXCEPT ![r] = CASE closed -> "closed"
                                             [] ~closed /\ authenticated # "none" -> "taken"
                                             [] OTHER -> "locked"]
    /\ UNCHANGED <<conn, tokens, joiner, close_reason, handle, streams, closing, noticed,
                   authenticated, listener, callers>>

\* Under the lock: store the name, send it to the listeners, release.
StoreAuthenticated(r) ==
    /\ reporter[r] = "locked"
    /\ reporter' = [reporter EXCEPT ![r] = "ok"]
    /\ authenticated' = r
    /\ UNCHANGED <<conn, tokens, joiner, close_reason, handle, streams, closing, noticed, listener,
                   callers>>

\* on_authenticated: the closed token is looked at before the name, on the
\* first poll and on every later one.  The watch channel of the name ends when
\* its senders (the tunnel, the calls that report) are gone.
SendersGone == ~handle /\ \A r \in Reporters : reporter[r] \notin {"checked", "locked"}

\* Faulty variant: a listener that waits does not look at the token again.
AwaitAuthenticationOnly(l) ==
    /\ (listener[l] = "idle" /\ handle /\ l \in callers) \/ listener[l] = "waiting"
    /\ listener' = [listener EXCEPT ![l] =
                       CASE closed /\ listener[l] = "idle" -> "closed"
                         [] authenticated # "none" -> authenticated
                         [] OTHER -> "waiting"]
    /\ listener' # listener
    /\ UNCHANGED <<conn, tokens, joiner, close_reason, handle, streams, closing, noticed, reporter,
                   authenticated, callers>>

AwaitAuthentication(l) ==
    /\ (listener[l] = "idle" /\ handle /\ l \in callers) \/ listener[l] = "waiting"
    /\ listener' = [listener EXCEPT ![l] =
                       CASE closed -> "closed"
                         [] ~closed /\ authenticated # "none" -> authenticated
                         [] ~closed /\ authenticated = "none" /\ SendersGone -> "closed"
                         [] OTHER -> "waiting"]
    /\ listener' # listener
    /\ UNCHANGED <<conn, tokens, joiner, close_reason, handle, streams, closing, noticed, reporter,
                   authenticated, callers>>
-----------------------------------------------------------------------------
Close(c) == SendClose(c) \/ SwapReason(c) \/ FinishClose(c)
FinishOpen(o) == LinkOpens(o) \/ StoreOpenReason(o) \/ CloseOutgoing(o)
FinishReport(r) == LockAuthenticated(r) \/ StoreAuthenticated(r)
PollIncoming == IncomingEnds \/ AcceptFails \/ StoreAcceptReason \/ CloseIncoming

Next ==
    \/ LoseConnection \/ DropTunnel \/ AskDownlink \/ TakeDownlink \/ ReleaseDownlink
    \/ JoinChannels \/ JoinCancels \/ PollIncoming
    \/ \E a \in Arrivals : AcceptStream(a)
    \/ \E o \in Openers : OpenLink(o) \/ FinishOpen(o)
    \/ \E s \in Openers \union Arrivals : DropStream(s)
    \/ \E c \in Closers : Close(c)
    \/ \E ch \in Channels : OnClosed(ch)
    \/ \E r \in Reporters : Report(r) \/ FinishReport(r)
    \/ \E l \in Listeners : AwaitAuthentication(l)

\* Tasks the runtime polls once they can go on: the joining task, a served
\* downlink, calls that have begun, and futures whose event has happened.
Fairness ==
    /\ WF_vars(JoinChannels) /\ WF_vars(JoinCancels)
    /\ WF_vars(PollIncoming)
    /\ \A o \in Openers : WF_vars(FinishOpen(o))
    /\ \A c \in Closers : WF_vars(SwapReason(c)) /\ WF_vars(FinishClose(c))
    /\ \A r \in Reporters : WF_vars(FinishReport(r))
    /\ \A l \in Listeners : WF_vars(listener[l] = "waiting" /\ AwaitAuthentication(l))

Safety == Init /\ [][Next]_vars
Spec == Safety /\ Fairness
-----------------------------------------------------------------------------
\* Whoever is told that a channel has closed is told why: each failure and
\* each close stores its reason before it cancels a token, so only the drop of
\* the tunnel leaves the reason unspecified.
NoticeHasReason == noticed = "Unspecified" => ~handle

\* The stream counter is the number of live guards, so it neither leaks nor
\* underflows, whichever streams fail to open or are dropped half-way.
StreamsAreCounted ==
    active = Cardinality({s \in Openers \union Arrivals : link[s] = "open"})

\* Of several concurrent calls of close, one at most is told that it gave the
\* reason.
OneCloserSucceeds ==
    \A c, d \in Closers : answer[c] = "ok" /\ answer[d] = "ok" => c = d

\* report_authentication_success succeeds once at most, however many calls race
\* for the lock, and whoever on_authenticated answers is told that one's name.
OneAuthentication ==
    /\ \A r, s \in Reporters : reporter[r] = "ok" /\ reporter[s] = "ok" => r = s
    /\ \A l \in Listeners : listener[l] \in Reporters => reporter[listener[l]] = "ok"

\* A tunnel whose connection is lost closes altogether, if its downlink is
\* being served and that server keeps polling.
LostTunnelCloses == conn # "open" /\ downlink = "held" ~> closed \/ downlink \in {"free", "asked"}

\* A tunnel that has been dropped, with its downlink, closes.
DroppedTunnelCloses == ~handle /\ downlink \in {"free", "ended"} ~> closed

\* Whoever waits in on_authenticated is answered once the tunnel has been
\* authenticated or closed, or has been dropped.
ListenersAreTold ==
    \A l \in Listeners :
        listener[l] = "waiting" /\ (authenticated # "none" \/ closed \/ ~handle)
            ~> listener[l] \in Reporters \union {"closed"}
-----------------------------------------------------------------------------
\* The inductive invariant.  As long as the tunnel is there, whatever has
\* cancelled a token, or is about to, has left a reason; a caller of close that
\* was told "ok" has; and the lock of the authenticated name has one holder, who
\* finds no name there.
ReasonStored == close_reason # "Unspecified"

ReasonInv ==
    /\ handle /\ (closed \/ incoming_closed \/ outgoing_closed) => ReasonStored
    /\ handle /\ joiner = "yielded" => ReasonStored
    /\ downlink = "stored" => ReasonStored
    /\ \A o \in Openers : link[o] = "stored" => ReasonStored
    /\ \A c \in Closers : closer[c] \in {"swapped", "done"} => ReasonStored
    /\ \A c \in Closers : answer[c] = "ok" => ReasonStored
    /\ \A o \in Openers : link[o] = "failed" => conn # "open"

LockInv ==
    /\ \A r, s \in Reporters : reporter[r] = "locked" /\ reporter[s] = "locked" => r = s
    /\ \A r \in Reporters : reporter[r] = "locked" => authenticated = "none"
    /\ \A r \in Reporters : reporter[r] = "ok" <=> authenticated = r

QuinnInv ==
    /\ QuinnTypeOK /\ StreamsAreCounted
    /\ ReasonInv /\ NoticeHasReason /\ OneCloserSucceeds
    /\ LockInv /\ OneAuthentication
=============================================================================
