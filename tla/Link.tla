-------------------------------- MODULE Link --------------------------------
(***************************************************************************)
(* One tunnel between a listening and a connecting side, from its          *)
(* authentication to the bytes that a proxied TCP connection carries over  *)
(* a link: perform_authentication and its handlers                         *)
(* (common/authentication), the opening of a link by a router              *)
(* (snocat-cli server.rs and client.rs), the negotiation of a service      *)
(* (protocol/negotiation.rs) and the two ends of the TCP proxy             *)
(* (protocol/proxy_tcp.rs, util/mod.rs).                                   *)
(*                                                                         *)
(* The side that opens the link is setup.opener.  Both sides write to the  *)
(* link at the same time; what they write arrives in order.  A stream that *)
(* is dropped is finished: what was written before still arrives, then the *)
(* reader meets the end.  A lost tunnel fails every read and write.        *)
(***************************************************************************)
EXTENDS RouteAddress

CONSTANTS
    Setups,     \* the configurations to explore, see LinkInit
    MaxLength   \* the longest frame a service reads an address from (2048)

ASSUME LinkAssumption ==
    \A s \in Setups :
        /\ s.opener \in {"Listen", "Connect"}
        /\ s.addresses \subseteq Address
        /\ s.version \in [{"Listen", "Connect"} -> Nat]
        /\ s.services \in Seq({"proxy-tcp", "proxyme"})

VARIABLES
    setup,      \* the configuration of this behaviour
    addr,       \* the address of the request
    auth,       \* per side, how far its authentication is
    channel,    \* what was written to the authentication channel
    channelOf,  \* the stream the connecting side authenticates on
    downlink,   \* per side, the streams it has not taken yet
    state,      \* per side, how far its use of the link is
    wire,       \* per side, what it wrote that its peer has not read
    gone,       \* per side, whether it dropped the link
    found,      \* the address and service the accepting side settled on
    taken,      \* per side, how many bytes it read from its TCP connection
    copied,     \* per side, how many of them it wrote to the link
    shut,       \* per side, whether it has shut the link's write half down
    got,        \* per side, the bytes it read from the link
    given,      \* per side, how many of them it wrote to its TCP connection
    eof,        \* per side, whether it has shut its TCP connection down
    connected,  \* the address the service is connected to
    lost        \* whether the tunnel is lost

authVars == <<auth, channel, channelOf>>

linkVars == <<addr, wire, gone, found>>

copyVars == <<taken, copied, shut, got, given, eof, connected>>

vars == <<setup, authVars, downlink, state, linkVars, copyVars, lost>>

Sides == {"Listen", "Connect"}

Peer(x) == CHOOSE y \in Sides : y # x

Opener == setup.opener

Acceptor == Peer(Opener)

NegotiationErrors == {"ReadError", "WriteError", "ProtocolViolation", "Refused",
                      "UnsupportedProtocolVersion"}

RoutingErrors == {"RouteNotFound", "LinkOpenFailure"}

ServiceErrors == {"IllegalResponse", "AddressError", "DependencyFailure", "InternalError"}

\* A side is finished with the link, with or without success.  An accepted
\* request for the demand proxy goes on in module DemandProxy.
Ends == {"done", "demand"} \cup NegotiationErrors \cup ServiceErrors \cup RoutingErrors

\* setup: who opens the link, with which address out of a set; the version each
\* side speaks; the services of the acceptor and whether they stay local; the
\* authentication handler, or "Done" to start behind it; how many bytes each
\* TCP connection may bring; whether the tunnel may be lost.
LinkInit ==
    /\ setup \in Setups
    /\ addr \in setup.addresses
    /\ auth = [x \in Sides |-> IF setup.handler = "Done" THEN "ok" ELSE "establishing"]
    /\ channel = <<>>
    /\ channelOf = "none"
    /\ downlink = [x \in Sides |-> <<>>]
    /\ state = [x \in Sides |-> "idle"]
    /\ wire = [x \in Sides |-> <<>>]
    /\ gone = [x \in Sides |-> FALSE]
    /\ found = None
    /\ taken = [x \in Sides |-> 0]
    /\ copied = [x \in Sides |-> 0]
    /\ shut = [x \in Sides |-> FALSE]
    /\ got = [x \in Sides |-> <<>>]
    /\ given = [x \in Sides |-> 0]
    /\ eof = [x \in Sides |-> FALSE]
    /\ connected = None
    /\ lost = FALSE

-----------------------------------------------------------------------------
(* Authentication.  A side whose authentication fails closes the tunnel.   *)

AuthFails(x, error) ==
    /\ auth' = [auth EXCEPT ![x] = error]
    /\ lost' = TRUE
    /\ UNCHANGED <<setup, channel, channelOf, downlink, state, linkVars, copyVars>>

\* perform_authentication, listening side: open_link.
EstablishListen ==
    /\ auth["Listen"] = "establishing" /\ ~lost
    /\ auth' = [auth EXCEPT !["Listen"] = "channel"]
    /\ downlink' = [downlink EXCEPT !["Connect"] = Append(@, "auth")]
    /\ UNCHANGED <<setup, channel, channelOf, state, linkVars, copyVars, lost>>

\* perform_authentication, connecting side: the first stream that arrives.
EstablishConnect ==
    /\ auth["Connect"] = "establishing" /\ ~lost
    /\ downlink["Connect"] # <<>>
    /\ channelOf' = Head(downlink["Connect"])
    /\ downlink' = [downlink EXCEPT !["Connect"] = Tail(@)]
    /\ auth' = [auth EXCEPT !["Connect"] = "channel"]
    /\ UNCHANGED <<setup, channel, state, linkVars, copyVars, lost>>

\* The tunnel's error, as tunnel_error_to_remote_auth_error reports it, or the
\* end of the incoming streams, while a channel is awaited.
EstablishmentFails(x) ==
    /\ auth[x] = "establishing" /\ lost
    /\ \E error \in {"LinkClosedLocally", "LinkClosedRemotely", "TimedOut", "TransportError"}
                        \cup (IF x = "Connect" THEN {"IncomingStreamsClosed"} ELSE {}) :
        AuthFails(x, error)

\* A shutdown is only listened for until the channel is there.
EstablishmentTimesOut(x) ==
    /\ auth[x] = "establishing" /\ setup.lossy
    /\ AuthFails(x, "TimedOut")

\* NoOpAuthenticationHandler
AuthenticateNoOp(x) ==
    /\ setup.handler = "NoOp" /\ auth[x] = "channel"
    /\ auth' = [auth EXCEPT ![x] = "ok"]
    /\ UNCHANGED <<setup, channel, channelOf, downlink, state, linkVars, copyVars, lost>>

\* SimpleAckAuthenticationHandler: writes go to the channel, one side after the
\* other; the connecting side is done with its write.
WriteChannel(x, from, text, to) ==
    /\ setup.handler = "SimpleAck" /\ auth[x] = from /\ ~lost
    /\ channel' = Append(channel, text)
    /\ auth' = [auth EXCEPT ![x] = to]
    /\ UNCHANGED <<setup, channelOf, downlink, state, linkVars, copyVars, lost>>

SendHelo == WriteChannel("Listen", "channel", <<"HELO">>, "awaiting")

\* The header is read and answered with two copies of it.
AnswerHelo ==
    /\ channelOf = "auth" /\ Len(channel) = 1
    /\ WriteChannel("Connect", "channel", channel[1] \o <<"/">> \o channel[1], "ok")

ReadAck ==
    /\ auth["Listen"] = "awaiting" /\ ~lost /\ Len(channel) = 2
    /\ IF channel[2] = <<"HELO", "/", "HELO">>
       THEN /\ auth' = [auth EXCEPT !["Listen"] = "ok"]
            /\ UNCHANGED <<setup, channel, channelOf, downlink, state, linkVars, copyVars, lost>>
       ELSE AuthFails("Listen", "ProtocolViolation")

\* A read or a write on the channel fails.
ChannelFails(x) ==
    /\ auth[x] \in {"channel", "awaiting"} /\ lost
    /\ setup.handler = "SimpleAck"
    /\ AuthFails(x, "ProtocolViolation")

Authentication ==
    \/ EstablishListen \/ EstablishConnect \/ SendHelo \/ AnswerHelo \/ ReadAck
    \/ \E x \in Sides : EstablishmentFails(x) \/ AuthenticateNoOp(x) \/ ChannelFails(x)
-----------------------------------------------------------------------------
(* The link: negotiation.                                                  *)

\* Faulty variant: the router does not wait for the authentication.
RouteEarly ==
    /\ state[Opener] = "idle" /\ ~lost
    /\ state' = [state EXCEPT ![Opener] = "start"]
    /\ downlink' = [downlink EXCEPT ![Acceptor] = Append(@, "link")]
    /\ UNCHANGED <<setup, authVars, linkVars, copyVars, lost>>

\* Router::route: a peer is only found once it is registered, which is behind
\* its authentication.
Route ==
    /\ state[Opener] = "idle" /\ auth[Opener] = "ok" /\ ~lost
    /\ state' = [state EXCEPT ![Opener] = "start"]
    /\ downlink' = [downlink EXCEPT ![Acceptor] = Append(@, "link")]
    /\ UNCHANGED <<setup, authVars, linkVars, copyVars, lost>>

\* The peer is not registered any more, or its tunnel opens no link.
RouteFails ==
    /\ state[Opener] = "idle" /\ auth[Opener] = "ok" /\ lost
    /\ \E error \in RoutingErrors : state' = [state EXCEPT ![Opener] = error]
    /\ UNCHANGED <<setup, authVars, downlink, linkVars, copyVars, lost>>

\* handle_incoming_requests: the daemon takes streams once it is authenticated.
AcceptLink ==
    /\ state[Acceptor] = "idle" /\ auth[Acceptor] = "ok" /\ ~lost
    /\ downlink[Acceptor] # <<>>
    /\ downlink' = [downlink EXCEPT ![Acceptor] = Tail(@)]
    /\ state' = [state EXCEPT ![Acceptor] = "start"]
    /\ UNCHANGED <<setup, authVars, linkVars, copyVars, lost>>

\* The negotiation of x returns an error; its stream is dropped.
Fails(x, e) ==
    /\ state' = [state EXCEPT ![x] = e]
    /\ gone' = [gone EXCEPT ![x] = TRUE]

CanRead(x) == ~lost /\ wire[Peer(x)] # <<>>

ReadBreaks(x) == lost \/ (gone[Peer(x)] /\ wire[Peer(x)] = <<>>)

\* A write fails on a lost tunnel, and may fail once the peer dropped the link.
WriteBreaks(x) == lost \/ gone[Peer(x)]

Consume(x) == wire' = [wire EXCEPT ![Peer(x)] = Tail(@)]

Write(x, items) == wire' = [wire EXCEPT ![x] = @ \o items]

Quiet == UNCHANGED <<setup, authVars, downlink, addr, copyVars, lost>>

\* Faulty variant: the magic is only sent once the peer's has been read.
SendMagicAfter(x) ==
    /\ state[x] = "magic read" /\ ~lost
    /\ Write(x, <<<<"magic">>, <<"version", setup.version[x]>>>>)
    /\ state' = [state EXCEPT ![x] = "joined"]
    /\ UNCHANGED <<gone, found>> /\ Quiet

\* protocol_magic: both sides send while they read.
SendMagic(x) ==
    /\ state[x] \in {"start", "magic read"} /\ ~lost
    /\ Write(x, <<<<"magic">>, <<"version", setup.version[x]>>>>)
    /\ state' = [state EXCEPT ![x] = IF @ = "start" THEN "magic sent" ELSE "joined"]
    /\ UNCHANGED <<gone, found>> /\ Quiet

ReadMagic(x) ==
    /\ state[x] \in {"start", "magic sent"} /\ CanRead(x)
    /\ Consume(x)
    /\ IF Head(wire[Peer(x)])[1] = "magic"
       THEN /\ state' = [state EXCEPT ![x] = IF @ = "start" THEN "magic read" ELSE "joined"]
            /\ UNCHANGED gone
       ELSE Fails(x, "ProtocolViolation")
    /\ UNCHANGED found /\ Quiet

MagicFails(x) ==
    /\ \/ /\ state[x] \in {"start", "magic read"} /\ WriteBreaks(x)
          /\ Fails(x, "WriteError")
       \/ /\ state[x] \in {"start", "magic sent"} /\ ReadBreaks(x)
          /\ Fails(x, "ProtocolViolation")
    /\ UNCHANGED <<wire, found>> /\ Quiet

ReadVersion(x) ==
    /\ state[x] = "joined" /\ CanRead(x)
    /\ Consume(x)
    /\ IF Head(wire[Peer(x)])[2] > 0
       THEN Fails(x, "UnsupportedProtocolVersion")
       ELSE state' = [state EXCEPT ![x] = "versioned"] /\ UNCHANGED gone
    /\ UNCHANGED found /\ Quiet

VersionFails(x) ==
    /\ state[x] = "joined" /\ ReadBreaks(x)
    /\ Fails(x, "ReadError")
    /\ UNCHANGED <<wire, found>> /\ Quiet

\* The client's side: the address goes out in a frame, a byte comes back.
WriteAddress ==
    /\ state[Opener] = "versioned" /\ ~lost
    /\ Write(Opener, <<<<"frame", Rendered(addr)>>>>)
    /\ state' = [state EXCEPT ![Opener] = "asked"]
    /\ UNCHANGED <<gone, found>> /\ Quiet

WriteAddressFails ==
    /\ state[Opener] = "versioned" /\ WriteBreaks(Opener)
    /\ Fails(Opener, "WriteError")
    /\ UNCHANGED <<wire, found>> /\ Quiet

ReadVerdict ==
    /\ state[Opener] = "asked" /\ CanRead(Opener)
    /\ Consume(Opener)
    /\ IF Head(wire[Acceptor])[2] > 0
       THEN Fails(Opener, "Refused")
       ELSE /\ state' = [state EXCEPT ![Opener] = IF DemandOf(addr) = None THEN "copying" ELSE "demand"]
            /\ UNCHANGED gone
    /\ UNCHANGED found /\ Quiet

VerdictFails ==
    /\ state[Opener] = "asked" /\ ReadBreaks(Opener)
    /\ Fails(Opener, "ReadError")
    /\ UNCHANGED <<wire, found>> /\ Quiet

\* The service's side: read_frame, from_str and find_service.
ReadAddress ==
    /\ state[Acceptor] = "versioned" /\ CanRead(Acceptor)
    /\ Consume(Acceptor)
    /\ LET text == Head(wire[Opener])[2]
           parsed == IF Len(text) > MaxLength THEN None ELSE FromStr(text)
       IN IF parsed = None
          THEN Fails(Acceptor, "ProtocolViolation") /\ UNCHANGED found
          ELSE /\ found' = Some([addr |-> parsed[1],
                                 service |-> FindService(setup.services, parsed[1])])
               /\ state' = [state EXCEPT ![Acceptor] = "found"]
               /\ UNCHANGED gone
    /\ Quiet

AddressFails ==
    /\ state[Acceptor] = "versioned" /\ ReadBreaks(Acceptor)
    /\ Fails(Acceptor, "ProtocolViolation")
    /\ UNCHANGED <<wire, found>> /\ Quiet

\* Faulty variant: the same byte is written for both verdicts.
WriteVerdictSame ==
    /\ state[Acceptor] = "found" /\ ~lost
    /\ Write(Acceptor, <<<<"byte", 0>>>>)
    /\ IF found[1].service = None
       THEN Fails(Acceptor, "Refused")
       ELSE state' = [state EXCEPT ![Acceptor] = "accepted"] /\ UNCHANGED gone
    /\ UNCHANGED found /\ Quiet

WriteVerdict ==
    /\ state[Acceptor] = "found" /\ ~lost
    /\ IF found[1].service = None
       THEN Write(Acceptor, <<<<"byte", 1>>>>) /\ Fails(Acceptor, "Refused")
       ELSE /\ Write(Acceptor, <<<<"byte", 0>>>>)
            /\ state' = [state EXCEPT ![Acceptor] =
                            IF found[1].service[1] = "proxy-tcp" THEN "accepted" ELSE "demand"]
            /\ UNCHANGED gone
    /\ UNCHANGED found /\ Quiet

WriteVerdictFails ==
    /\ state[Acceptor] = "found" /\ WriteBreaks(Acceptor)
    /\ Fails(Acceptor, "WriteError")
    /\ UNCHANGED <<wire, found>> /\ Quiet

\* handle_incoming_request_bistream: a version the service does not speak is
\* fatal to the acceptor's tunnel, every other error only to the link.
CloseOnVersion ==
    /\ state[Acceptor] = "UnsupportedProtocolVersion" /\ ~lost
    /\ lost' = TRUE
    /\ UNCHANGED <<setup, authVars, downlink, state, linkVars, copyVars>>

Negotiation ==
    \/ CloseOnVersion
    \/ Route \/ RouteFails \/ AcceptLink
    \/ \E x \in Sides : SendMagic(x) \/ ReadMagic(x) \/ MagicFails(x)
                            \/ ReadVersion(x) \/ VersionFails(x)
    \/ WriteAddress \/ WriteAddressFails \/ ReadVerdict \/ VerdictFails
    \/ ReadAddress \/ AddressFails \/ WriteVerdict \/ WriteVerdictFails

-----------------------------------------------------------------------------
(* The link: a proxied TCP connection.                                     *)

Hold == UNCHANGED <<setup, authVars, downlink, addr, found, lost>>

\* TcpStreamService::connect: the loopback addresses only, if the service stays
\* local.
Usable(ips) == {ip \in ips : setup.local_only => ip \in Range(Loopback)}

\* Faulty variant: a service that stays local connects anywhere.
ConnectAnywhere ==
    /\ state[Acceptor] = "accepted"
    /\ LET ips == Resolve(TargetOf(found[1].addr)[1])
       IN IF ips = None \/ ips[1] = {}
          THEN /\ state' = [state EXCEPT ![Acceptor] = "DependencyFailure"]
               /\ gone' = [gone EXCEPT ![Acceptor] = TRUE]
               /\ UNCHANGED connected
          ELSE /\ \E ip \in ips[1] : connected' = Some(ip)
               /\ state' = [state EXCEPT ![Acceptor] = "copying"]
               /\ UNCHANGED gone
    /\ UNCHANGED <<wire, taken, copied, shut, got, given, eof>> /\ Hold

\* TcpStreamService::handle up to the copying: resolve, then connect to one of
\* the addresses found.
Connect ==
    /\ state[Acceptor] = "accepted"
    /\ LET ips == Resolve(TargetOf(found[1].addr)[1])
           usable == Usable(ips[1])
           error == IF ips = None \/ (ips[1] # {} /\ usable = {})
                    THEN "AddressError" ELSE "DependencyFailure"
       IN \/ /\ ips # None
             /\ \E ip \in usable : connected' = Some(ip)
             /\ state' = [state EXCEPT ![Acceptor] = "copying"]
             /\ UNCHANGED gone
          \/ /\ state' = [state EXCEPT ![Acceptor] = error]
             /\ gone' = [gone EXCEPT ![Acceptor] = TRUE]
             /\ UNCHANGED connected
    /\ UNCHANGED <<wire, taken, copied, shut, got, given, eof>> /\ Hold

\* copy_bidirectional returns once both of its directions have ended.
CopyState(x, out, in) ==
    /\ state' = [state EXCEPT ![x] = IF out /\ in THEN "done" ELSE @]
    /\ gone' = [gone EXCEPT ![x] = out /\ in]

\* copy_bidirectional keeps what it read, in a BufReader of 32 KiB and in its own
\* buffer, until it is written: from the TCP connection of x ...
ReadTcp(x) ==
    /\ state[x] = "copying" /\ ~shut[x]
    /\ taken[x] < setup.bytes
    /\ taken' = [taken EXCEPT ![x] = @ + 1]
    /\ UNCHANGED <<state, gone, wire, copied, shut, got, given, eof, connected>> /\ Hold

\* ... to the link, in order ...
WriteLink(x) ==
    /\ state[x] = "copying" /\ ~lost /\ ~shut[x]
    /\ copied[x] < taken[x]
    /\ copied' = [copied EXCEPT ![x] = @ + 1]
    /\ Write(x, <<<<"data", copied[x] + 1>>>>)
    /\ UNCHANGED <<state, gone, taken, shut, got, given, eof, connected>> /\ Hold

\* Faulty variant: the link is shut down with bytes still in the buffer.
ShutLinkUnflushed(x) ==
    /\ state[x] = "copying" /\ ~lost /\ ~shut[x]
    /\ shut' = [shut EXCEPT ![x] = TRUE]
    /\ Write(x, <<<<"fin">>>>)
    /\ CopyState(x, TRUE, eof[x])
    /\ UNCHANGED <<taken, copied, got, given, eof, connected>> /\ Hold

\* ... and the end of the TCP connection shuts down the write half of the link,
\* once everything read before it is written.
ShutLink(x) ==
    /\ state[x] = "copying" /\ ~lost /\ ~shut[x]
    /\ copied[x] = taken[x]
    /\ shut' = [shut EXCEPT ![x] = TRUE]
    /\ Write(x, <<<<"fin">>>>)
    /\ CopyState(x, TRUE, eof[x])
    /\ UNCHANGED <<taken, copied, got, given, eof, connected>> /\ Hold

\* The other direction: from the link ...
ReadLink(x) ==
    /\ state[x] = "copying" /\ ~eof[x] /\ CanRead(x)
    /\ Head(wire[Peer(x)])[1] # "fin"
    /\ Consume(x)
    /\ got' = [got EXCEPT ![x] = Append(@, Head(wire[Peer(x)]))]
    /\ UNCHANGED <<state, gone, taken, copied, shut, given, eof, connected>> /\ Hold

\* ... to the TCP connection ...
WriteTcp(x) ==
    /\ state[x] = "copying" /\ given[x] < Len(got[x])
    /\ given' = [given EXCEPT ![x] = @ + 1]
    /\ UNCHANGED <<state, gone, wire, taken, copied, shut, got, eof, connected>> /\ Hold

\* ... and the end of the link shuts the TCP connection down, once everything read
\* before it is written.  A peer whose copying failed drops the link, which
\* finishes a QUIC stream: its end reads like that of a peer that shut the link
\* down.  (A comment of util/mod.rs's tests, lines 407-409, expects an error
\* there "in a networked context".  The error may come too, on the writing side:
\* CopyFails.)
ShutTcp(x) ==
    /\ state[x] = "copying" /\ ~eof[x] /\ ~lost
    /\ given[x] = Len(got[x])
    /\ \/ CanRead(x) /\ Head(wire[Peer(x)])[1] = "fin" /\ Consume(x)
       \/ ReadBreaks(x) /\ UNCHANGED wire
    /\ eof' = [eof EXCEPT ![x] = TRUE]
    /\ CopyState(x, shut[x], TRUE)
    /\ UNCHANGED <<taken, copied, shut, got, given, connected>> /\ Hold

\* What TcpStreamClient and TcpStreamService return for an error of the copying.
CopyError(x) == IF x = Opener THEN "IllegalResponse" ELSE "InternalError"

\* Any error of the link or of the TCP connection, in either direction, ends both
\* and drops what is buffered in both.
CopyFails(x) ==
    /\ state[x] = "copying" /\ (lost \/ gone[Peer(x)] \/ setup.lossy)
    /\ state' = [state EXCEPT ![x] = CopyError(x)]
    /\ gone' = [gone EXCEPT ![x] = TRUE]
    /\ UNCHANGED <<wire, copyVars>> /\ Hold

\* The steps that are due without anything from the TCP connections.
Copying ==
    \/ Connect
    \/ \E x \in Sides : WriteLink(x) \/ ReadLink(x) \/ WriteTcp(x) \/ ShutTcp(x)

LoseTunnel ==
    /\ ~lost /\ setup.lossy
    /\ lost' = TRUE
    /\ UNCHANGED <<setup, authVars, downlink, state, linkVars, copyVars>>

LinkNext ==
    \/ Authentication \/ Negotiation \/ Copying
    \/ \E x \in Sides : EstablishmentTimesOut(x) \/ ReadTcp(x) \/ ShutLink(x) \/ CopyFails(x)
    \/ LoseTunnel

LinkSafety == LinkInit /\ [][LinkNext]_vars

\* The executor polls what is ready, and a TCP connection takes what is written
\* to it; nothing makes one send, or end.
LinkSpec ==
    /\ LinkSafety
    /\ WF_vars(Authentication \/ Negotiation \/ Copying)

-----------------------------------------------------------------------------
(* Properties.                                                             *)

\* perform_authentication's connecting side takes the first stream that arrives
\* for the authentication channel: it is never a link of a router, and no side
\* uses a link before it has authenticated.  A listening side that accepted an
\* acknowledgement has a peer that sent it.
AuthenticationComesFirst ==
    /\ channelOf # "link"
    /\ \A x \in Sides : state[x] # "idle" => auth[x] = "ok"
    /\ setup.handler = "SimpleAck" /\ auth["Listen"] = "ok" => auth["Connect"] = "ok"

\* The address a service is searched for is the one the request was made for,
\* escapes, empty segments and all; and its text reads back as the target that the
\* service takes it for, with or without the name of the protocol in front.
AddressArrives ==
    /\ found # None => found[1].addr = addr
    /\ found # None /\ TargetOf(addr) # None =>
        \A a \in {addr, Tail(addr)} : TargetFromStr(Rendered(a)) = TargetOf(addr)

\* A client that goes on after the negotiation has a service that accepted its
\* address, and a client that was refused has a service side that refused it.
SidesAgree ==
    /\ state[Opener] \in {"copying", "demand", "done"} =>
            found # None /\ found[1].service # None
    /\ state[Opener] = "Refused" => state[Acceptor] = "Refused"

\* The bytes that leave the proxy are those that entered it at the other end, in
\* order and without what the negotiation exchanged.  A connection is shut down
\* behind everything that its peer wrote to the link; short of what its peer had
\* read, only if the peer's copying failed and dropped what it had buffered.
\* Nothing is missing between two sides that both report success.
PayloadIntact ==
    \A x \in Sides :
        /\ given[x] <= Len(got[x]) /\ Len(got[x]) <= taken[Peer(x)]
        /\ \A i \in DOMAIN got[x] : got[x][i] = <<"data", i>>
        /\ eof[x] => /\ given[x] = copied[Peer(x)]
                     /\ \/ given[x] = taken[Peer(x)]
                        \/ state[Peer(x)] = CopyError(Peer(x))
        /\ state[x] = "done" /\ state[Peer(x)] = "done" => given[x] = taken[Peer(x)]

\* The address a service connects to is the one that the segments of the request
\* name: the literal of ip4 and ip6, one that the resolver has for the host of
\* dns, dns4 and dns6, of the family asked for; and a loopback address, if the
\* service is local_only.  For /tcp/<port> it is IPv4's loopback address, as
\* try_from has it; from_str's documentation (proxy_tcp.rs:374) says "with an IPv6
\* preference", which no request gets.
ConnectsWithinTarget ==
    connected # None =>
        LET ip == connected[1]
            class == addr[2]
            host == addr[3]
        IN /\ setup.local_only => ip \in Range(Loopback)
           /\ class = <<"tcp">> => ip = Loopback[1]
           /\ class \in {<<"ip4">>, <<"ip6">>} => host = <<ip>>
           /\ class \in {<<"dns">>, <<"dns4">>, <<"dns6">>} => ip \in Resolver[host[1]]
           /\ class = <<"dns4">> => ip \in IPv4
           /\ class = <<"dns6">> => ip \in IPv6

\* Every authentication and every negotiation ends, with a lost tunnel or an
\* answer on both sides; what either TCP connection brought before its end reaches
\* the other, and the end too.
Settles ==
    /\ []<>(\/ lost
            \/ \A x \in Sides : state[x] = "copying" \/ state[x] \in Ends)
    /\ \A x \in Sides : shut[x] ~> eof[Peer(x)] \/ state[Peer(x)] \in Ends \/ lost

-----------------------------------------------------------------------------
(* The invariant the safety properties follow from.                        *)

AuthStates ==
    {"establishing", "channel", "awaiting", "ok", "LinkClosedLocally", "LinkClosedRemotely",
     "TimedOut", "TransportError", "IncomingStreamsClosed", "ProtocolViolation"}

Negotiating == {"idle", "start", "magic sent", "magic read", "joined", "versioned", "asked",
                "found", "accepted"}

Items == {<<"magic">>, <<"fin">>}
            \cup ({"version", "byte", "data"} \X Nat)
            \cup ({"frame"} \X Text)

LinkTypeOK ==
    /\ setup \in Setups
    /\ addr \in setup.addresses
    /\ auth \in [Sides -> AuthStates]
    /\ channel \in Seq(Seq({"HELO", "/"}))
    /\ downlink \in [Sides -> Seq({"auth", "link"})]
    /\ state \in [Sides -> Negotiating \cup {"copying"} \cup Ends]
    /\ wire \in [Sides -> Seq(Items)]
    /\ gone \in [Sides -> BOOLEAN]
    /\ taken \in [Sides -> Nat]
    /\ copied \in [Sides -> Nat]
    /\ shut \in [Sides -> BOOLEAN]
    /\ got \in [Sides -> Seq(Items)]
    /\ given \in [Sides -> Nat]
    /\ eof \in [Sides -> BOOLEAN]
    /\ lost \in BOOLEAN

\* The listening side opens the authentication channel before it can route, so it
\* is the first stream that the connecting side finds; the channel's second text
\* is the connecting side's last.
AuthInv ==
    /\ AuthenticationComesFirst
    /\ auth["Connect"] = "establishing" =>
        IF downlink["Connect"] = <<>>
        THEN auth["Listen"] \notin {"channel", "awaiting", "ok"}
        ELSE Head(downlink["Connect"]) = "auth"
    /\ auth["Listen"] \in {"establishing", "channel"} => channel = <<>>
    /\ Len(channel) > 1 => auth["Connect"] = "ok"

\* How many items x has read from the link, while it reads.
ReadBy(x) ==
    IF state[x] \in {"idle", "start", "magic sent"} THEN 0
    ELSE IF state[x] \in {"magic read", "joined"} THEN 1
    ELSE IF state[x] \in {"versioned", "asked"} THEN 2
    ELSE 3 + Len(got[x])

\* The k-th item that x writes to the link.
Sent(x, k) ==
    IF k = 1 THEN <<"magic">>
    ELSE IF k = 2 THEN <<"version", setup.version[x]>>
    ELSE IF k > 3 THEN IF k - 3 <= copied[x] THEN <<"data", k - 3>> ELSE <<"fin">>
    ELSE IF x = Opener THEN <<"frame", Rendered(addr)>>
    ELSE <<"byte", IF found[1].service = None THEN 1 ELSE 0>>

\* How many items x has written, as long as its peer reads them.
Written(x) == ReadBy(Peer(x)) + Len(wire[x])

\* What x has copied, and what it may still do.
CopyInv(x) ==
    /\ state[x] \in Negotiating => copied[x] = 0 /\ ~shut[x] /\ got[x] = <<>> /\ ~eof[x]
    /\ gone[x] => state[x] \in Ends
    /\ Len(got[x]) <= copied[Peer(x)]
    /\ \A i \in DOMAIN got[x] : got[x][i] = <<"data", i>>
    /\ eof[x] => (shut[Peer(x)] \/ gone[Peer(x)]) /\ Len(got[x]) = copied[Peer(x)]

\* The wire from x to its peer is the part of what x sends that the peer has not
\* read, and how much x has sent shows in its state.
WireInv(x) ==
    state[Peer(x)] \notin Ends /\ ~eof[Peer(x)] =>
        /\ \A i \in 1 .. Len(wire[x]) : wire[x][i] = Sent(x, ReadBy(Peer(x)) + i)
        /\ \/ Written(x) \in {0, 2} /\ copied[x] = 0 /\ ~shut[x]
           \/ Written(x) = 3 + copied[x] /\ ~shut[x]
           \/ Written(x) = 4 + copied[x] /\ shut[x]
        /\ state[x] \in {"idle", "start", "magic read"} => Written(x) = 0
        /\ state[x] \in {"magic sent", "joined", "versioned", "found"} => Written(x) = 2
        /\ state[x] \in {"asked", "accepted", "copying"} => Written(x) >= 3
        /\ x = Acceptor /\ Written(x) >= 3 =>
            found # None /\ (found[1].service = None => state[x] = "Refused")

\* What x holds in its buffers, and when it holds nothing.
BufferInv(x) ==
    /\ copied[x] <= taken[x] /\ given[x] <= Len(got[x])
    /\ shut[x] => copied[x] = taken[x]
    /\ eof[x] => given[x] = Len(got[x])
    /\ state[x] = "done" => shut[x] /\ eof[x]
    /\ state[x] \in {"copying", "done", CopyError(x)} \/ taken[x] = 0

\* What the accepting side settled on.
FoundInv ==
    /\ state[Opener] \notin {"found", "accepted"} /\ state[Acceptor] # "asked"
    /\ found # None =>
        /\ state[Acceptor] \notin {"idle", "start", "magic sent", "magic read", "joined", "versioned"}
        /\ found[1].addr = addr
        /\ found[1].service = FindService(setup.services, addr)
    /\ state[Acceptor] \in {"found", "accepted"} => found # None
    /\ state[Acceptor] = "accepted" => TargetOf(addr) # None

LinkInv ==
    /\ LinkTypeOK /\ AuthInv /\ FoundInv /\ SidesAgree /\ ConnectsWithinTarget
    /\ \A x \in Sides : CopyInv(x) /\ WireInv(x) /\ BufferInv(x)
=============================================================================
