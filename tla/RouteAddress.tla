---------------------------- MODULE RouteAddress ---------------------------
(***************************************************************************)
(* Addresses: RouteAddress and its textual form (protocol/address.rs), the *)
(* targets of the TCP proxy (protocol/proxy_tcp.rs) and the addresses of   *)
(* the demand proxy (snocat-cli services/demand_proxy.rs), and how a list  *)
(* of services is searched for one that accepts an address.                *)
(*                                                                         *)
(* A character is "/", "\\" or a whole word, for which nothing but its     *)
(* identity matters.                                                       *)
(***************************************************************************)
EXTENDS Integers, Sequences, FiniteSetsExt

CONSTANTS
    Words,      \* the characters
    PortWords,  \* words that parse as a port
    IPv4,       \* words that parse as an IPv4 address
    IPv6,       \* words that parse as an IPv6 address
    Loopback,   \* the loopback addresses among them: IPv4's, then IPv6's
    Resolver    \* the name server: a function from words to sets of addresses

ASSUME AddressAssumption ==
    /\ {"/", "\\", "proxy-tcp"} \subseteq Words
    /\ IPv4 \cap IPv6 = {} /\ Loopback[1] \in IPv4 /\ Loopback[2] \in IPv6

Text == Seq(Words)

\* RouteAddress: its segments
Address == Seq(Text)

\* An Option is a sequence of at most one element.
None == <<>>

Some(x) == <<x>>

\* The texts one after the other.  (SequencesExt has this and the like, but with
\* Bags in scope every proof about addresses takes several times as long.)
Joined(texts) ==
    LET joined[i \in 1 .. Len(texts)] ==
            IF i = 1 THEN texts[1] ELSE joined[i - 1] \o texts[i]
    IN IF texts = <<>> THEN <<>> ELSE joined[Len(texts)]

NeedsEscaped(c) == c \in {"/", "\\"}

\* Faulty variant: the escape is left out.
RenderedUnescaped(addr) ==
    Joined([i \in DOMAIN addr |-> <<"/">> \o addr[i]])

Escaped(c) == IF NeedsEscaped(c) THEN <<"\\", c>> ELSE <<c>>

RenderedSegment(s) == <<"/">> \o Joined([i \in DOMAIN s |-> Escaped(s[i])])

\* rendered: a slash before every segment, an escape before special characters.
Rendered(addr) == Joined([i \in DOMAIN addr |-> RenderedSegment(addr[i])])

\* Where from_str's loop takes a character for the second of an escape.
EscapedAt(text) ==
    LET escaped[i \in DOMAIN text] == i > 1 /\ text[i - 1] = "\\" /\ ~escaped[i - 1]
    IN escaped

\* current_segment.push
AppendToLast(segments, c) == [segments EXCEPT ![Len(segments)] = Append(@, c)]

\* The segments that the loop has read, the last of them is current_segment.
SegmentsRead(text) ==
    LET escaped == EscapedAt(text)
        read[i \in DOMAIN text] ==
            IF i = 1 THEN <<<<>>>>
            ELSE IF text[i] = "/" /\ ~escaped[i] THEN Append(read[i - 1], <<>>)
            ELSE IF text[i] = "\\" /\ ~escaped[i] THEN read[i - 1]
            ELSE AppendToLast(read[i - 1], text[i])
    IN read[Len(text)]

\* RouteAddress::from_str: a text is empty or starts with a slash, every escape is
\* one of a special character, every slash that is not escaped starts a segment.
FromStr(text) ==
    LET escaped == EscapedAt(text)
        legal == /\ text[1] = "/"
                 /\ \A i \in DOMAIN text : escaped[i] => NeedsEscaped(text[i])
                 /\ text[Len(text)] = "\\" => escaped[Len(text)]
    IN IF text = <<>> THEN Some(<<>>)
       ELSE IF legal THEN Some(SegmentsRead(text)) ELSE None

StripSegmentPrefix(addr, prefix) ==
    IF Len(prefix) <= Len(addr) /\ SubSeq(addr, 1, Len(prefix)) = prefix
    THEN Some(SubSeq(addr, Len(prefix) + 1, Len(addr))) ELSE None

-----------------------------------------------------------------------------
(* The targets of the TCP proxy: a class, a host and a port.               *)

DnsClasses == {"dns", "dns4", "dns6"}

IPClasses == {"ip4", "ip6"}

Target(class, host, port) == [class |-> class, host |-> host, port |-> port]

\* From<&TcpStreamTarget> for RouteAddress
TargetAddress(t) ==
    <<<<"proxy-tcp">>>>
        \o (IF t.class = "port" THEN <<>> ELSE <<<<t.class>>, t.host>>)
        \o <<<<"tcp">>, <<t.port>>>>

\* The words one of which the text is, for the parsers of a class of hosts.
HostParses(class, host) ==
    CASE class = "ip4" -> host \in {<<w>> : w \in IPv4}
      [] class = "ip6" -> host \in {<<w>> : w \in IPv6}
      [] OTHER -> class \in DnsClasses

\* TryFrom<&RouteAddress> for TcpStreamTarget: only the first four segments
\* behind the protocol's name are looked at, the last of them is the port.  A port
\* alone is IPv4's loopback address, and never a target of class "port" again.
TargetOf(addr) ==
    LET stripped == StripSegmentPrefix(addr, <<<<"proxy-tcp">>>>)
        four == IF stripped = None THEN <<>>
                ELSE SubSeq(stripped[1], 1, IF Len(stripped[1]) < 4 THEN Len(stripped[1]) ELSE 4)
        parts == SubSeq(four, 1, Len(four) - 1)
        port == four[Len(four)]
    IN IF four = <<>> \/ port \notin {<<p>> : p \in PortWords} THEN None
       ELSE IF parts = <<<<"tcp">>>> THEN Some(Target("ip4", <<Loopback[1]>>, port[1]))
       ELSE IF \/ Len(parts) # 3
               \/ parts[1] \notin {<<c>> : c \in IPClasses \cup DnsClasses}
               \/ parts[3] # <<"tcp">>
               \/ ~HostParses(parts[1][1], parts[2]) THEN None
       ELSE Some(Target(parts[1][1], parts[2], port[1]))

\* TcpStreamTarget::from_str: the protocol's name may be left out.
TargetFromStr(text) ==
    LET addr == FromStr(text)
        bare == addr # None /\ addr[1] # <<>>
                    /\ addr[1][1] \in {<<c>> : c \in IPClasses \cup DnsClasses \cup {"tcp"}}
    IN IF addr = None THEN None
       ELSE IF bare THEN TargetOf(FromStr(<<"/", "proxy-tcp">> \o text)[1])
       ELSE TargetOf(addr[1])

\* DnsTarget::contains, for the port the name was looked up with.
DnsContains(class, ip) ==
    (ip \in IPv6 /\ class # "dns4") \/ (ip \in IPv4 /\ class # "dns6")

\* resolve: the addresses a target stands for; None when the lookup fails.  The
\* service only resolves what TargetOf returns, which is of no class "port".
Resolve(t) ==
    CASE t.class = "port" -> Some({Loopback[1], Loopback[2]})
      [] t.class \in IPClasses -> Some({t.host[1]})
      [] t.class \in DnsClasses ->
            IF t.host \in {<<w>> : w \in DOMAIN Resolver}
            THEN Some({ip \in Resolver[t.host[1]] : DnsContains(t.class, ip)})
            ELSE None

-----------------------------------------------------------------------------
(* The addresses of the demand proxy.                                      *)

\* build_addr: the host is put into a text that is then parsed.
DemandAddress(host, port) ==
    FromStr(<<"/", "proxyme", "/", "0.0.1", "/">> \o host \o <<"/", port>>)

\* From<TcpStreamTarget> for (String, Option<u16>)
HostOf(t) == IF t.class = "port" THEN <<Loopback[1]>> ELSE t.host

\* parse_address: the host, which may be left out, and the port.
DemandOf(addr) ==
    LET stripped == StripSegmentPrefix(addr, <<<<"proxyme">>, <<"0.0.1">>>>)
        rest == IF stripped = None THEN <<>> ELSE stripped[1]
        port == rest[Len(rest)]
    IN IF Len(rest) \notin {1, 2} \/ port \notin {<<p>> : p \in PortWords} THEN None
       ELSE Some([host |-> SubSeq(rest, 1, Len(rest) - 1), port |-> port[1]])

\* Service::accepts
Accepts(service, addr) ==
    CASE service = "proxy-tcp" -> TargetOf(addr) # None
      [] service = "proxyme" -> DemandOf(addr) # None

\* PresetServiceRegistry::find_service: the first service that accepts.
FindService(services, addr) ==
    LET accepting == {i \in DOMAIN services : Accepts(services[i], addr)}
    IN IF accepting = {} THEN None ELSE Some(services[Min(accepting)])
=============================================================================
