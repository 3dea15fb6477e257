------------------------------- MODULE MCLink -------------------------------
(* A small instance of Link for model checking.                            *)
EXTENDS Link, SequencesExt

MCPortWords == {"80"}
MCIPv4 == {"127.0.0.1", "10.0.0.1"}
MCIPv6 == {"::1"}
MCLoopback == <<"127.0.0.1", "::1">>
MCResolver == [h \in {"host", "far"} |->
                IF h = "host" THEN {"127.0.0.1", "::1", "10.0.0.1"} ELSE {"10.0.0.1"}]

MCWords == {"/", "\\", "proxy-tcp", "tcp", "proxyme", "0.0.1", "host", "far", "a"}
            \cup MCPortWords \cup MCIPv4 \cup MCIPv6 \cup DnsClasses \cup IPClasses

\* Targets of every class, with a host that has to be escaped among them.
Targets == {Target(c, h, "80") : c \in DnsClasses,
                                 h \in {<<"host">>, <<"far">>, <<"/">>, <<"a", "/", "\\">>}}
            \cup {Target("ip4", <<ip>>, "80") : ip \in MCIPv4}
            \cup {Target("ip6", <<"::1">>, "80"), Target("port", <<>>, "80")}

TargetAddresses == {TargetAddress(t) : t \in Targets}

DemandAddresses == {DemandAddress(HostOf(t), "80")[1] : t \in Targets}

\* Every address of at most two segments of at most two characters.
Segments == SeqOf({"/", "\\", "tcp"}, 2)
SmallAddresses == SeqOf(Segments, 2)

Setup(opener, addresses, services, handler, version, bytes, lossy, local_only) ==
    [opener |-> opener, addresses |-> addresses, services |-> services,
     handler |-> handler, version |-> version, bytes |-> bytes, lossy |-> lossy,
     local_only |-> local_only]

Versions(l, c) == [x \in {"Listen", "Connect"} |-> IF x = "Listen" THEN l ELSE c]

OneTarget == {TargetAddress(Target("ip4", <<"127.0.0.1">>, "80"))}
OneDemand == {DemandAddress(<<"host">>, "80")[1]}

MCSetups ==
    {Setup("Listen", OneTarget, <<"proxy-tcp">>, h, Versions(0, 0), 0, TRUE, TRUE)
        : h \in {"SimpleAck", "NoOp"}}
    \cup {Setup("Connect", OneDemand, <<"proxyme">>, "SimpleAck", Versions(0, 0), 0, TRUE, TRUE)}
    \cup {Setup("Listen", OneTarget, <<"proxy-tcp">>, "Done", v, 0, FALSE, TRUE)
        : v \in {Versions(0, 1), Versions(1, 0), Versions(1, 1)}}
    \cup {Setup("Listen", TargetAddresses \cup DemandAddresses, s, "Done", Versions(0, 0), 0, FALSE, b)
        : s \in {<<"proxy-tcp">>, <<"proxyme", "proxy-tcp">>}, b \in BOOLEAN}
    \cup {Setup("Listen", SmallAddresses, <<"proxy-tcp">>, "Done", Versions(0, 0), 0, FALSE, TRUE)}
    \cup {Setup("Listen", OneTarget, <<"proxy-tcp">>, "Done", Versions(0, 0), 2, TRUE, TRUE)}
=============================================================================
