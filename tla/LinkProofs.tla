----------------------------- MODULE LinkProofs -----------------------------
(***************************************************************************)
(* What each side of a link may rely on, for any set-up, any address and   *)
(* any amount of data: LinkInv is an invariant by the lemmas on the steps  *)
(* of the link and by those on route addresses, and the rest follows from  *)
(* it.                                                                     *)
(***************************************************************************)
EXTENDS LinkStepProofs, RouteAddressProofs

\* What the lemmas on the steps of the link assume of route addresses.
LEMMA RouteFactsHold == RouteFacts
<1>1. ASSUME NEW a \in Address
      PROVE  Rendered(a) \in Text /\ FromStr(Rendered(a)) = Some(a)
  <2>1. <<>> \in Text
    BY EmptySeq DEF Text
  <2>2. Rendered(a) \in Text
    BY <2>1, RenderedAppend, Zenon DEF Address
  <2>. QED
    BY <2>2, AddressRoundTrip, Zenon
<1>2. ASSUME NEW a \in Address, TargetOf(a) # None
      PROVE  /\ TargetOf(a)[1].class \in IPClasses \cup DnsClasses
             /\ HostParses(TargetOf(a)[1].class, TargetOf(a)[1].host)
             /\ \/ /\ a[2] = <<"tcp">>
                   /\ TargetOf(a)[1].class = "ip4" /\ TargetOf(a)[1].host = <<Loopback[1]>>
                \/ a[2] = <<TargetOf(a)[1].class>> /\ a[3] = TargetOf(a)[1].host
  BY <1>2, TargetIs, Zenon
<1>3. ASSUME NEW services \in Seq({"proxy-tcp", "proxyme"}), NEW a \in Address,
             FindService(services, a) # None
      PROVE  \E s \in {"proxy-tcp", "proxyme"} :
                Accepts(s, a) /\ FindService(services, a) = Some(s)
  <2>. DEFINE C == {"proxy-tcp", "proxyme"}
  <2>. HIDE DEF C
  <2>1. services \in Seq(C)
    BY Zenon DEF C
  <2>2. \E s \in C : Accepts(s, a) /\ FindService(services, a) = Some(s)
    BY <1>3, <2>1, FoundServiceAccepts, Zenon
  <2>. QED
    BY <2>2, Zenon DEF C
<1>. QED
  BY <1>1, <1>2, <1>3, Zenon DEF RouteFacts

(***************************************************************************)
(* LinkInv is an inductive invariant of a tunnel and of one link on it,    *)
(* for any set-up, address, registry and resolver, and any amount of data  *)
(* copied.                                                                 *)
(***************************************************************************)
THEOREM LinkInvariance == LinkSpec => []LinkInv
<1>1. LinkInit => LinkInv
  BY LinkInitInv
<1>2. LinkInv /\ [LinkNext]_vars => LinkInv'
  BY RouteFactsHold, LinkStepInv
<1>. QED
  BY <1>1, <1>2, PTL DEF LinkSpec, LinkSafety

(***************************************************************************)
(* No side of a tunnel has a link under way before its own authentication  *)
(* has ended well, the stream of a link is never taken for the one the     *)
(* authentication runs on, whatever order they arrive in, and with         *)
(* SimpleAck the listening side succeeds only after the connecting one.    *)
(***************************************************************************)
THEOREM AuthenticationFirst == LinkSpec => []AuthenticationComesFirst
<1>1. LinkInv => AuthenticationComesFirst
  BY DEF LinkInv, AuthInv
<1>. QED
  BY <1>1, LinkInvariance, PTL

(***************************************************************************)
(* The address that the accepting side looks up is the one the opener      *)
(* asked for, for every address: what the negotiation writes, frames and   *)
(* reads back loses nothing of it.                                         *)
(***************************************************************************)
THEOREM AddressesArrive == LinkSpec => []AddressArrives
<1>1. LinkInv => AddressArrives
  <2>. SUFFICES ASSUME LinkInv
                PROVE  AddressArrives
    OBVIOUS
  <2>1. addr \in Address
    BY RouteFactsHold, AddrType DEF LinkInv
  <2>2. found # None => found[1].addr = addr
    BY Zenon DEF LinkInv, FoundInv
  <2>3. TargetOf(addr) # None => \A a \in {addr, Tail(addr)} : TargetFromStr(Rendered(a)) = TargetOf(addr)
    BY ONLY <2>1, TargetRoundTrip, Zenon
  <2>. QED
    BY <2>2, <2>3 DEF AddressArrives
<1>. QED
  BY <1>1, LinkInvariance, PTL

(***************************************************************************)
(* The two sides of a link agree on the outcome of its negotiation: the    *)
(* opener goes on only when the acceptor has found a service, and sees a   *)
(* refusal only when the acceptor refused.                                 *)
(***************************************************************************)
THEOREM SidesStayInAgreement == LinkSpec => []SidesAgree
<1>1. LinkInv => SidesAgree
  BY DEF LinkInv
<1>. QED
  BY <1>1, LinkInvariance, PTL

(***************************************************************************)
(* Each side of a proxied connection delivers a prefix of what the other   *)
(* side read from its TCP connection, in order.  It ends its stream behind *)
(* all that the other side passed on, which is all that side read unless   *)
(* its copying failed.  When both sides succeed, everything was delivered. *)
(***************************************************************************)
THEOREM PayloadStaysIntact == LinkSpec => []PayloadIntact
<1>1. LinkInv => PayloadIntact
  <2>. SUFFICES ASSUME LinkInv, NEW x \in Sides
                PROVE  /\ given[x] <= Len(got[x]) /\ Len(got[x]) <= taken[Peer(x)]
                       /\ \A i \in DOMAIN got[x] : got[x][i] = <<"data", i>>
                       /\ eof[x] => /\ given[x] = copied[Peer(x)]
                                    /\ \/ given[x] = taken[Peer(x)]
                                       \/ state[Peer(x)] = CopyError(Peer(x))
                       /\ state[x] = "done" /\ state[Peer(x)] = "done" => given[x] = taken[Peer(x)]
    BY Zenon DEF PayloadIntact
  <2>. DEFINE y == Peer(x)
  <2>1. /\ LinkTypeOK /\ CopyInv(x) /\ CopyInv(y) /\ BufferInv(x) /\ BufferInv(y) /\ y \in Sides
    BY InvFacts DEF LinkInv
  <2>2. taken[y] \in Nat /\ copied[y] \in Nat /\ Len(got[x]) \in Nat
    <3>1. got[x] \in Seq(Items)
      BY <2>1, ItemTypes, Zenon
    <3>2. Len(got[x]) \in Nat
      BY <3>1, ItemSeq, Zenon
    <3>. QED
      BY <2>1, <3>2, Zenon DEF LinkTypeOK
  <2>3. /\ Len(got[x]) <= copied[y] /\ copied[y] <= taken[y] /\ given[x] <= Len(got[x])
        /\ \A i \in DOMAIN got[x] : got[x][i] = <<"data", i>>
    BY <2>1, Zenon DEF CopyInv, BufferInv
  <2>4. Len(got[x]) <= taken[y]
    BY ONLY <2>2, <2>3
  <2>5. eof[x] => given[x] = copied[y] /\ (shut[y] \/ gone[y])
    BY <2>1, Zenon DEF CopyInv, BufferInv
  <2>6. shut[y] => copied[y] = taken[y]
    BY <2>1, Zenon DEF BufferInv
  <2>7. eof[x] /\ ~shut[y] => state[y] = CopyError(y) \/ given[x] = taken[y]
    <3>. SUFFICES ASSUME eof[x], ~shut[y], state[y] # CopyError(y)
                  PROVE  given[x] = taken[y]
      OBVIOUS
    <3>1. state[y] \in Ends /\ state[y] # "done"
      BY <2>1, <2>5, Zenon DEF CopyInv, BufferInv
    <3>2. state[y] # "copying"
      BY <3>1, Zenon DEF Ends, NegotiationErrors, ServiceErrors, RoutingErrors
    <3>3. taken[y] = 0
      BY <2>1, <3>1, <3>2, Zenon DEF BufferInv
    <3>4. copied[y] = 0
      BY ONLY <2>2, <2>3, <3>3
    <3>. QED
      BY <2>5, <3>3, <3>4
  <2>8. state[x] = "done" /\ state[y] = "done" => given[x] = taken[y]
    BY <2>1, <2>5, <2>6, Zenon DEF BufferInv
  <2>. HIDE DEF y
  <2>9. eof[x] => given[x] = copied[y] /\ (given[x] = taken[y] \/ state[y] = CopyError(y))
    BY ONLY <2>5, <2>6, <2>7
  <2>. QED
    BY <2>3, <2>4, <2>8, <2>9, Zenon DEF y
<1>. QED
  BY <1>1, LinkInvariance, PTL

(***************************************************************************)
(* The TCP proxy connects only to the address that the segments of the     *)
(* request name, or to one of those that the resolver has for the host     *)
(* they name, and only to a loopback one when it is told so.               *)
(***************************************************************************)
THEOREM ConnectionsStayWithinTarget == LinkSpec => []ConnectsWithinTarget
<1>1. LinkInv => ConnectsWithinTarget
  BY DEF LinkInv
<1>. QED
  BY <1>1, LinkInvariance, PTL
=============================================================================
