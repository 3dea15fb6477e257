------------------------ MODULE TunnelSourcesProofs ------------------------
(***************************************************************************)
(* SourcesInv is invariant, for any number of connections and keys.        *)
(***************************************************************************)
EXTENDS TunnelSources, TLAPS

LEMMA SourcesInitInv == SourcesInit => SourcesInv
<1> SUFFICES ASSUME SourcesInit PROVE SourcesInv
  OBVIOUS
<1>1. \A r \in Runs : tunnels[r] = <<>>
  BY DEF SourcesInit
<1>2. TunnelsInv
  BY <1>1, SourcesAssumption DEF SourcesInit, TunnelsInv, UniqueTunnels
<1>3. Made("listen") = {}
  BY <1>1 DEF Made, Runs
<1>4. QueueInv
  BY <1>3 DEF SourcesInit, QueueInv
<1> QED
  BY <1>2, <1>4 DEF SourcesInit, SourcesInv

\* A tunnel more: its id is new, and so is its connection.
LEMMA YieldInv ==
    ASSUME TunnelsInv, NEW r \in Runs, NEW c \in ConnsOf(r), c \notin Made(r), Yield(r, c)
    PROVE  TunnelsInv' /\ Made(r)' = Made(r) \cup {c}
<1> DEFINE Tunnel == [conn : Incoming \cup Attached, id : Nat]
           t == [conn |-> c, id |-> next]
           n == Len(tunnels[r])
<1>1. next \in Nat /\ tunnels \in [Runs -> Seq(Tunnel)]
  BY DEF TunnelsInv
<1>2. c \in Incoming \cup Attached
  BY DEF ConnsOf
<1>3. t \in Tunnel /\ \A e \in Tunnel : e.id \in Nat
  BY <1>1, <1>2
<1>4. t.conn = c /\ t.id = next
  OBVIOUS
<1>5. tunnels' = [tunnels EXCEPT ![r] = Append(tunnels[r], t)] /\ next' = next + 1
  BY <1>1 DEF Yield, FetchAdd
<1> HIDE DEF t, Tunnel
<1>6. /\ next \in Nat /\ tunnels \in [Runs -> Seq(Tunnel)] /\ n \in Nat
      /\ \A q \in Runs : tunnels[q] \in Seq(Tunnel)
      /\ \A q \in Runs : \A i \in DOMAIN tunnels[q] : tunnels[q][i].id \in Nat
  <2>1. \A q \in Runs : tunnels[q] \in Seq(Tunnel)
    BY <1>1
  <2>2. n \in Nat
    BY <2>1
  <2>3. \A q \in Runs : \A i \in DOMAIN tunnels[q] : tunnels[q][i] \in Tunnel
    BY <2>1
  <2> QED
    BY <1>1, <1>3, <2>1, <2>2, <2>3
<1>7. next' = next + 1
  BY <1>5
<1>8. /\ tunnels' \in [Runs -> Seq(Tunnel)] /\ next' \in Nat
      /\ \A q \in Runs \ {r} : tunnels'[q] = tunnels[q]
      /\ tunnels'[r] = Append(tunnels[r], t)
  <2>1. Append(tunnels[r], t) \in Seq(Tunnel)
    BY <1>6, <1>3
  <2> QED
    BY <1>6, <1>5, <2>1
<1>9. /\ DOMAIN tunnels[r] = 1 .. n /\ DOMAIN tunnels'[r] = 1 .. (n + 1)
      /\ \A i \in 1 .. n : tunnels'[r][i] = tunnels[r][i]
      /\ tunnels'[r][n + 1] = t
  BY <1>6, <1>8
<1>10. t.conn = c /\ t.id = next
  BY <1>4
<1> DEFINE Old(q, i) == ~(q = r /\ i = n + 1)
<1>11. \A q \in Runs : \A i \in DOMAIN tunnels'[q] : Old(q, i) =>
         i \in DOMAIN tunnels[q] /\ tunnels'[q][i] = tunnels[q][i]
  <2> SUFFICES ASSUME NEW q \in Runs, NEW i \in DOMAIN tunnels'[q], Old(q, i)
               PROVE  i \in DOMAIN tunnels[q] /\ tunnels'[q][i] = tunnels[q][i]
    OBVIOUS
  <2>1. CASE q = r
    BY <1>6, <1>9, <2>1
  <2>2. CASE q # r
    BY <1>8, <2>2
  <2> QED
    BY <2>1, <2>2
<1>12. \A q \in Runs : \A i \in DOMAIN tunnels'[q] :
         tunnels'[q][i].id < next' /\ tunnels'[q][i].conn \in ConnsOf(q)
  <2> SUFFICES ASSUME NEW q \in Runs, NEW i \in DOMAIN tunnels'[q]
               PROVE  tunnels'[q][i].id < next' /\ tunnels'[q][i].conn \in ConnsOf(q)
    OBVIOUS
  <2>1. CASE ~Old(q, i)
    BY <1>6, <1>7, <1>9, <1>10, <2>1
  <2>2. CASE Old(q, i)
    <3>1. i \in DOMAIN tunnels[q] /\ tunnels'[q][i] = tunnels[q][i]
      BY <1>11, <2>2
    <3>2. tunnels[q][i].id \in Nat
      BY <1>6, <3>1
    <3>3. tunnels[q][i].id < next /\ tunnels[q][i].conn \in ConnsOf(q)
      BY <3>1 DEF TunnelsInv
    <3> QED
      BY <1>6, <1>7, <3>1, <3>2, <3>3
  <2> QED
    BY <2>1, <2>2
\* Every tunnel there was differs from the one that is added.
<1>13. \A q \in Runs : \A i \in DOMAIN tunnels[q] :
         /\ tunnels[q][i].id \in Nat /\ tunnels[q][i].id < next
         /\ tunnels[q][i].conn # c
  <2> SUFFICES ASSUME NEW q \in Runs, NEW i \in DOMAIN tunnels[q]
               PROVE  /\ tunnels[q][i].id \in Nat /\ tunnels[q][i].id < next
                      /\ tunnels[q][i].conn # c
    OBVIOUS
  <2>1. tunnels[q][i].id < next /\ tunnels[q][i].conn \in ConnsOf(q)
    BY DEF TunnelsInv
  <2>2. tunnels[q][i].id \in Nat
    BY <1>6
  <2>3. CASE q = r
    BY <2>1, <2>2, <2>3 DEF Made
  <2>4. CASE q # r
    BY <2>1, <2>2, <2>4, SourcesAssumption DEF ConnsOf, Runs
  <2> QED
    BY <2>3, <2>4
<1>14. UniqueTunnels'
  <2> SUFFICES ASSUME NEW p \in Runs, NEW q \in Runs,
                      NEW i \in DOMAIN tunnels'[p], NEW j \in DOMAIN tunnels'[q],
                      <<p, i>> # <<q, j>>
               PROVE  /\ tunnels'[p][i].id # tunnels'[q][j].id
                      /\ tunnels'[p][i].conn # tunnels'[q][j].conn
                      /\ p = q /\ i < j => tunnels'[p][i].id < tunnels'[q][j].id
    BY DEF UniqueTunnels
  <2>2. CASE Old(p, i) /\ Old(q, j)
    <3>1. /\ i \in DOMAIN tunnels[p] /\ tunnels'[p][i] = tunnels[p][i]
          /\ j \in DOMAIN tunnels[q] /\ tunnels'[q][j] = tunnels[q][j]
      BY <1>11, <2>2
    <3> QED
      BY <3>1 DEF TunnelsInv, UniqueTunnels
  <2>3. CASE Old(p, i) /\ ~Old(q, j)
    <3>1. /\ i \in DOMAIN tunnels[p] /\ tunnels'[p][i] = tunnels[p][i] /\ tunnels'[q][j] = t
      BY <1>9, <1>11, <2>3
    <3> QED
      BY <1>6, <1>10, <1>13, <3>1
  <2>4. CASE ~Old(p, i) /\ Old(q, j)
    <3>1. /\ j \in DOMAIN tunnels[q] /\ tunnels'[q][j] = tunnels[q][j] /\ tunnels'[p][i] = t
      BY <1>9, <1>11, <2>4
    <3>2. ~(p = q /\ i < j)
      BY <1>6, <1>9, <2>4, <3>1
    <3> QED
      BY <1>6, <1>10, <1>13, <3>1, <3>2
  <2>5. CASE ~Old(p, i) /\ ~Old(q, j)
    BY <2>5
  <2> QED
    BY <2>2, <2>3, <2>4, <2>5
<1>15. Made(r)' = Made(r) \cup {c}
  <2>1. 1 .. (n + 1) = (1 .. n) \cup {n + 1}
    BY <1>6
  <2> QED
    BY <1>9, <1>10, <2>1 DEF Made
<1> QED
  BY <1>8, <1>12, <1>14, <1>15 DEF TunnelsInv, Tunnel

LEMMA MadeFrame ==
    ASSUME UNCHANGED tunnels
    PROVE  \A r \in Runs : Made(r)' = Made(r)
  BY DEF Made

LEMMA TunnelsFrame ==
    ASSUME TunnelsInv, UNCHANGED <<next, tunnels>>
    PROVE  TunnelsInv'
<1>1. UniqueTunnels'
  BY DEF TunnelsInv, UniqueTunnels
<1> QED
  BY <1>1 DEF TunnelsInv

\* The queue of the endpoint.
LEMMA QueueFrame ==
    ASSUME QueueInv, UNCHANGED <<arrived, handshake>>, Made("listen")' = Made("listen")
    PROVE  QueueInv'
  BY DEF QueueInv

LEMMA ArriveInv ==
    ASSUME QueueInv, NEW c \in Incoming, Arrive(c)
    PROVE  QueueInv'
<1> DEFINE n == Len(arrived)
<1>1. Made("listen")' = Made("listen")
  BY MadeFrame DEF Arrive, Runs
<1>2. arrived \in Seq(Incoming) /\ n \in Nat /\ DOMAIN arrived = 1 .. n
  BY DEF QueueInv
<1>3. /\ arrived' = Append(arrived, c) /\ arrived' \in Seq(Incoming)
      /\ DOMAIN arrived' = 1 .. (n + 1)
      /\ arrived'[n + 1] = c /\ \A i \in 1 .. n : arrived'[i] = arrived[i]
  BY <1>2 DEF Arrive
<1>4. /\ c # handshake /\ c \notin Made("listen") /\ handshake' = handshake
      /\ \A i \in 1 .. n : arrived[i] # c
  BY <1>2 DEF Arrive
<1>5. \A i \in 1 .. (n + 1) : i = n + 1 \/ i \in 1 .. n
  BY <1>2
<1> QED
  BY <1>1, <1>2, <1>3, <1>4, <1>5 DEF QueueInv

LEMMA AcceptInv ==
    ASSUME QueueInv, AcceptIncoming
    PROVE  QueueInv'
<1> DEFINE n == Len(arrived)
<1>1. Made("listen")' = Made("listen")
  BY MadeFrame DEF AcceptIncoming, Runs
<1>2. arrived \in Seq(Incoming) /\ arrived # <<>> /\ n \in Nat /\ n > 0 /\ DOMAIN arrived = 1 .. n
  BY DEF QueueInv, AcceptIncoming
<1>3. /\ arrived' \in Seq(Incoming) /\ DOMAIN arrived' = 1 .. (n - 1)
      /\ \A i \in 1 .. (n - 1) : i + 1 \in 1 .. n /\ arrived'[i] = arrived[i + 1]
  BY <1>2 DEF AcceptIncoming
<1>4. handshake' \in {arrived[1], NoConn} /\ 1 \in 1 .. n /\ handshake = NoConn
  BY <1>2 DEF AcceptIncoming
<1>5. \A i \in 1 .. (n - 1) : i + 1 # 1
  BY <1>2
<1>6. \A i, j \in 1 .. (n - 1) : i # j => i + 1 # j + 1
  BY <1>2
<1>7. handshake' \in Incoming \cup {NoConn} /\ handshake' \notin Made("listen")
  BY <1>2, <1>4 DEF QueueInv
<1>8. \A i \in DOMAIN arrived' : arrived'[i] # handshake' /\ arrived'[i] \notin Made("listen")
  BY <1>2, <1>3, <1>4, <1>5 DEF QueueInv
<1>9. \A i, j \in DOMAIN arrived' : i # j => arrived'[i] # arrived'[j]
  BY <1>2, <1>3, <1>6 DEF QueueInv
<1> QED
  BY <1>1, <1>3, <1>7, <1>8, <1>9 DEF QueueInv
-----------------------------------------------------------------------------
LEMMA SourcesStepInv == SourcesInv /\ [SourcesNext]_vars => SourcesInv'
<1> SUFFICES ASSUME SourcesInv, [SourcesNext]_vars PROVE SourcesInv'
  OBVIOUS
<1> DEFINE SetType == streams \in [Keys -> Attached \cup {NoConn}]
<1> USE DEF Runs
<1>1. TunnelsInv /\ QueueInv /\ SetType
  BY DEF SourcesInv
\* Steps that make no tunnel and leave the queue alone.
<1>2. ASSUME UNCHANGED <<next, tunnels, arrived, handshake>>, SetType' PROVE SourcesInv'
  BY <1>1, <1>2, MadeFrame, TunnelsFrame, QueueFrame DEF SourcesInv
<1>3. CASE UNCHANGED vars \/ CloseEndpoint \/ Shutdown \/ Handshake \/ ListenPending \/ ListenEnds
           \/ PollContended \/ \E r \in Runs : SeesShutdown(r)
  BY <1>1, <1>2, <1>3
  DEF vars, CloseEndpoint, Shutdown, Handshake, ListenPending, ListenEnds, PollContended,
      SeesShutdown, End, endpointVars, setVars
<1>4. CASE PollPending \/ PollEnds
  BY <1>1, <1>2, <1>4 DEF PollPending, PollEnds, End, endpointVars
<1>5. ASSUME NEW c \in Attached, LockSet(c) \/ BecomeReady(c) \/ \E k \in Keys : Attach(c, k)
      PROVE  SourcesInv'
  BY <1>1, <1>2, <1>5 DEF LockSet, BecomeReady, Attach, endpointVars
<1>6. ASSUME NEW k \in Keys, Detach(k) PROVE SourcesInv'
  BY <1>1, <1>2, <1>6 DEF Detach, endpointVars
<1>7. ASSUME NEW c \in Incoming, Arrive(c) PROVE SourcesInv'
  BY <1>1, <1>7, ArriveInv, TunnelsFrame DEF Arrive, setVars, SourcesInv
<1>8. CASE AcceptIncoming
  BY <1>1, <1>8, AcceptInv, TunnelsFrame DEF AcceptIncoming, setVars, SourcesInv
<1>9. CASE HandshakeEnds
  <2>1. handshake \in Incoming /\ handshake \notin Made("listen") /\ arrived' = arrived
        /\ handshake' = NoConn /\ SetType'
    BY <1>1, <1>9 DEF HandshakeEnds, QueueInv, setVars
  <2>2. \A i \in DOMAIN arrived : arrived[i] # NoConn
    BY <1>1, SourcesAssumption DEF QueueInv
  <2>3. CASE Yield("listen", handshake)
    <3>1. TunnelsInv' /\ Made("listen")' = Made("listen") \cup {handshake}
      BY <1>1, <2>1, <2>3, YieldInv DEF ConnsOf
    <3>2. NoConn \notin Made("listen")'
      BY <3>1, SourcesAssumption DEF TunnelsInv, Made, ConnsOf
    <3>3. QueueInv'
      BY <1>1, <2>1, <2>2, <3>1, <3>2 DEF QueueInv
    <3> QED
      BY <2>1, <3>1, <3>3 DEF SourcesInv
  <2>4. CASE UNCHANGED <<next, tunnels>>
    <3>1. TunnelsInv' /\ Made("listen")' = Made("listen")
      BY <1>1, <2>4, TunnelsFrame, MadeFrame
    <3>2. NoConn \notin Made("listen")'
      BY <3>1, SourcesAssumption DEF TunnelsInv, Made, ConnsOf
    <3>3. QueueInv'
      BY <1>1, <2>1, <2>2, <3>1, <3>2 DEF QueueInv
    <3> QED
      BY <2>1, <3>1, <3>3 DEF SourcesInv
  <2> QED
    BY <1>9, <2>3, <2>4 DEF HandshakeEnds
<1>10. CASE PollYields
  <2>1. PICK c \in (InSet \cap ready) \ Made("dynamic") : Yield("dynamic", c)
    BY <1>10 DEF PollYields
  <2>2. c \in ConnsOf("dynamic") /\ c \notin Made("dynamic")
    BY <1>1, <2>1 DEF InSet, ConnsOf
  <2>3. TunnelsInv'
    BY <1>1, <2>1, <2>2, YieldInv
  <2>4. Made("listen")' = Made("listen")
    BY <1>1, <2>1 DEF Yield, TunnelsInv, Made
  <2> QED
    BY <1>1, <1>10, <2>3, <2>4, QueueFrame DEF PollYields, endpointVars, setVars, SourcesInv
<1> QED
  BY <1>3, <1>4, <1>5, <1>6, <1>7, <1>8, <1>9, <1>10 DEF SourcesNext, Poll

(***************************************************************************)
(* Two runs of one daemon that take their ids from one generator give no   *)
(* id twice, in order in each run, and make no connection into two         *)
(* tunnels (ConstructedTunnelStream, MonotonicAtomicGenerator).            *)
(***************************************************************************)
THEOREM TunnelsAreUnique == SourcesSpec => []UniqueTunnels
<1>1. SourcesInv => UniqueTunnels
  BY DEF SourcesInv, TunnelsInv
<1> QED
  BY <1>1, SourcesInitInv, SourcesStepInv, PTL DEF SourcesSpec
=============================================================================
