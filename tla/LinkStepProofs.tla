--------------------------- MODULE LinkStepProofs ---------------------------
(***************************************************************************)
(* The steps of a link, from the authentication of its tunnel to the last  *)
(* byte copied, keep LinkInv. The heart of the invariant is WireInv: what  *)
(* is on a wire is the part of what its writer has sent that the reader    *)
(* has not read yet. Every action is shown to keep it in the terms of the  *)
(* lemmas on writing and on reading.                                       *)
(***************************************************************************)
EXTENDS Link, TLAPS

\* Each side has one peer, the other one.
LEMMA TwoSides ==
    /\ Peer("Listen") = "Connect" /\ Peer("Connect") = "Listen"
    /\ \A x \in Sides : Peer(x) \in Sides /\ Peer(x) # x /\ Peer(Peer(x)) = x
    /\ \A x, y \in Sides : y = x \/ y = Peer(x)
<1>1. Peer("Listen") = "Connect"
  BY DEF Peer, Sides
<1>2. Peer("Connect") = "Listen"
  BY DEF Peer, Sides
<1>. QED
  BY <1>1, <1>2 DEF Sides

\* What the provers need of a sequence of items.
LEMMA ItemSeq ==
    ASSUME NEW s \in Seq(Items)
    PROVE  /\ Len(s) \in Nat /\ DOMAIN s = 1 .. Len(s)
           /\ s # <<>> => Len(s) \in Nat \ {0} /\ Head(s) = s[1] /\ s[1] \in Items /\ 1 \in 1 .. Len(s)
<1>. DEFINE I == Items
<1>1. s \in Seq(I)
  OBVIOUS
<1>. HIDE DEF I
<1>2. Len(s) \in Nat /\ DOMAIN s = 1 .. Len(s)
  BY ONLY <1>1
<1>3. s # <<>> => Len(s) \in Nat \ {0} /\ Head(s) = s[1] /\ s[1] \in I /\ 1 \in 1 .. Len(s)
  BY ONLY <1>1
<1>. QED
  BY <1>2, <1>3, Zenon DEF I

\* Items written behind those on the wire.
LEMMA ItemConcat ==
    ASSUME NEW s \in Seq(Items), NEW t \in Seq(Items)
    PROVE  /\ Len(s \o t) = Len(s) + Len(t)
           /\ \A i \in 1 .. Len(s) : (s \o t)[i] = s[i]
           /\ \A i \in Len(s) + 1 .. Len(s) + Len(t) : (s \o t)[i] = t[i - Len(s)]
<1>. DEFINE I == Items
<1>1. s \in Seq(I) /\ t \in Seq(I)
  OBVIOUS
<1>. HIDE DEF I
<1>. QED
  BY ONLY <1>1

\* The states a side of the link may be in.
States == Negotiating \cup {"copying"} \cup Ends

\* The type invariant, with States for the sets it names.
LEMMA TypeFacts ==
    ASSUME LinkTypeOK
    PROVE  /\ state \in [Sides -> States] /\ gone \in [Sides -> BOOLEAN]
           /\ wire \in [Sides -> Seq(Items)]
           /\ \A x \in Sides : Peer(x) \in Sides
           /\ Opener \in Sides /\ Acceptor \in Sides
<1>1. Opener \in Sides
  BY LinkAssumption DEF LinkTypeOK, Opener, Sides
<1>. QED
  BY <1>1, TwoSides, Zenon DEF LinkTypeOK, States, Acceptor

\* What is on the wire, and what a side has copied in, are items.
LEMMA ItemTypes ==
    ASSUME LinkTypeOK
    PROVE  \A x \in Sides : wire[x] \in Seq(Items) /\ got[x] \in Seq(Items)
<1>. DEFINE S == Seq(Items)
<1>1. wire \in [Sides -> S] /\ got \in [Sides -> S]
  BY DEF LinkTypeOK
<1>. HIDE DEF S
<1>2. \A x \in Sides : wire[x] \in S /\ got[x] \in S
  BY ONLY <1>1
<1>. QED
  BY <1>2, Zenon DEF S

\* A step of side x leaves the state of its peer alone.
Frame(x) ==
    /\ setup' = setup /\ addr' = addr
    /\ state'[Peer(x)] = state[Peer(x)] /\ gone'[Peer(x)] = gone[Peer(x)]
    /\ copied'[Peer(x)] = copied[Peer(x)] /\ shut'[Peer(x)] = shut[Peer(x)]
    /\ got'[Peer(x)] = got[Peer(x)] /\ eof'[Peer(x)] = eof[Peer(x)]

\* Two states in which a side has written as much to the link.
SameStage(s, t) ==
    \/ {s, t} \subseteq {"idle", "start", "magic read"}
    \/ {s, t} \subseteq {"magic sent", "joined", "versioned", "found"}
    \/ {s, t} \subseteq {"asked", "accepted", "copying"}

\* What a side sent does not change when later steps settle what comes behind
\* it.
LEMMA SentKept ==
    ASSUME NEW x, NEW k \in Nat \ {0}, setup' = setup, addr' = addr, copied'[x] = copied[x],
           found' = found \/ k < 3 \/ x = Opener
    PROVE  Sent(x, k)' = Sent(x, k)
BY DEF Sent, Opener

\* What a side has read is told by its state and by what it copied in.
LEMMA ReadByKept ==
    ASSUME NEW x, state'[x] = state[x], got'[x] = got[x]
    PROVE  ReadBy(x)' = ReadBy(x)
BY DEF ReadBy

\* A side has read a number of items.
LEMMA ReadByType ==
    ASSUME LinkTypeOK, NEW x \in Sides
    PROVE  ReadBy(x) \in Nat
<1>1. Len(got[x]) \in Nat
  BY DEF LinkTypeOK
<1>2. 3 + Len(got[x]) \in Nat
  BY <1>1
<1>. QED
  BY <1>2, Zenon DEF ReadBy

\* A step of side x that writes nothing keeps what is known of the wire from x,
\* if x stays in its stage or ends.
LEMMA ActorWriterQuiet ==
    ASSUME LinkTypeOK, NEW x \in Sides, WireInv(x), Frame(x),
           wire'[x] = wire[x], copied'[x] = copied[x], shut'[x] = shut[x],
           found' = found \/ state[x] = "versioned",
           \/ state'[x] = state[x]
           \/ state[x] \notin Ends /\ (SameStage(state[x], state'[x]) \/ state'[x] \in Ends)
    PROVE  WireInv(x)'
<1>. DEFINE y == Peer(x)
<1>1. y \in Sides /\ y # x
  BY TwoSides
<1>2. /\ setup' = setup /\ addr' = addr /\ state'[y] = state[y]
      /\ got'[y] = got[y] /\ eof'[y] = eof[y]
  BY DEF Frame
<1>3. Acceptor' = Acceptor /\ Peer(x)' = y
  BY <1>2 DEF Acceptor, Opener, Peer, Sides
<1>. SUFFICES ASSUME state[y] \notin Ends, ~eof[y]
              PROVE  WireInv(x)'
  BY <1>2, <1>3, Zenon DEF WireInv
<1>4. /\ \A i \in 1 .. Len(wire[x]) : wire[x][i] = Sent(x, ReadBy(y) + i)
      /\ \/ Written(x) \in {0, 2} /\ copied[x] = 0 /\ ~shut[x]
         \/ Written(x) = 3 + copied[x] /\ ~shut[x]
         \/ Written(x) = 4 + copied[x] /\ shut[x]
      /\ state[x] \in {"idle", "start", "magic read"} => Written(x) = 0
      /\ state[x] \in {"magic sent", "joined", "versioned", "found"} => Written(x) = 2
      /\ state[x] \in {"asked", "accepted", "copying"} => Written(x) >= 3
      /\ x = Acceptor /\ Written(x) >= 3 =>
            found # None /\ (found[1].service = None => state[x] = "Refused")
  BY Zenon DEF WireInv
<1>5. ReadBy(y) \in Nat /\ Len(wire[x]) \in Nat /\ Written(x) = ReadBy(y) + Len(wire[x])
  <2>1. ReadBy(y) \in Nat
    BY <1>1, ReadByType, Zenon
  <2>2. Len(wire[x]) \in Nat
    BY ItemTypes, ItemSeq, Zenon
  <2>. QED
    BY <2>1, <2>2, Zenon DEF Written
<1>6. ReadBy(y)' = ReadBy(y) /\ Written(x)' = Written(x)
  <2>1. ReadBy(y)' = ReadBy(y)
    BY <1>2, ReadByKept
  <2>. QED
    BY <1>3, <2>1 DEF Written
<1>7. ASSUME NEW i \in 1 .. Len(wire[x])
      PROVE  Sent(x, ReadBy(y) + i)' = Sent(x, ReadBy(y) + i)
  <2>. HIDE DEF y
  <2>1. state[x] = "versioned" => Written(x) = 2
    BY <1>4
  <2>2. ReadBy(y) + i \in Nat \ {0} /\ (state[x] = "versioned" => ReadBy(y) + i < 3)
    BY ONLY <1>5, <2>1, i \in 1 .. Len(wire[x])
  <2>. QED
    BY <1>2, <1>6, <2>2, SentKept
<1>. HIDE DEF y
<1>8. \A i \in 1 .. Len(wire'[x]) : wire'[x][i] = Sent(x, ReadBy(y) + i)'
  BY <1>4, <1>7, Zenon
<1>9. /\ \/ Written(x)' \in {0, 2} /\ copied'[x] = 0 /\ ~shut'[x]
         \/ Written(x)' = 3 + copied'[x] /\ ~shut'[x]
         \/ Written(x)' = 4 + copied'[x] /\ shut'[x]
      /\ state'[x] \in {"idle", "start", "magic read"} => Written(x)' = 0
      /\ state'[x] \in {"magic sent", "joined", "versioned", "found"} => Written(x)' = 2
      /\ state'[x] \in {"asked", "accepted", "copying"} => Written(x)' >= 3
  <2>1. CASE state'[x] = state[x]
    BY <1>4, <1>6, <2>1, Zenon
  <2>2. CASE state[x] \notin Ends /\ SameStage(state[x], state'[x])
    BY <1>4, <1>6, <2>2, Zenon DEF SameStage
  <2>3. CASE state'[x] \in Ends
    BY <1>4, <1>6, <2>3, Zenon DEF Ends, NegotiationErrors, ServiceErrors, RoutingErrors
  <2>. QED
    BY <2>1, <2>2, <2>3, Zenon
<1>10. ASSUME x = Acceptor, Written(x) >= 3
       PROVE  found' # None /\ (found'[1].service = None => state'[x] = "Refused")
  <2>1. state[x] # "versioned"
    <3>1. state[x] = "versioned" => Written(x) = 2
      BY <1>4
    <3>. QED
      BY ONLY <1>10, <3>1
  <2>2. state[x] \notin Ends => state[x] # "Refused"
    BY DEF Ends, NegotiationErrors
  <2>. QED
    BY <1>4, <1>10, <2>1, <2>2, Zenon
<1>. QED
  BY <1>3, <1>6, <1>8, <1>9, <1>10, Zenon DEF WireInv

\* A step of side x that reads nothing keeps what is known of the wire to x,
\* and so does one after which x reads no more.
LEMMA ActorReaderQuiet ==
    ASSUME LinkTypeOK, NEW x \in Sides, WireInv(Peer(x)), Frame(x),
           wire'[Peer(x)] = wire[Peer(x)], found' = found,
           \/ state'[x] \in Ends \/ eof'[x]
           \/ state[x] \notin Ends /\ ~eof[x] /\ ReadBy(x)' = ReadBy(x)
    PROVE  WireInv(Peer(x))'
<1>. DEFINE w == Peer(x)
<1>1. w \in Sides /\ w # x /\ Peer(w) = x
  BY TwoSides
<1>2. /\ setup' = setup /\ addr' = addr /\ state'[w] = state[w]
      /\ copied'[w] = copied[w] /\ shut'[w] = shut[w]
  BY DEF Frame
<1>3. Acceptor' = Acceptor /\ Peer(w)' = x
  BY <1>1, <1>2 DEF Acceptor, Opener, Peer, Sides
<1>4. WireInv(w)
  OBVIOUS
<1>. HIDE DEF w
<1>. SUFFICES ASSUME state'[x] \notin Ends, ~eof'[x]
              PROVE  WireInv(w)'
  BY <1>3, Zenon DEF WireInv, w
<1>5. state[x] \notin Ends /\ ~eof[x] /\ ReadBy(x)' = ReadBy(x)
  OBVIOUS
<1>6. ReadBy(x) \in Nat /\ Len(wire[w]) \in Nat
  BY <1>1, ReadByType, ItemTypes, ItemSeq, Zenon
<1>7. wire'[w] = wire[w]
  BY DEF w
<1>8. Written(w)' = Written(w)
  BY <1>1, <1>3, <1>5, <1>7 DEF Written
<1>9. ASSUME NEW i \in 1 .. Len(wire[w])
      PROVE  Sent(w, ReadBy(x) + i)' = Sent(w, ReadBy(x) + i)
  <2>1. ReadBy(x) + i \in Nat \ {0}
    BY <1>6
  <2>. QED
    BY <1>2, <1>5, <2>1, SentKept
<1>10. \A i \in 1 .. Len(wire'[w]) : wire'[w][i] = Sent(w, ReadBy(x) + i)'
  BY <1>1, <1>4, <1>5, <1>7, <1>9, Zenon DEF WireInv
<1>. QED
  BY <1>1, <1>2, <1>3, <1>4, <1>5, <1>8, <1>10, Zenon DEF WireInv

\* So does a step of x that takes one item off the wire and counts it.
LEMMA ActorReads ==
    ASSUME LinkTypeOK, NEW x \in Sides, WireInv(Peer(x)), Frame(x),
           wire[Peer(x)] # <<>>, wire'[Peer(x)] = Tail(wire[Peer(x)]),
           found' = found \/ Peer(x) = Opener,
           state[x] \notin Ends, ~eof[x],
           state'[x] \in Ends \/ ReadBy(x)' = ReadBy(x) + 1
    PROVE  WireInv(Peer(x))'
<1>. DEFINE w == Peer(x)
<1>1. w \in Sides /\ w # x /\ Peer(w) = x
  BY TwoSides
<1>2. /\ setup' = setup /\ addr' = addr /\ state'[w] = state[w]
      /\ copied'[w] = copied[w] /\ shut'[w] = shut[w]
  BY DEF Frame
<1>3. Acceptor' = Acceptor /\ Opener' = Opener /\ Peer(w)' = x /\ (w = Opener => w # Acceptor)
  <2>1. Opener' = Opener /\ Acceptor' = Acceptor
    BY <1>2 DEF Acceptor, Opener, Peer, Sides
  <2>2. Peer(w)' = x
    BY <1>1 DEF Peer, Sides
  <2>3. w = Opener => w # Acceptor
    BY <1>1, TwoSides DEF Acceptor
  <2>. QED
    BY <2>1, <2>2, <2>3
<1>4. WireInv(w)
  OBVIOUS
<1>5. /\ wire[w] \in Seq(Items) /\ wire[w] # <<>> /\ wire'[w] = Tail(wire[w])
      /\ found' = found \/ w = Opener
  BY <1>1 DEF LinkTypeOK
<1>. HIDE DEF w
<1>. SUFFICES ASSUME state'[x] \notin Ends, ~eof'[x]
              PROVE  WireInv(w)'
  BY <1>3, Zenon DEF WireInv, w
<1>6. ReadBy(x)' = ReadBy(x) + 1 /\ ReadBy(x) \in Nat /\ Len(wire[w]) \in Nat \ {0}
  BY <1>1, <1>5, ReadByType
<1>7. Len(wire'[w]) = Len(wire[w]) - 1 /\ \A i \in 1 .. Len(wire'[w]) : wire'[w][i] = wire[w][i + 1]
  BY <1>5
<1>8. Written(w)' = Written(w)
  <2>1. Written(w) = ReadBy(x) + Len(wire[w]) /\ Written(w)' = ReadBy(x)' + Len(wire'[w])
    BY <1>1, <1>3 DEF Written
  <2>. QED
    BY ONLY <1>6, <1>7, <2>1
<1>9. ASSUME NEW i \in 1 .. Len(wire'[w])
      PROVE  wire'[w][i] = Sent(w, ReadBy(x) + i)'
  <2>. DEFINE k == ReadBy(x) + (i + 1)
  <2>1. i + 1 \in 1 .. Len(wire[w]) /\ ReadBy(x)' + i = k /\ k \in Nat \ {0}
    <3>1. Len(wire'[w]) = Len(wire[w]) - 1
      BY <1>7
    <3>. QED
      BY ONLY <1>6, <3>1, i \in 1 .. Len(wire'[w])
  <2>2. wire[w][i + 1] = Sent(w, k)
    BY <1>1, <1>4, <1>5, <2>1, Zenon DEF WireInv
  <2>3. ASSUME NEW m \in Nat \ {0}
        PROVE  Sent(w, m)' = Sent(w, m)
    BY <1>2, <1>5, SentKept
  <2>4. (ReadBy(x) + i)' = k
    BY <2>1
  <2>. QED
    BY <1>7, <2>1, <2>2, <2>3, <2>4
<1>. QED
  BY <1>1, <1>2, <1>3, <1>4, <1>5, <1>8, <1>9, Zenon DEF WireInv

\* A step that copies nothing keeps what is known of the copying.
LEMMA CopyKept ==
    ASSUME LinkTypeOK, NEW x \in Sides, CopyInv(x), CopyInv(Peer(x)), Frame(x),
           copied'[x] = copied[x], shut'[x] = shut[x], got'[x] = got[x], eof'[x] = eof[x],
           state'[x] \in Negotiating => state[x] \in Negotiating,
           gone[x] => gone'[x], gone'[x] => state'[x] \in Ends
    PROVE  CopyInv(x)' /\ CopyInv(Peer(x))'
<1>. DEFINE y == Peer(x)
<1>1. Peer(y) = x
  BY TwoSides
<1>2. /\ state'[y] = state[y] /\ gone'[y] = gone[y] /\ copied'[y] = copied[y]
      /\ shut'[y] = shut[y] /\ got'[y] = got[y] /\ eof'[y] = eof[y]
  BY DEF Frame
<1>3. Peer(x)' = y /\ Peer(y)' = x
  BY <1>1 DEF Peer
<1>4. CopyInv(x) /\ CopyInv(y)
  OBVIOUS
<1>. HIDE DEF y
<1>5. CopyInv(x)'
  BY <1>2, <1>3, <1>4 DEF CopyInv, y
<1>6. CopyInv(y)'
  BY <1>1, <1>2, <1>3, <1>4 DEF CopyInv
<1>. QED
  BY <1>5, <1>6 DEF y

\* The states before the address is known to the accepting side.
Early == {"idle", "start", "magic sent", "magic read", "joined", "versioned"}

\* The moves of x that cannot break what the two sides settled on.
Moves(x) ==
    \/ state'[x] = state[x]
    \/ state[x] \notin Ends /\ state'[x] \in Ends \ {"Refused", "demand", "done"}
    \/ state[x] = "copying" /\ state'[x] = "done"
    \/ state[x] \in Early /\ state'[x] \in Early
    \/ x = Opener /\ state'[x] = "asked" /\ state[x] \notin Ends

\* Such a move keeps the agreement of the two sides and the target.
LEMMA SettledKept ==
    ASSUME LinkTypeOK, FoundInv, SidesAgree, ConnectsWithinTarget,
           NEW x \in Sides, Frame(x), found' = found, connected' = connected, Moves(x)
    PROVE  FoundInv' /\ SidesAgree' /\ ConnectsWithinTarget'
<1>. DEFINE y == Peer(x)
<1>1. setup' = setup /\ addr' = addr /\ state'[y] = state[y]
  BY DEF Frame
<1>2. Opener' = Opener /\ Acceptor' = Acceptor
  BY <1>1 DEF Acceptor, Opener, Peer
<1>3. Opener \in Sides /\ Acceptor \in Sides /\ Acceptor # Opener
  BY LinkAssumption, TwoSides DEF LinkTypeOK, Opener, Acceptor, Sides
<1>4. \/ x = Opener /\ y = Acceptor
      \/ x = Acceptor /\ y = Opener
  BY <1>3, TwoSides DEF Acceptor
<1>. HIDE DEF y
<1>5. ConnectsWithinTarget'
  BY <1>1 DEF ConnectsWithinTarget
<1>6. FoundInv'
  BY <1>1, <1>2, <1>3, <1>4, Zenon DEF FoundInv, Moves, Early, Ends, NegotiationErrors, ServiceErrors, RoutingErrors
<1>7. SidesAgree'
  BY <1>1, <1>2, <1>3, <1>4, Zenon DEF SidesAgree, Moves, Early, Ends, NegotiationErrors, ServiceErrors, RoutingErrors
<1>. QED
  BY <1>5, <1>6, <1>7

\* What every step has to keep, authentication and types aside.
Kept ==
    /\ FoundInv' /\ SidesAgree' /\ ConnectsWithinTarget'
    /\ \A x \in Sides : CopyInv(x)' /\ WireInv(x)'

\* Two sides are all there are.
LEMMA BothSides ==
    ASSUME NEW x \in Sides, FoundInv' /\ SidesAgree' /\ ConnectsWithinTarget',
           CopyInv(x)' /\ CopyInv(Peer(x))', WireInv(x)', WireInv(Peer(x))'
    PROVE  Kept
<1>. SUFFICES ASSUME NEW z \in Sides
              PROVE  CopyInv(z)' /\ WireInv(z)'
  BY DEF Kept
<1>1. CASE z = x
  BY <1>1
<1>2. CASE z = Peer(x)
  BY <1>2
<1>. QED
  BY <1>1, <1>2, TwoSides

\* Nothing is claimed of a wire that nobody reads.
LEMMA ReaderEnds ==
    ASSUME NEW x \in Sides, state'[x] \in Ends \/ eof'[x]
    PROVE  WireInv(Peer(x))'
<1>1. Peer(Peer(x))' = x
  BY TwoSides DEF Peer
<1>. QED
  BY <1>1, Zenon DEF WireInv

\* A side that fails, and drops its streams, leaves the rest as it was.
LEMMA FailureKeeps ==
    ASSUME LinkInv, NEW x \in Sides, state[x] \notin Ends,
           NEW e \in Ends \ {"Refused", "demand", "done"},
           state' = [state EXCEPT ![x] = e], gone' = [gone EXCEPT ![x] = TRUE],
           wire'[x] = wire[x], UNCHANGED <<setup, addr, found, copyVars>>
    PROVE  Kept
<1>. DEFINE y == Peer(x)
<1>1. y \in Sides /\ y # x
  BY TwoSides
<1>2. /\ LinkTypeOK /\ FoundInv /\ SidesAgree /\ ConnectsWithinTarget
      /\ CopyInv(x) /\ CopyInv(y) /\ WireInv(x) /\ WireInv(y)
  BY <1>1 DEF LinkInv
<1>3. /\ state'[x] = e /\ state'[y] = state[y] /\ gone'[x] = TRUE /\ gone'[y] = gone[y]
      /\ copied' = copied /\ shut' = shut /\ got' = got /\ eof' = eof /\ connected' = connected
      /\ setup' = setup /\ addr' = addr /\ found' = found
  BY <1>1, <1>2 DEF LinkTypeOK, copyVars
<1>4. Frame(x)
  BY <1>3, Zenon DEF Frame
<1>5. e \in Ends /\ e \notin Negotiating
  BY Zenon DEF Ends, Negotiating, NegotiationErrors, ServiceErrors, RoutingErrors
<1>6. FoundInv' /\ SidesAgree' /\ ConnectsWithinTarget'
  <2>1. Moves(x)
    BY <1>3 DEF Moves
  <2>. QED
    BY ONLY <1>2, <1>3, <1>4, <2>1, SettledKept, x \in Sides
<1>7. CopyInv(x)' /\ CopyInv(y)'
  BY ONLY <1>2, <1>3, <1>4, <1>5, CopyKept, x \in Sides
<1>8. WireInv(x)'
  BY ONLY <1>2, <1>3, <1>4, <1>5, ActorWriterQuiet, x \in Sides, state[x] \notin Ends, wire'[x] = wire[x]
<1>9. WireInv(y)'
  BY <1>3, <1>5, ReaderEnds
<1>. QED
  BY ONLY <1>6, <1>7, <1>8, <1>9, BothSides, x \in Sides

\* Items that x writes while its peer reads are those that Sent names, in this
\* order.
LEMMA ActorWrites ==
    ASSUME LinkTypeOK, NEW x \in Sides, WireInv(x), Frame(x),
           state[Peer(x)] \notin Ends, ~eof[Peer(x)],
           NEW items \in Seq(Items), wire'[x] = wire[x] \o items,
           NEW n \in Nat, Written(x) = n,
           \A k \in 1 .. n : Sent(x, k)' = Sent(x, k),
           \A i \in 1 .. Len(items) : items[i] = Sent(x, n + i)'
    PROVE  /\ \A i \in 1 .. Len(wire'[x]) : wire'[x][i] = Sent(x, ReadBy(Peer(x)) + i)'
           /\ Written(x)' = n + Len(items)
<1>. DEFINE y == Peer(x)
            r == ReadBy(y)
            m == Len(wire[x])
<1>1. y \in Sides /\ Peer(x)' = y
  BY TwoSides DEF Peer
<1>2. ReadBy(y)' = ReadBy(y)
  <2>1. state'[y] = state[y] /\ got'[y] = got[y]
    BY DEF Frame
  <2>. QED
    BY <2>1, ReadByKept
<1>3. r \in Nat /\ m \in Nat /\ n = r + m /\ Len(items) \in Nat
  <2>1. r \in Nat
    BY <1>1, ReadByType, Zenon
  <2>2. m \in Nat /\ Len(items) \in Nat
    BY ItemTypes, ItemSeq, Zenon
  <2>. QED
    BY <2>1, <2>2, Zenon DEF Written
<1>4. /\ Len(wire'[x]) = m + Len(items)
      /\ \A i \in 1 .. m : wire'[x][i] = wire[x][i]
      /\ \A i \in m + 1 .. m + Len(items) : wire'[x][i] = items[i - m]
  <2>1. wire[x] \in Seq(Items)
    BY DEF LinkTypeOK
  <2>2. /\ Len(wire[x] \o items) = m + Len(items)
        /\ \A i \in 1 .. m : (wire[x] \o items)[i] = wire[x][i]
        /\ \A i \in m + 1 .. m + Len(items) : (wire[x] \o items)[i] = items[i - m]
    BY <2>1, ItemConcat, Zenon
  <2>. QED
    BY <2>2, Zenon
<1>5. \A i \in 1 .. m : wire[x][i] = Sent(x, r + i)
  BY Zenon DEF WireInv
<1>. HIDE DEF m
<1>6. ASSUME NEW i \in 1 .. Len(wire'[x])
      PROVE  wire'[x][i] = Sent(x, ReadBy(y) + i)'
  <2>. DEFINE k == r + i
  <2>1. i \in 1 .. m + Len(items)
    BY <1>4
  <2>2. (ReadBy(y) + i)' = k
    BY <1>2
  <2>. HIDE DEF r
  <2>3. CASE i \in 1 .. m
    <3>1. k \in 1 .. n
      BY ONLY <1>3, <2>3
    <3>2. wire[x][i] = Sent(x, k)
      BY <1>5, <2>3
    <3>. HIDE DEF k
    <3>3. Sent(x, k)' = Sent(x, k)
      BY <3>1, <1>2 DEF k, r
    <3>. QED
      BY <1>4, <2>2, <2>3, <3>2, <3>3 DEF r, k
  <2>4. CASE i \in m + 1 .. m + Len(items)
    <3>1. PICK j \in 1 .. Len(items) : j = i - m /\ n + j = k
      <4>1. i - m \in 1 .. Len(items) /\ n + (i - m) = k
        BY ONLY <1>3, <2>4
      <4>. QED
        BY ONLY <4>1
    <3>2. wire'[x][i] = items[j]
      BY <1>4, <2>4, <3>1
    <3>3. items[j] = Sent(x, n + j)'
      BY <3>1
    <3>4. (ReadBy(y) + i)' = n + j
      BY <2>2, <3>1
    <3>. QED
      BY <3>2, <3>3, <3>4
  <2>. QED
    BY <1>3, <2>1, <2>3, <2>4
<1>7. Written(x)' = n + Len(items)
  <2>1. Written(x)' = r + (m + Len(items))
    BY <1>1, <1>2, <1>4 DEF Written
  <2>. QED
    BY ONLY <1>3, <2>1
<1>. QED
  BY <1>6, <1>7

\* The invariant, taken apart for one side and its peer.
LEMMA InvFacts ==
    ASSUME LinkInv, NEW x \in Sides
    PROVE  /\ LinkTypeOK /\ FoundInv /\ SidesAgree /\ ConnectsWithinTarget
           /\ CopyInv(x) /\ CopyInv(Peer(x)) /\ WireInv(x) /\ WireInv(Peer(x))
           /\ Peer(x) \in Sides /\ Peer(x) # x /\ Peer(Peer(x)) = x
           /\ Opener \in Sides /\ Acceptor \in Sides /\ Acceptor = Peer(Opener)
           /\ Opener = Peer(Acceptor) /\ Acceptor # Opener
<1>1. Opener \in Sides
  BY LinkAssumption DEF LinkInv, LinkTypeOK, Opener, Sides
<1>. QED
  BY <1>1, TwoSides DEF LinkInv, Acceptor

\* To read from one wire changes nothing on the other.
LEMMA WireElsewhere ==
    ASSUME LinkTypeOK, NEW x \in Sides, UNCHANGED wire \/ Consume(x)
    PROVE  wire'[x] = wire[x]
BY TwoSides DEF LinkTypeOK, Consume

\* Every way in which a side of the link fails is covered by FailureKeeps.
LEMMA FailingActions ==
    ASSUME LinkInv,
           \/ \E x \in Sides : MagicFails(x) \/ VersionFails(x) \/ CopyFails(x)
           \/ WriteAddressFails \/ VerdictFails \/ AddressFails \/ WriteVerdictFails
    PROVE  Kept
<1>1. LinkTypeOK /\ Opener \in Sides /\ Acceptor \in Sides
  BY InvFacts, TwoSides DEF Sides
<1>. DEFINE Errors == {"WriteError", "ProtocolViolation", "ReadError", "IllegalResponse", "InternalError"}
            Failing(x) == /\ state[x] \notin Ends
                          /\ \E e \in Errors : state' = [state EXCEPT ![x] = e]
                          /\ gone' = [gone EXCEPT ![x] = TRUE]
                          /\ UNCHANGED <<setup, addr, wire, found, copyVars>>
<1>2. Errors \subseteq Ends \ {"Refused", "demand", "done"}
  BY DEF Ends, NegotiationErrors, ServiceErrors
<1>3. \E x \in Sides : Failing(x)
  <2>1. ASSUME NEW x \in Sides, MagicFails(x)
        PROVE  Failing(x)
    BY <2>1, Zenon DEF MagicFails, Fails, Quiet, Ends, NegotiationErrors, ServiceErrors, RoutingErrors
  <2>2. ASSUME NEW x \in Sides, VersionFails(x)
        PROVE  Failing(x)
    BY <2>2 DEF VersionFails, Fails, Quiet, Ends, NegotiationErrors, ServiceErrors, RoutingErrors
  <2>3. ASSUME NEW x \in Sides, CopyFails(x)
        PROVE  Failing(x)
    BY <2>3, Zenon DEF CopyFails, CopyError, Hold, Ends, NegotiationErrors, ServiceErrors, RoutingErrors
  <2>4. ASSUME WriteAddressFails \/ VerdictFails
        PROVE  Failing(Opener)
    BY <2>4 DEF WriteAddressFails, VerdictFails, Fails, Quiet, Ends, NegotiationErrors, ServiceErrors, RoutingErrors
  <2>5. ASSUME AddressFails \/ WriteVerdictFails
        PROVE  Failing(Acceptor)
    BY <2>5 DEF AddressFails, WriteVerdictFails, Fails, Quiet, Ends, NegotiationErrors, ServiceErrors, RoutingErrors
  <2>. HIDE DEF Failing
  <2>. QED
    BY <1>1, <2>1, <2>2, <2>3, <2>4, <2>5
<1>4. PICK x \in Sides : Failing(x)
  BY <1>3, Zenon
<1>5. PICK e \in Errors : state' = [state EXCEPT ![x] = e]
  BY <1>4, Zenon
<1>6. /\ state[x] \notin Ends /\ gone' = [gone EXCEPT ![x] = TRUE]
      /\ UNCHANGED <<setup, addr, found, copyVars>> /\ wire'[x] = wire[x]
  BY <1>4
<1>7. e \in Ends \ {"Refused", "demand", "done"}
  BY <1>2
<1>. QED
  BY ONLY LinkInv, x \in Sides, <1>5, <1>6, <1>7, FailureKeeps, Zenon

\* The link is opened on one side and accepted on the other.
LEMMA RouteKeeps ==
    ASSUME LinkInv, Route \/ RouteFails \/ AcceptLink
    PROVE  Kept
<1>1. PICK x \in Sides : /\ state[x] = "idle"
                         /\ \E e \in {"start"} \cup RoutingErrors : state' = [state EXCEPT ![x] = e]
                         /\ UNCHANGED <<setup, linkVars, copyVars>>
  <2>1. Opener \in Sides /\ Acceptor \in Sides
    BY InvFacts, TwoSides DEF Sides
  <2>. QED
    BY <2>1, Zenon DEF Route, RouteFails, AcceptLink
<1>2. PICK e \in {"start"} \cup RoutingErrors : state' = [state EXCEPT ![x] = e]
  BY <1>1, Zenon
<1>. DEFINE y == Peer(x)
<1>3. /\ LinkTypeOK /\ FoundInv /\ SidesAgree /\ ConnectsWithinTarget
      /\ CopyInv(x) /\ CopyInv(y) /\ WireInv(x) /\ WireInv(y) /\ y \in Sides /\ y # x
  BY InvFacts
<1>4. /\ state'[x] = e /\ state'[y] = state[y] /\ gone' = gone /\ wire' = wire
      /\ copied' = copied /\ shut' = shut /\ got' = got /\ eof' = eof /\ connected' = connected
      /\ setup' = setup /\ addr' = addr /\ found' = found
  BY <1>1, <1>2, <1>3 DEF LinkTypeOK, copyVars, linkVars
<1>5. Frame(x)
  BY <1>4, Zenon DEF Frame
<1>6. state[x] = "idle" /\ state[x] \in Negotiating /\ state[x] \notin Ends /\ (e = "start" \/ e \in Ends)
      /\ ~gone[x] /\ ~eof[x]
  BY <1>1, <1>3, Zenon DEF Ends, Negotiating, NegotiationErrors, ServiceErrors, RoutingErrors, CopyInv
<1>7. FoundInv' /\ SidesAgree' /\ ConnectsWithinTarget'
  <2>1. Moves(x)
    BY <1>4, <1>6, Zenon DEF Moves, Early, Ends, RoutingErrors
  <2>. QED
    BY ONLY <1>3, <1>4, <1>5, <2>1, SettledKept, x \in Sides, Zenon
<1>8. CopyInv(x)' /\ CopyInv(y)'
  BY ONLY <1>3, <1>4, <1>5, <1>6, CopyKept, x \in Sides, Zenon
<1>9. WireInv(x)'
  <2>1. SameStage(state[x], state'[x]) \/ state'[x] \in Ends
    BY <1>4, <1>6, Zenon DEF SameStage
  <2>. QED
    BY ONLY <1>3, <1>4, <1>5, <1>6, <2>1, ActorWriterQuiet, x \in Sides, Zenon
<1>10. WireInv(y)'
  <2>1. CASE e = "start"
    <3>1. ReadBy(x)' = ReadBy(x)
      BY <1>4, <1>6, <2>1 DEF ReadBy
    <3>. QED
      BY ONLY <1>3, <1>4, <1>5, <1>6, <3>1, ActorReaderQuiet, x \in Sides
  <2>2. CASE e \in Ends
    BY <1>4, <2>2, ReaderEnds
  <2>. QED
    BY <1>6, <2>1, <2>2
<1>. QED
  BY ONLY <1>7, <1>8, <1>9, <1>10, BothSides, x \in Sides

\* The magic and the version are the first two items.
LEMMA SendMagicKeeps ==
    ASSUME LinkInv, NEW x \in Sides, SendMagic(x)
    PROVE  Kept
<1>. DEFINE y == Peer(x)
            items == <<<<"magic">>, <<"version", setup.version[x]>>>>
<1>1. /\ LinkTypeOK /\ FoundInv /\ SidesAgree /\ ConnectsWithinTarget
      /\ CopyInv(x) /\ CopyInv(y) /\ WireInv(x) /\ WireInv(y) /\ y \in Sides /\ y # x
  BY InvFacts
<1>2. \/ state[x] = "start" /\ state'[x] = "magic sent"
      \/ state[x] = "magic read" /\ state'[x] = "joined"
  BY <1>1, Zenon DEF LinkTypeOK, SendMagic
<1>3. /\ state'[y] = state[y] /\ gone' = gone /\ wire'[x] = wire[x] \o items /\ wire'[y] = wire[y]
      /\ copied' = copied /\ shut' = shut /\ got' = got /\ eof' = eof /\ connected' = connected
      /\ setup' = setup /\ addr' = addr /\ found' = found
  BY <1>1, Zenon DEF LinkTypeOK, copyVars, SendMagic, Write, Quiet
<1>. HIDE DEF y, items
<1>4. Frame(x)
  BY <1>3 DEF Frame, y
<1>5. state[x] \in Negotiating /\ state[x] \notin Ends /\ ~gone[x] /\ ~eof[x]
      /\ copied[x] = 0 /\ ~shut[x] /\ got[x] = <<>>
  BY <1>1, <1>2, Zenon DEF Ends, Negotiating, NegotiationErrors, ServiceErrors, RoutingErrors, CopyInv
<1>6. FoundInv' /\ SidesAgree' /\ ConnectsWithinTarget'
  <2>1. Moves(x)
    BY <1>2, Zenon DEF Moves, Early
  <2>. QED
    BY ONLY <1>1, <1>3, <1>4, <2>1, SettledKept, x \in Sides, Zenon
<1>7. CopyInv(x)' /\ CopyInv(y)'
  BY ONLY <1>1, <1>3, <1>4, <1>5, CopyKept, x \in Sides, Zenon DEF y
<1>8. WireInv(x)'
  <2>. SUFFICES ASSUME state[y] \notin Ends, ~eof[y]
                PROVE  WireInv(x)'
    <3>1. Peer(x)' = y
      BY DEF y, Peer
    <3>. QED
      BY <1>3, <3>1, Zenon DEF WireInv
  <2>1. Written(x) = 0
    BY <1>1, <1>2, Zenon DEF WireInv, y
  <2>2. setup.version[x] \in Nat
    BY <1>1, LinkAssumption DEF LinkTypeOK, Sides
  <2>3. items \in Seq(Items) /\ Len(items) = 2 /\ items[1] = <<"magic">>
        /\ items[2] = <<"version", setup.version[x]>>
    <3>1. <<"magic">> \in Items /\ <<"version", setup.version[x]>> \in Items
      BY <2>2 DEF Items
    <3>. QED
      BY <3>1 DEF items
  <2>4. items[1] = Sent(x, 0 + 1)' /\ items[2] = Sent(x, 0 + 2)'
    BY <1>3, <2>3 DEF Sent
  <2>5. \A i \in 1 .. Len(items) : items[i] = Sent(x, 0 + i)'
    <3>1. \A i \in 1 .. 2 : i = 1 \/ i = 2
      OBVIOUS
    <3>. QED
      BY <2>3, <2>4, <3>1
  <2>6. \A k \in 1 .. 0 : Sent(x, k)' = Sent(x, k)
    OBVIOUS
  <2>7. /\ \A i \in 1 .. Len(wire'[x]) : wire'[x][i] = Sent(x, ReadBy(y) + i)'
        /\ Written(x)' = 0 + Len(items)
    BY ONLY <1>1, <1>3, <1>4, <2>1, <2>3, <2>5, <2>6, ActorWrites, x \in Sides,
            state[y] \notin Ends, ~eof[y], 0 \in Nat, Zenon DEF y
  <2>8. Written(x)' = 2 /\ copied'[x] = 0 /\ ~shut'[x] /\ Peer(x)' = y
    <3>1. Written(x)' = 2
      BY ONLY <2>3, <2>7
    <3>2. Peer(x)' = y
      BY DEF y, Peer
    <3>. QED
      BY <1>3, <1>5, <3>1, <3>2, Zenon
  <2>9. state'[x] \notin {"idle", "start", "magic read", "asked", "accepted", "copying"}
    BY <1>2, Zenon
  <2>10. ~(Written(x)' >= 3)
    BY ONLY <2>8
  <2>. QED
    BY ONLY <2>7, <2>8, <2>9, <2>10, Zenon DEF WireInv
<1>9. WireInv(y)'
  <2>1. ReadBy(x)' = ReadBy(x)
    BY <1>2, Zenon DEF ReadBy
  <2>. QED
    BY ONLY <1>1, <1>3, <1>4, <1>5, <2>1, ActorReaderQuiet, x \in Sides, Zenon DEF y
<1>. QED
  BY ONLY <1>6, <1>7, <1>8, <1>9, BothSides, x \in Sides DEF y

\* A read of the magic or of the version counts one item.
LEMMA ReadingKeeps ==
    ASSUME LinkInv, NEW x \in Sides, wire[Peer(x)] # <<>>, Consume(x),
           UNCHANGED <<setup, addr, found, gone, copyVars>>,
           NEW e, state' = [state EXCEPT ![x] = e],
           \/ state[x] = "start" /\ e = "magic read"
           \/ state[x] = "magic sent" /\ e = "joined"
           \/ state[x] = "joined" /\ e = "versioned"
    PROVE  Kept
<1>. DEFINE y == Peer(x)
<1>1. /\ LinkTypeOK /\ FoundInv /\ SidesAgree /\ ConnectsWithinTarget
      /\ CopyInv(x) /\ CopyInv(y) /\ WireInv(x) /\ WireInv(y) /\ y \in Sides /\ y # x
  BY InvFacts, Zenon
<1>2. /\ state'[x] = e /\ state'[y] = state[y] /\ gone' = gone
      /\ wire'[x] = wire[x] /\ wire'[y] = Tail(wire[y])
      /\ copied' = copied /\ shut' = shut /\ got' = got /\ eof' = eof /\ connected' = connected
      /\ setup' = setup /\ addr' = addr /\ found' = found
  BY <1>1, Zenon DEF LinkTypeOK, copyVars, Consume
<1>. HIDE DEF y
<1>3. Frame(x)
  BY <1>2, Zenon DEF Frame, y
<1>4. state[x] \in Negotiating /\ state[x] \notin Ends /\ ~gone[x] /\ ~eof[x]
  BY <1>1, Zenon DEF Ends, Negotiating, NegotiationErrors, ServiceErrors, RoutingErrors, CopyInv
<1>5. FoundInv' /\ SidesAgree' /\ ConnectsWithinTarget'
  <2>1. Moves(x)
    BY <1>2, Zenon DEF Moves, Early
  <2>. QED
    BY ONLY <1>1, <1>2, <1>3, <2>1, SettledKept, x \in Sides, Zenon
<1>6. CopyInv(x)' /\ CopyInv(y)'
  BY ONLY <1>1, <1>2, <1>3, <1>4, CopyKept, x \in Sides, Zenon DEF y
<1>7. WireInv(x)'
  <2>1. SameStage(state[x], state'[x])
    BY <1>2, Zenon DEF SameStage
  <2>. QED
    BY ONLY <1>1, <1>2, <1>3, <1>4, <2>1, ActorWriterQuiet, x \in Sides, Zenon
<1>8. WireInv(y)'
  <2>1. ReadBy(x)' = ReadBy(x) + 1
    <3>1. CASE state[x] \in {"start", "magic sent"}
      <4>1. ReadBy(x) = 0 /\ ReadBy(x)' = 1
        BY <1>2, <3>1, Zenon DEF ReadBy
      <4>. QED
        BY ONLY <4>1
    <3>2. CASE state[x] = "joined"
      <4>1. ReadBy(x) = 1 /\ ReadBy(x)' = 2
        BY <1>2, <3>2, Zenon DEF ReadBy
      <4>. QED
        BY ONLY <4>1
    <3>. QED
      BY <3>1, <3>2, Zenon
  <2>2. wire[y] # <<>>
    BY Zenon DEF y
  <2>. QED
    BY ONLY <1>1, <1>2, <1>3, <1>4, <2>1, <2>2, ActorReads, x \in Sides, Zenon DEF y
<1>. QED
  BY ONLY <1>5, <1>6, <1>7, <1>8, BothSides, x \in Sides DEF y

\* ReadMagic and ReadVersion are such reads.
LEMMA ReadMagicKeeps ==
    ASSUME LinkInv, NEW x \in Sides, ReadMagic(x) \/ ReadVersion(x)
    PROVE  Kept
<1>1. LinkTypeOK
  BY DEF LinkInv
<1>2. /\ wire[Peer(x)] # <<>> /\ Consume(x) /\ UNCHANGED <<setup, addr, found, copyVars>>
      /\ state[x] \in {"start", "magic sent", "joined"}
  BY Zenon DEF ReadMagic, ReadVersion, CanRead, Quiet
<1>3. CASE \E e \in {"ProtocolViolation", "UnsupportedProtocolVersion"} : Fails(x, e)
  <2>1. PICK e \in {"ProtocolViolation", "UnsupportedProtocolVersion"} : Fails(x, e)
    BY <1>3
  <2>2. e \in Ends \ {"Refused", "demand", "done"} /\ state[x] \notin Ends
    BY <1>2, Zenon DEF Ends, NegotiationErrors, ServiceErrors, RoutingErrors
  <2>3. wire'[x] = wire[x]
    BY <1>1, <1>2, WireElsewhere, Zenon
  <2>4. state' = [state EXCEPT ![x] = e] /\ gone' = [gone EXCEPT ![x] = TRUE]
    BY <2>1 DEF Fails
  <2>. QED
    BY ONLY LinkInv, x \in Sides, <1>2, <2>2, <2>3, <2>4, FailureKeeps, Zenon
<1>4. CASE ~\E e \in {"ProtocolViolation", "UnsupportedProtocolVersion"} : Fails(x, e)
  <2>. DEFINE e == IF state[x] = "start" THEN "magic read"
                   ELSE IF state[x] = "magic sent" THEN "joined" ELSE "versioned"
  <2>1. state' = [state EXCEPT ![x] = e] /\ gone' = gone
    BY <1>4, Zenon DEF ReadMagic, ReadVersion
  <2>2. \/ state[x] = "start" /\ e = "magic read"
        \/ state[x] = "magic sent" /\ e = "joined"
        \/ state[x] = "joined" /\ e = "versioned"
    BY <1>2, Zenon
  <2>. HIDE DEF e
  <2>3. UNCHANGED <<setup, addr, found, gone, copyVars>>
    BY <1>2, <2>1, Zenon
  <2>. QED
    BY ONLY LinkInv, x \in Sides, <1>2, <2>1, <2>2, <2>3, ReadingKeeps, Zenon
<1>. QED
  BY <1>3, <1>4

\* What the link relies on of route addresses and of the registry: an address
\* is read back from its rendered form, a target has a host that its class
\* parses, and find_service returns one of the services that accept. LinkProofs
\* shows that this holds.
RouteFacts ==
    /\ \A a \in Address : Rendered(a) \in Text /\ FromStr(Rendered(a)) = Some(a)
    /\ \A a \in Address : TargetOf(a) # None =>
        /\ TargetOf(a)[1].class \in IPClasses \cup DnsClasses
        /\ HostParses(TargetOf(a)[1].class, TargetOf(a)[1].host)
        /\ \/ /\ a[2] = <<"tcp">>
              /\ TargetOf(a)[1].class = "ip4" /\ TargetOf(a)[1].host = <<Loopback[1]>>
           \/ a[2] = <<TargetOf(a)[1].class>> /\ a[3] = TargetOf(a)[1].host
    /\ \A services \in Seq({"proxy-tcp", "proxyme"}), a \in Address :
        FindService(services, a) # None =>
            \E s \in {"proxy-tcp", "proxyme"} : Accepts(s, a) /\ FindService(services, a) = Some(s)

\* The address of the request is an address, and is read back from its rendered
\* form.
LEMMA AddrType ==
    ASSUME RouteFacts, LinkTypeOK
    PROVE  addr \in Address /\ Rendered(addr) \in Text /\ FromStr(Rendered(addr)) = Some(addr)
<1>1. addr \in Address
  BY LinkAssumption DEF LinkTypeOK
<1>. QED
  BY <1>1, Zenon DEF RouteFacts

\* ActorWrites, for one item.
LEMMA OneItem ==
    ASSUME LinkTypeOK, NEW x \in Sides, WireInv(x), Frame(x),
           state[Peer(x)] \notin Ends, ~eof[Peer(x)],
           NEW item \in Items, wire'[x] = wire[x] \o <<item>>,
           NEW n \in Nat, Written(x) = n,
           \A k \in 1 .. n : Sent(x, k)' = Sent(x, k),
           item = Sent(x, n + 1)'
    PROVE  /\ \A i \in 1 .. Len(wire'[x]) : wire'[x][i] = Sent(x, ReadBy(Peer(x)) + i)'
           /\ Written(x)' = n + 1
<1>. DEFINE items == <<item>>
<1>1. items \in Seq(Items) /\ Len(items) = 1 /\ items[1] = item /\ wire'[x] = wire[x] \o items
  OBVIOUS
<1>. HIDE DEF items
<1>2. \A i \in 1 .. Len(items) : items[i] = Sent(x, n + i)'
  <2>1. \A i \in 1 .. 1 : i = 1
    OBVIOUS
  <2>. QED
    BY <1>1, <2>1
<1>3. /\ \A i \in 1 .. Len(wire'[x]) : wire'[x][i] = Sent(x, ReadBy(Peer(x)) + i)'
      /\ Written(x)' = n + Len(items)
  BY <1>1, <1>2, ActorWrites, Zenon
<1>. QED
  BY <1>1, <1>3

\* The opener's third item is the rendered address.
LEMMA WriteAddressKeeps ==
    ASSUME RouteFacts, LinkInv, NEW x \in Sides, x = Opener, WriteAddress
    PROVE  Kept
<1>. DEFINE y == Peer(x)
            item == <<"frame", Rendered(addr)>>
<1>1. /\ LinkTypeOK /\ FoundInv /\ SidesAgree /\ ConnectsWithinTarget
      /\ CopyInv(x) /\ CopyInv(y) /\ WireInv(x) /\ WireInv(y) /\ y \in Sides /\ y # x
      /\ x # Acceptor
  BY InvFacts
<1>2. state[x] = "versioned" /\ state'[x] = "asked"
  BY <1>1, Zenon DEF LinkTypeOK, WriteAddress
<1>3. /\ state'[y] = state[y] /\ gone' = gone /\ wire'[x] = wire[x] \o <<item>> /\ wire'[y] = wire[y]
      /\ copied' = copied /\ shut' = shut /\ got' = got /\ eof' = eof /\ connected' = connected
      /\ setup' = setup /\ addr' = addr /\ found' = found
  BY <1>1, Zenon DEF LinkTypeOK, copyVars, WriteAddress, Write, Quiet
<1>4. Opener' = x /\ x # Acceptor'
  BY <1>1, <1>3 DEF Acceptor, Opener, Peer
<1>5. item \in Items
  BY <1>1, AddrType DEF Items
<1>. HIDE DEF y, item
<1>6. Frame(x)
  BY <1>3 DEF Frame, y
<1>7. state[x] \in Negotiating /\ state[x] \notin Ends /\ ~gone[x] /\ ~eof[x]
      /\ copied[x] = 0 /\ ~shut[x] /\ got[x] = <<>>
  BY <1>1, <1>2, Zenon DEF Ends, Negotiating, NegotiationErrors, ServiceErrors, RoutingErrors, CopyInv
<1>8. FoundInv' /\ SidesAgree' /\ ConnectsWithinTarget'
  <2>1. Moves(x)
    BY <1>2, <1>7 DEF Moves
  <2>. QED
    BY ONLY <1>1, <1>3, <1>6, <2>1, SettledKept, x \in Sides, Zenon
<1>9. CopyInv(x)' /\ CopyInv(y)'
  <2>1. gone[x] => gone'[x]
    BY <1>7
  <2>2. gone'[x] => state'[x] \in Ends
    BY <1>3, <1>7, Zenon
  <2>3. state'[x] \in Negotiating => state[x] \in Negotiating
    BY <1>7
  <2>. QED
    BY ONLY <1>1, <1>3, <1>6, <2>1, <2>2, <2>3, CopyKept, x \in Sides, Zenon DEF y
<1>10. WireInv(x)'
  <2>. SUFFICES ASSUME state[y] \notin Ends, ~eof[y]
                PROVE  WireInv(x)'
    <3>1. Peer(x)' = y
      BY DEF y, Peer
    <3>. QED
      BY <1>3, <3>1, Zenon DEF WireInv
  <2>1. Written(x) = 2
    BY <1>1, <1>2, Zenon DEF WireInv, y
  <2>2. item = Sent(x, 2 + 1)'
    <3>1. 2 + 1 # 1 /\ 2 + 1 # 2 /\ ~(2 + 1 > 3)
      OBVIOUS
    <3>. QED
      BY <1>3, <1>4, <3>1 DEF Sent, item
  <2>3. \A k \in 1 .. 2 : Sent(x, k)' = Sent(x, k)
    <3>1. \A k \in 1 .. 2 : k \in Nat \ {0}
      OBVIOUS
    <3>. QED
      BY <1>3, <3>1, SentKept, Zenon
  <2>4. /\ \A i \in 1 .. Len(wire'[x]) : wire'[x][i] = Sent(x, ReadBy(y) + i)'
        /\ Written(x)' = 2 + 1
    <3>. DEFINE it == item
    <3>. HIDE DEF it
    <3>1. it \in Items /\ wire'[x] = wire[x] \o <<it>> /\ it = Sent(x, 2 + 1)'
      BY <1>3, <1>5, <2>2 DEF it
    <3>. QED
      BY ONLY <1>1, <1>6, <2>1, <2>3, <3>1, OneItem, x \in Sides,
              state[y] \notin Ends, ~eof[y], 2 \in Nat, Zenon DEF y
  <2>5. Written(x)' = 3 + copied'[x] /\ ~shut'[x] /\ Peer(x)' = y /\ x # Acceptor'
    BY <1>3, <1>4, <1>7, <2>4 DEF Peer, y
  <2>6. Written(x)' >= 3 /\ state'[x] = "asked"
    BY <1>2, <2>4
  <2>. QED
    BY ONLY <2>4, <2>5, <2>6 DEF WireInv
<1>11. WireInv(y)'
  <2>1. ReadBy(x)' = ReadBy(x)
    BY <1>2 DEF ReadBy
  <2>. QED
    BY ONLY <1>1, <1>3, <1>6, <1>7, <2>1, ActorReaderQuiet, x \in Sides, Zenon DEF y
<1>. QED
  BY ONLY <1>8, <1>9, <1>10, <1>11, BothSides, x \in Sides DEF y

\* The byte the opener reads is the verdict on its own address, so the opener
\* copies only when the acceptor found a service.
LEMMA ReadVerdictKeeps ==
    ASSUME LinkInv, NEW x \in Sides, x = Opener, ReadVerdict
    PROVE  Kept
<1>. DEFINE y == Peer(x)
<1>1. /\ LinkTypeOK /\ FoundInv /\ SidesAgree /\ ConnectsWithinTarget
      /\ CopyInv(x) /\ CopyInv(y) /\ WireInv(x) /\ WireInv(y) /\ y \in Sides /\ y # x
      /\ y = Acceptor /\ Peer(y) = x
  BY InvFacts
<1>2. /\ state[x] = "asked" /\ state'[y] = state[y]
      /\ \/ Head(wire[y])[2] > 0 /\ state'[x] = "Refused" /\ gone' = [gone EXCEPT ![x] = TRUE]
         \/ ~(Head(wire[y])[2] > 0) /\ state'[x] \in {"copying", "demand"} /\ gone' = gone
  BY <1>1, Zenon DEF LinkTypeOK, ReadVerdict, Fails
<1>3. /\ wire[y] # <<>> /\ wire'[x] = wire[x] /\ wire'[y] = Tail(wire[y])
      /\ copied' = copied /\ shut' = shut /\ got' = got /\ eof' = eof /\ connected' = connected
      /\ setup' = setup /\ addr' = addr /\ found' = found
  BY <1>1, Zenon DEF LinkTypeOK, copyVars, ReadVerdict, CanRead, Consume, Quiet
<1>4. Opener' = x /\ Acceptor' = y
  BY <1>1, <1>3 DEF Acceptor, Opener, Peer
<1>. HIDE DEF y
<1>5. gone'[y] = gone[y] /\ (gone[x] => gone'[x]) /\ (gone'[x] => gone[x] \/ state'[x] = "Refused")
  BY <1>1, <1>2, Zenon DEF LinkTypeOK
<1>6. Frame(x)
  BY <1>2, <1>3, <1>5 DEF Frame, y
<1>7. state[x] \in Negotiating /\ state[x] \notin Ends /\ ~gone[x] /\ ~eof[x] /\ got[x] = <<>>
  BY <1>1, <1>2, Zenon DEF Ends, Negotiating, NegotiationErrors, ServiceErrors, RoutingErrors, CopyInv
<1>8. /\ found # None
      /\ IF Head(wire[y])[2] > 0 THEN state[y] = "Refused" ELSE found[1].service # None
  <2>1. ReadBy(x) = 2
    BY <1>2, Zenon DEF ReadBy
  <2>2. wire[y] \in Seq(Items) /\ Len(wire[y]) \in Nat \ {0} /\ Head(wire[y]) = wire[y][1]
    BY <1>1, <1>3, ItemTypes, ItemSeq, Zenon
  <2>3. Written(y) = 2 + Len(wire[y])
    BY <1>1, <2>1 DEF Written
  <2>4. Written(y) >= 3
    BY ONLY <2>2, <2>3
  <2>5. /\ found # None /\ (found[1].service = None => state[y] = "Refused")
        /\ \A i \in 1 .. Len(wire[y]) : wire[y][i] = Sent(y, ReadBy(x) + i)
    BY <1>1, <1>7, <2>4, Zenon DEF WireInv
  <2>6. wire[y][1] = Sent(y, 2 + 1)
    <3>1. 1 \in 1 .. Len(wire[y])
      BY ONLY <2>2
    <3>. QED
      BY <2>1, <2>5, <3>1, Zenon
  <2>7. Sent(y, 2 + 1) = <<"byte", IF found[1].service = None THEN 1 ELSE 0>>
    BY <1>1 DEF Sent
  <2>8. found[1].service = None => Head(wire[y])[2] = 1
    BY <2>2, <2>6, <2>7
  <2>9. found[1].service # None => Head(wire[y])[2] = 0
    BY <2>2, <2>6, <2>7
  <2>. QED
    BY <2>5, <2>8, <2>9
<1>9. FoundInv' /\ SidesAgree' /\ ConnectsWithinTarget'
  <2>1. ConnectsWithinTarget'
    BY <1>1, <1>3 DEF ConnectsWithinTarget
  <2>2. FoundInv'
    BY <1>1, <1>2, <1>3, <1>4, Zenon DEF FoundInv
  <2>3. SidesAgree'
    BY <1>1, <1>2, <1>3, <1>4, <1>8 DEF SidesAgree
  <2>. QED
    BY <2>1, <2>2, <2>3
<1>10. (state'[x] = "copying" \/ state'[x] \in Ends) /\ state'[x] \notin Negotiating
  BY <1>2, Zenon DEF Ends, NegotiationErrors, Negotiating
<1>11. CopyInv(x)' /\ CopyInv(y)'
  <2>1. gone'[x] => state'[x] \in Ends
    BY <1>5, <1>7 DEF Ends, NegotiationErrors
  <2>. QED
    BY ONLY <1>1, <1>3, <1>5, <1>6, <1>10, <2>1, CopyKept, x \in Sides, Zenon DEF y
<1>12. WireInv(x)'
  <2>1. SameStage(state[x], state'[x]) \/ state'[x] \in Ends
    BY <1>2, <1>10 DEF SameStage
  <2>. QED
    BY ONLY <1>1, <1>3, <1>6, <1>7, <2>1, ActorWriterQuiet, x \in Sides, Zenon
<1>13. WireInv(y)'
  <2>1. state'[x] \in Ends \/ ReadBy(x)' = ReadBy(x) + 1
    <3>1. CASE state'[x] = "copying"
      <4>1. ReadBy(x) = 2 /\ Len(got[x]) = 0
        BY <1>2, <1>7 DEF ReadBy
      <4>2. ReadBy(x)' = 3 + 0
        BY <1>3, <3>1, <4>1, Zenon DEF ReadBy
      <4>. QED
        BY ONLY <4>1, <4>2
    <3>. QED
      BY <1>10, <3>1
  <2>. QED
    BY ONLY <1>1, <1>3, <1>6, <1>7, <2>1, ActorReads, x \in Sides DEF y
<1>. QED
  BY ONLY <1>9, <1>11, <1>12, <1>13, BothSides, x \in Sides DEF y

\* The text the acceptor reads is the rendered address of the opener, so the
\* acceptor looks up the same address.
LEMMA ReadAddressKeeps ==
    ASSUME RouteFacts, LinkInv, NEW x \in Sides, x = Acceptor, ReadAddress
    PROVE  Kept
<1>. DEFINE y == Peer(x)
            text == Head(wire[y])[2]
            parsed == IF Len(text) > MaxLength THEN None ELSE FromStr(text)
<1>1. /\ LinkTypeOK /\ FoundInv /\ SidesAgree /\ ConnectsWithinTarget
      /\ CopyInv(x) /\ CopyInv(y) /\ WireInv(x) /\ WireInv(y) /\ y \in Sides /\ y # x
      /\ y = Opener /\ Peer(y) = x
  BY InvFacts
<1>2. /\ state[x] = "versioned" /\ wire[y] # <<>> /\ Consume(x)
      /\ UNCHANGED <<setup, addr, copyVars>>
  BY <1>1, Zenon DEF ReadAddress, CanRead, Quiet
<1>3. /\ wire'[x] = wire[x] /\ wire'[y] = Tail(wire[y])
      /\ copied' = copied /\ shut' = shut /\ got' = got /\ eof' = eof /\ connected' = connected
      /\ setup' = setup /\ addr' = addr
  BY <1>1, <1>2, Zenon DEF LinkTypeOK, copyVars, Consume
<1>4. \/ parsed = None /\ Fails(x, "ProtocolViolation") /\ found' = found
      \/ /\ parsed # None /\ state' = [state EXCEPT ![x] = "found"] /\ gone' = gone
         /\ found' = Some([addr |-> parsed[1], service |-> FindService(setup.services, parsed[1])])
  BY <1>1, Zenon DEF ReadAddress
<1>5. Acceptor' = x /\ Opener' = y
  BY <1>1, <1>3, Zenon DEF Acceptor, Opener, Peer
<1>6. state[x] \in Negotiating /\ state[x] \notin Ends /\ ~gone[x] /\ ~eof[x] /\ got[x] = <<>>
  BY <1>1, <1>2, Zenon DEF Ends, Negotiating, NegotiationErrors, ServiceErrors, RoutingErrors, CopyInv
<1>. HIDE DEF y, text
<1>7. text = Rendered(addr)
  <2>1. ReadBy(x) = 2
    BY <1>2 DEF ReadBy
  <2>2. wire[y] \in Seq(Items) /\ Len(wire[y]) \in Nat \ {0} /\ Head(wire[y]) = wire[y][1]
    BY <1>1, <1>2, ItemTypes, ItemSeq, Zenon
  <2>3. \A i \in 1 .. Len(wire[y]) : wire[y][i] = Sent(y, ReadBy(x) + i)
    BY <1>1, <1>6, Zenon DEF WireInv
  <2>4. wire[y][1] = Sent(y, 2 + 1)
    <3>1. 1 \in 1 .. Len(wire[y])
      BY ONLY <2>2
    <3>. QED
      BY <2>1, <2>3, <3>1
  <2>5. Sent(y, 2 + 1) = <<"frame", Rendered(addr)>>
    BY <1>1 DEF Sent
  <2>. QED
    BY <2>2, <2>4, <2>5 DEF text
<1>8. CASE parsed = None
  <2>1. Fails(x, "ProtocolViolation") /\ found' = found
    BY <1>4, <1>8
  <2>2. /\ state' = [state EXCEPT ![x] = "ProtocolViolation"] /\ gone' = [gone EXCEPT ![x] = TRUE]
        /\ UNCHANGED <<setup, addr, found, copyVars>>
    BY <1>2, <2>1 DEF Fails
  <2>3. "ProtocolViolation" \in Ends \ {"Refused", "demand", "done"}
    BY DEF Ends, NegotiationErrors
  <2>. QED
    BY ONLY LinkInv, x \in Sides, <1>3, <1>6, <2>2, <2>3, FailureKeeps, Zenon
<1>9. CASE parsed # None
  <2>1. parsed = Some(addr)
    BY <1>1, <1>7, <1>9, AddrType
  <2>2. /\ state' = [state EXCEPT ![x] = "found"] /\ gone' = gone
        /\ found' = Some([addr |-> addr, service |-> FindService(setup.services, addr)])
    BY <1>4, <1>9, <2>1 DEF Some
  <2>3. state'[x] = "found" /\ state'[y] = state[y]
    BY <1>1, <2>2, Zenon DEF LinkTypeOK
  <2>4. Frame(x)
    BY <1>3, <2>2, <2>3 DEF Frame, y
  <2>5. /\ found' # None /\ found'[1].addr = addr
        /\ found'[1].service = FindService(setup.services, addr)
    BY <2>2 DEF Some, None
  <2>6. FoundInv' /\ SidesAgree' /\ ConnectsWithinTarget'
    <3>1. ConnectsWithinTarget'
      BY <1>1, <1>3, Zenon DEF ConnectsWithinTarget
    <3>2. FoundInv'
      BY <1>1, <1>3, <1>5, <2>3, <2>5, Zenon DEF FoundInv
    <3>3. SidesAgree'
      <4>1. state[y] \notin {"copying", "demand", "done", "Refused"}
        BY <1>1, <1>2, Zenon DEF FoundInv, SidesAgree
      <4>. QED
        BY <1>5, <2>3, <4>1 DEF SidesAgree
    <3>. QED
      BY <3>1, <3>2, <3>3
  <2>7. CopyInv(x)' /\ CopyInv(y)'
    <3>1. gone[x] => gone'[x]
      BY <1>6
    <3>2. gone'[x] => state'[x] \in Ends
      BY <1>6, <2>2, Zenon
    <3>. QED
      BY ONLY <1>1, <1>3, <1>6, <2>4, <3>1, <3>2, CopyKept, x \in Sides, Zenon DEF y
  <2>8. WireInv(x)'
    <3>1. SameStage(state[x], state'[x])
      BY <1>2, <2>3 DEF SameStage
    <3>. QED
      BY ONLY <1>1, <1>2, <1>3, <1>6, <2>4, <3>1, ActorWriterQuiet, x \in Sides, Zenon
  <2>9. WireInv(y)'
    <3>1. ReadBy(x)' = ReadBy(x) + 1
      <4>1. ReadBy(x) = 2 /\ Len(got[x]) = 0
        BY <1>2, <1>6, Zenon DEF ReadBy
      <4>2. ReadBy(x)' = 3 + 0
        BY <1>3, <2>3, <4>1, Zenon DEF ReadBy
      <4>. QED
        BY ONLY <4>1, <4>2
    <3>. QED
      BY ONLY <1>1, <1>2, <1>3, <1>6, <2>4, <3>1, ActorReads, x \in Sides, Zenon DEF y
  <2>. QED
    BY ONLY <2>6, <2>7, <2>8, <2>9, BothSides, x \in Sides DEF y
<1>. QED
  BY <1>8, <1>9

\* The acceptor's third item is its verdict.
LEMMA WriteVerdictKeeps ==
    ASSUME RouteFacts, LinkInv, NEW x \in Sides, x = Acceptor, WriteVerdict
    PROVE  Kept
<1>. DEFINE y == Peer(x)
            item == <<"byte", IF found[1].service = None THEN 1 ELSE 0>>
<1>1. /\ LinkTypeOK /\ FoundInv /\ SidesAgree /\ ConnectsWithinTarget
      /\ CopyInv(x) /\ CopyInv(y) /\ WireInv(x) /\ WireInv(y) /\ y \in Sides /\ y # x
      /\ y = Opener /\ x # Opener /\ Peer(y) = x
  BY InvFacts
<1>2. /\ state[x] = "found" /\ state'[y] = state[y]
      /\ \/ /\ found[1].service = None /\ state'[x] = "Refused"
            /\ gone' = [gone EXCEPT ![x] = TRUE]
         \/ /\ found[1].service # None /\ gone' = gone
            /\ state'[x] = IF found[1].service[1] = "proxy-tcp" THEN "accepted" ELSE "demand"
  BY <1>1, Zenon DEF LinkTypeOK, WriteVerdict, Fails
<1>3. /\ wire'[x] = wire[x] \o <<item>> /\ wire'[y] = wire[y]
      /\ copied' = copied /\ shut' = shut /\ got' = got /\ eof' = eof /\ connected' = connected
      /\ setup' = setup /\ addr' = addr /\ found' = found
  BY <1>1, Zenon DEF LinkTypeOK, copyVars, WriteVerdict, Write, Quiet
<1>4. Opener' = y /\ Acceptor' = x /\ x # Opener'
  BY <1>1, <1>3 DEF Acceptor, Opener, Peer
<1>5. item \in Items
  BY DEF Items
<1>. HIDE DEF y, item
<1>6. gone'[y] = gone[y] /\ (gone[x] => gone'[x]) /\ (gone'[x] => gone[x] \/ state'[x] = "Refused")
  BY <1>1, <1>2, Zenon DEF LinkTypeOK
<1>7. Frame(x)
  BY <1>2, <1>3, <1>6, Zenon DEF Frame, y
<1>8. state[x] \in Negotiating /\ state[x] \notin Ends /\ ~gone[x] /\ ~eof[x]
      /\ copied[x] = 0 /\ ~shut[x] /\ got[x] = <<>>
  BY <1>1, <1>2, Zenon DEF Ends, Negotiating, NegotiationErrors, ServiceErrors, RoutingErrors, CopyInv
<1>9. /\ found # None /\ found[1].addr = addr
      /\ found[1].service = FindService(setup.services, addr)
  BY <1>1, <1>2 DEF FoundInv
<1>10. state'[x] = "accepted" => TargetOf(addr) # None
  <2>. SUFFICES ASSUME state'[x] = "accepted"
                PROVE  TargetOf(addr) # None
    OBVIOUS
  <2>1. found[1].service # None /\ found[1].service[1] = "proxy-tcp"
    BY <1>2
  <2>2. setup.services \in Seq({"proxy-tcp", "proxyme"})
    BY <1>1, LinkAssumption DEF LinkTypeOK
  <2>3. PICK s \in {"proxy-tcp", "proxyme"} :
            Accepts(s, addr) /\ FindService(setup.services, addr) = Some(s)
    BY <1>1, <1>9, <2>1, <2>2, AddrType, Zenon DEF RouteFacts
  <2>4. s = "proxy-tcp"
    BY <1>9, <2>1, <2>3 DEF Some
  <2>. QED
    BY <2>3, <2>4 DEF Accepts
<1>11. FoundInv' /\ SidesAgree' /\ ConnectsWithinTarget'
  <2>1. ConnectsWithinTarget'
    BY <1>1, <1>3, Zenon DEF ConnectsWithinTarget
  <2>2. FoundInv'
    BY <1>1, <1>2, <1>3, <1>4, <1>9, <1>10, Zenon DEF FoundInv
  <2>3. SidesAgree'
    BY <1>1, <1>2, <1>3, <1>4 DEF SidesAgree
  <2>. QED
    BY <2>1, <2>2, <2>3
<1>12. state'[x] = "accepted" \/ state'[x] \in Ends
  BY <1>2 DEF Ends, NegotiationErrors
<1>13. CopyInv(x)' /\ CopyInv(y)'
  <2>1. gone'[x] => state'[x] \in Ends
    BY <1>6, <1>8, Zenon DEF Ends, NegotiationErrors
  <2>. QED
    BY ONLY <1>1, <1>3, <1>6, <1>7, <1>8, <2>1, CopyKept, x \in Sides, Zenon DEF y
<1>14. WireInv(x)'
  <2>. SUFFICES ASSUME state[y] \notin Ends, ~eof[y]
                PROVE  WireInv(x)'
    <3>1. Peer(x)' = y
      BY DEF y, Peer
    <3>. QED
      BY <1>2, <1>3, <3>1, Zenon DEF WireInv
  <2>1. Written(x) = 2
    BY <1>1, <1>2, Zenon DEF WireInv, y
  <2>2. item = Sent(x, 2 + 1)'
    <3>1. 2 + 1 # 1 /\ 2 + 1 # 2 /\ ~(2 + 1 > 3)
      OBVIOUS
    <3>. QED
      BY <1>3, <1>4, <3>1 DEF Sent, item
  <2>3. \A k \in 1 .. 2 : Sent(x, k)' = Sent(x, k)
    <3>1. \A k \in 1 .. 2 : k \in Nat \ {0}
      OBVIOUS
    <3>. QED
      BY <1>3, <3>1, SentKept, Zenon
  <2>4. /\ \A i \in 1 .. Len(wire'[x]) : wire'[x][i] = Sent(x, ReadBy(y) + i)'
        /\ Written(x)' = 2 + 1
    <3>. DEFINE it == item
    <3>. HIDE DEF it
    <3>1. it \in Items /\ wire'[x] = wire[x] \o <<it>> /\ it = Sent(x, 2 + 1)'
      BY <1>3, <1>5, <2>2 DEF it
    <3>. QED
      BY ONLY <1>1, <1>7, <2>1, <2>3, <3>1, OneItem, x \in Sides,
              state[y] \notin Ends, ~eof[y], 2 \in Nat, Zenon DEF y
  <2>5. Written(x)' = 3 + copied'[x] /\ ~shut'[x] /\ Peer(x)' = y /\ Written(x)' >= 3
    BY <1>3, <1>8, <2>4 DEF Peer, y
  <2>6. state'[x] \notin {"idle", "start", "magic read", "magic sent", "joined", "versioned", "found"}
    BY <1>2, Zenon
  <2>7. found' # None /\ (found'[1].service = None => state'[x] = "Refused")
    BY <1>2, <1>3, <1>9
  <2>. QED
    BY ONLY <2>4, <2>5, <2>6, <2>7, Zenon DEF WireInv
<1>15. WireInv(y)'
  <2>1. CASE state'[x] = "accepted"
    <3>1. ReadBy(x)' = ReadBy(x)
      BY <1>2, <1>3, <2>1 DEF ReadBy
    <3>. QED
      BY ONLY <1>1, <1>3, <1>7, <1>8, <3>1, ActorReaderQuiet, x \in Sides, Zenon DEF y
  <2>2. CASE state'[x] \in Ends
    BY <2>2, ReaderEnds DEF y
  <2>. QED
    BY <1>12, <2>1, <2>2
<1>. QED
  BY ONLY <1>11, <1>13, <1>14, <1>15, BothSides, x \in Sides DEF y

\* Every address a target resolves to is the literal that is its host, or one of
\* the family asked for that the resolver has for its host.
LEMMA ResolvedWithin ==
    ASSUME NEW t, t.class \in IPClasses \cup DnsClasses, HostParses(t.class, t.host),
           Resolve(t) # None, NEW ip \in Resolve(t)[1]
    PROVE  /\ t.class \in IPClasses => t.host = <<ip>>
           /\ t.class \in DnsClasses => ip \in Resolver[t.host[1]]
           /\ t.class = "dns4" => ip \in IPv4
           /\ t.class = "dns6" => ip \in IPv6
<1>1. CASE t.class \in IPClasses
  <2>1. Resolve(t) = Some({t.host[1]})
    BY <1>1 DEF Resolve, IPClasses, DnsClasses
  <2>2. \E w : t.host = <<w>>
    BY <1>1 DEF HostParses, IPClasses
  <2>3. ip = t.host[1]
    BY <2>1 DEF Some
  <2>. QED
    BY <1>1, <2>2, <2>3 DEF IPClasses, DnsClasses
<1>2. CASE t.class \in DnsClasses
  <2>1. Resolve(t) = Some({z \in Resolver[t.host[1]] : DnsContains(t.class, z)})
    BY <1>2 DEF Resolve, IPClasses, DnsClasses
  <2>2. DnsContains(t.class, ip) /\ ip \in Resolver[t.host[1]]
    BY <2>1 DEF Some
  <2>3. t.class \notin IPClasses
    BY <1>2 DEF IPClasses, DnsClasses
  <2>. QED
    BY <1>2, <2>2, <2>3, Zenon DEF DnsContains
<1>. QED
  BY <1>1, <1>2

\* The acceptor connects to an address of the target it was asked for.
LEMMA ConnectKeeps ==
    ASSUME RouteFacts, LinkInv, NEW x \in Sides, x = Acceptor, Connect
    PROVE  Kept
<1>. DEFINE y == Peer(x)
            target == TargetOf(addr)[1]
<1>1. /\ LinkTypeOK /\ FoundInv /\ SidesAgree /\ ConnectsWithinTarget
      /\ CopyInv(x) /\ CopyInv(y) /\ WireInv(x) /\ WireInv(y) /\ y \in Sides /\ y # x
      /\ y = Opener /\ Peer(y) = x
  BY InvFacts
<1>2. /\ state[x] = "accepted"
      /\ UNCHANGED <<setup, addr, found, wire, taken, copied, shut, got, given, eof>>
  BY Zenon DEF Connect, Hold
<1>3. found # None /\ found[1].addr = addr /\ TargetOf(addr) # None
  BY <1>1, <1>2 DEF FoundInv
<1>4. \/ /\ Resolve(target) # None /\ \E ip \in Usable(Resolve(target)[1]) : connected' = Some(ip)
         /\ state' = [state EXCEPT ![x] = "copying"] /\ gone' = gone
      \/ /\ \E e \in {"AddressError", "DependencyFailure"} : state' = [state EXCEPT ![x] = e]
         /\ gone' = [gone EXCEPT ![x] = TRUE] /\ connected' = connected
  BY <1>3 DEF Connect
<1>5. state[x] \in Negotiating /\ state[x] \notin Ends /\ ~gone[x] /\ ~eof[x]
  BY <1>1, <1>2, Zenon DEF Ends, Negotiating, NegotiationErrors, ServiceErrors, RoutingErrors, CopyInv
<1>6. Acceptor' = x /\ Opener' = y
  BY <1>1, <1>2 DEF Acceptor, Opener, Peer
<1>. HIDE DEF target, y
<1>7. ASSUME NEW e \in {"AddressError", "DependencyFailure"}, state' = [state EXCEPT ![x] = e],
             gone' = [gone EXCEPT ![x] = TRUE], connected' = connected
      PROVE  Kept
  <2>1. wire'[x] = wire[x] /\ UNCHANGED <<setup, addr, found, copyVars>>
    BY ONLY <1>2, <1>7, Zenon DEF copyVars
  <2>2. e \in Ends \ {"Refused", "demand", "done"}
    BY DEF Ends, ServiceErrors
  <2>. QED
    BY ONLY LinkInv, x \in Sides, <1>5, <1>7, <2>1, <2>2, FailureKeeps, Zenon
<1>8. ASSUME Resolve(target) # None, NEW ip \in Usable(Resolve(target)[1]), connected' = Some(ip),
             state' = [state EXCEPT ![x] = "copying"], gone' = gone
      PROVE  Kept
  <2>1. state'[x] = "copying" /\ state'[y] = state[y]
    BY <1>1, <1>8, Zenon DEF LinkTypeOK
  <2>2. Frame(x)
    BY <1>2, <1>8, <2>1, Zenon DEF Frame, y
  <2>3. ConnectsWithinTarget'
    <3>1. /\ target.class \in IPClasses \cup DnsClasses /\ HostParses(target.class, target.host)
          /\ \/ addr[2] = <<"tcp">> /\ target.class = "ip4" /\ target.host = <<Loopback[1]>>
             \/ addr[2] = <<target.class>> /\ addr[3] = target.host
      BY <1>1, <1>3, AddrType, Zenon DEF target, RouteFacts
    <3>2. ip \in Resolve(target)[1] /\ (setup.local_only => ip \in Range(Loopback))
      BY DEF Usable
    <3>3. /\ target.class \in IPClasses => target.host = <<ip>>
          /\ target.class \in DnsClasses => ip \in Resolver[target.host[1]]
          /\ target.class = "dns4" => ip \in IPv4
          /\ target.class = "dns6" => ip \in IPv6
      BY ONLY <1>8, <3>1, <3>2, ResolvedWithin, Zenon
    <3>4. connected'[1] = ip /\ addr' = addr /\ setup' = setup
      BY <1>2, <1>8 DEF Some
    <3>5. CASE addr[2] = <<"tcp">> /\ target.class = "ip4" /\ target.host = <<Loopback[1]>>
      <4>1. ip = Loopback[1]
        BY <3>3, <3>5 DEF IPClasses
      <4>2. /\ addr[2] \notin {<<"ip4">>, <<"ip6">>}
            /\ addr[2] \notin {<<"dns">>, <<"dns4">>, <<"dns6">>}
        BY ONLY <3>5
      <4>. QED
        BY ONLY <3>2, <3>4, <3>5, <4>1, <4>2, Zenon DEF ConnectsWithinTarget
    <3>6. CASE addr[2] = <<target.class>> /\ addr[3] = target.host
      <4>1. /\ addr[2] # <<"tcp">>
            /\ addr[2] \in {<<"ip4">>, <<"ip6">>} => target.class \in IPClasses
            /\ addr[2] \in {<<"dns">>, <<"dns4">>, <<"dns6">>} => target.class \in DnsClasses
            /\ addr[2] = <<"dns4">> => target.class = "dns4"
            /\ addr[2] = <<"dns6">> => target.class = "dns6"
        BY <3>1, <3>6 DEF IPClasses, DnsClasses
      <4>. QED
        BY ONLY <3>2, <3>3, <3>4, <3>6, <4>1, Zenon DEF ConnectsWithinTarget
    <3>. QED
      BY <3>1, <3>5, <3>6
  <2>4. FoundInv'
    BY <1>1, <1>2, <1>6, <2>1, Zenon DEF FoundInv
  <2>5. SidesAgree'
    BY <1>1, <1>2, <1>6, <2>1 DEF SidesAgree
  <2>6. CopyInv(x)' /\ CopyInv(y)'
    <3>1. gone[x] => gone'[x]
      BY <1>5
    <3>2. gone'[x] => state'[x] \in Ends
      BY <1>5, <1>8
    <3>3. copied' = copied /\ shut' = shut /\ got' = got /\ eof' = eof
      BY <1>2
    <3>. QED
      BY ONLY <1>1, <1>5, <2>2, <3>1, <3>2, <3>3, CopyKept, x \in Sides, Zenon DEF y
  <2>7. WireInv(x)'
    <3>1. SameStage(state[x], state'[x])
      BY <1>2, <2>1, Zenon DEF SameStage
    <3>2. wire'[x] = wire[x] /\ copied' = copied /\ shut' = shut /\ found' = found
      BY <1>2
    <3>. QED
      BY ONLY <1>1, <1>5, <2>2, <3>1, <3>2, ActorWriterQuiet, x \in Sides, Zenon
  <2>8. WireInv(y)'
    <3>1. ReadBy(x)' = ReadBy(x)
      BY <1>2, <2>1, Zenon DEF ReadBy
    <3>2. wire'[y] = wire[y] /\ found' = found
      BY <1>2
    <3>. QED
      BY ONLY <1>1, <1>5, <2>2, <3>1, <3>2, ActorReaderQuiet, x \in Sides, Zenon DEF y
  <2>. QED
    BY ONLY <2>3, <2>4, <2>5, <2>6, <2>7, <2>8, BothSides, x \in Sides DEF y
<1>. QED
  BY <1>4, <1>7, <1>8

\* What is known of a side that copies.
LEMMA CopyingFacts ==
    ASSUME LinkInv, NEW x \in Sides, state[x] = "copying"
    PROVE  /\ state[x] \notin Ends /\ state[x] \notin Negotiating /\ ~gone[x]
           /\ eof[Peer(x)] => shut[x]
           /\ copied[x] \in Nat /\ copied[Peer(x)] \in Nat
           /\ got[x] \in Seq(Items) /\ Len(got[x]) \in Nat
           /\ ReadBy(x) = 3 + Len(got[x])
           /\ Written(Peer(x)) = (3 + Len(got[x])) + Len(wire[Peer(x)])
<1>1. /\ LinkTypeOK /\ CopyInv(x) /\ CopyInv(Peer(x)) /\ Peer(x) \in Sides /\ Peer(Peer(x)) = x
  BY InvFacts
<1>2. state[x] \notin Ends /\ state[x] \notin Negotiating
  BY DEF Ends, Negotiating, NegotiationErrors, ServiceErrors, RoutingErrors
<1>3. ~gone[x]
  BY <1>1, <1>2, Zenon DEF CopyInv
<1>4. eof[Peer(x)] => shut[x]
  BY <1>1, <1>3, Zenon DEF CopyInv
<1>5. /\ copied[x] \in Nat /\ copied[Peer(x)] \in Nat
      /\ got[x] \in Seq(Items) /\ Len(got[x]) \in Nat
  BY <1>1 DEF LinkTypeOK
<1>6. ReadBy(x) = 3 + Len(got[x])
  BY DEF ReadBy
<1>7. Written(Peer(x)) = (3 + Len(got[x])) + Len(wire[Peer(x)])
  BY <1>1, <1>6 DEF Written
<1>. QED
  BY <1>2, <1>3, <1>4, <1>5, <1>6, <1>7, Zenon

\* How much a side that copies has written to a peer that reads.
LEMMA CopyingWritten ==
    ASSUME LinkInv, NEW x \in Sides, state[x] = "copying", ~shut[x],
           state[Peer(x)] \notin Ends, ~eof[Peer(x)]
    PROVE  Written(x) = 3 + copied[x] /\ (x = Acceptor => found # None /\ found[1].service # None)
<1>. DEFINE y == Peer(x)
<1>1. WireInv(x) /\ copied[x] \in Nat
  BY InvFacts, CopyingFacts, Zenon
<1>2. /\ Written(x) >= 3
      /\ Written(x) \in {0, 2} \/ Written(x) = 3 + copied[x]
      /\ x = Acceptor /\ Written(x) >= 3 => found # None /\ found[1].service # None
  BY <1>1, Zenon DEF WireInv
<1>. QED
  <2>1. Written(x) = 3 + copied[x]
    BY ONLY <1>2
  <2>. QED
    BY <1>2, <2>1

\* Data behind the data already sent.
LEMMA WriteLinkKeeps ==
    ASSUME LinkInv, NEW x \in Sides, WriteLink(x)
    PROVE  Kept
<1>. DEFINE y == Peer(x)
            c == copied[x]
<1>1. /\ LinkTypeOK /\ FoundInv /\ SidesAgree /\ ConnectsWithinTarget
      /\ CopyInv(x) /\ CopyInv(y) /\ WireInv(x) /\ WireInv(y) /\ y \in Sides /\ y # x
      /\ Peer(y) = x
  BY InvFacts
<1>2. state[x] = "copying" /\ ~shut[x] /\ wire'[x] = wire[x] \o <<<<"data", c + 1>>>> /\ wire'[y] = wire[y]
      /\ copied'[x] = c + 1 /\ copied'[y] = copied[y]
  BY <1>1, Zenon DEF LinkTypeOK, WriteLink, Write
<1>3. /\ state' = state /\ gone' = gone /\ shut' = shut /\ got' = got /\ eof' = eof
      /\ connected' = connected /\ setup' = setup /\ addr' = addr /\ found' = found
  BY DEF WriteLink, Hold
<1>4. state[x] \notin Ends /\ state[x] \notin Negotiating /\ ~gone[x] /\ ~eof[y] /\ c \in Nat
  BY <1>2, CopyingFacts, Zenon
<1>5. PICK d \in Nat : d = c
  BY <1>4
<1>6. copied[x] = d /\ copied'[x] = d + 1 /\ wire'[x] = wire[x] \o <<<<"data", d + 1>>>>
  BY <1>2, <1>5, Zenon
<1>. HIDE DEF y, c
<1>7. Frame(x)
  BY <1>2, <1>3, Zenon DEF Frame, y
<1>8. FoundInv' /\ SidesAgree' /\ ConnectsWithinTarget'
  <2>1. Moves(x)
    BY <1>3 DEF Moves
  <2>. QED
    BY ONLY <1>1, <1>3, <1>7, <2>1, SettledKept, x \in Sides
<1>9. Peer(x)' = y /\ Peer(y)' = x
  BY <1>1 DEF Peer, y
<1>10. CopyInv(x)' /\ CopyInv(y)'
  <2>1. CopyInv(x)'
    BY <1>1, <1>2, <1>3, <1>4, <1>9, Zenon DEF CopyInv, y
  <2>2. Len(got[y]) <= copied[x] /\ Len(got[y]) \in Nat
    <3>1. got[y] \in Seq(Items)
      BY <1>1, ItemTypes, Zenon
    <3>2. Len(got[y]) <= copied[x]
      BY <1>1, Zenon DEF CopyInv
    <3>. QED
      BY <3>1, <3>2, ItemSeq, Zenon
  <2>3. Len(got[y]) <= copied'[x]
    BY ONLY <1>5, <1>6, <2>2
  <2>4. CopyInv(y)'
    BY <1>1, <1>2, <1>3, <1>4, <1>9, <2>3, Zenon DEF CopyInv
  <2>. QED
    BY <2>1, <2>4
<1>11. WireInv(x)'
  <2>. SUFFICES ASSUME state[y] \notin Ends, ~eof[y]
                PROVE  WireInv(x)'
    BY <1>3, <1>9, Zenon DEF WireInv
  <2>1. Written(x) = 3 + d /\ (x = Acceptor => found # None /\ found[1].service # None)
    BY <1>2, <1>6, CopyingWritten, Zenon DEF y
  <2>2. PICK n \in Nat : n = 3 + d
    OBVIOUS
  <2>3. PICK it \in Items : it = <<"data", d + 1>>
    <3>1. d + 1 \in Nat
      OBVIOUS
    <3>2. <<"data", d + 1>> \in Items
      BY <3>1 DEF Items
    <3>. QED
      BY <3>2
  <2>4. it = Sent(x, n + 1)'
    <3>1. n + 1 > 3 /\ (n + 1) - 3 = d + 1 /\ d + 1 <= d + 1
      BY ONLY <2>2, d \in Nat
    <3>. QED
      BY <1>6, <2>3, <3>1 DEF Sent
  <2>5. ASSUME NEW k \in 1 .. n
        PROVE  Sent(x, k)' = Sent(x, k)
    <3>1. CASE k <= 3
      <4>1. ~(k > 3)
        BY ONLY <3>1, k \in 1 .. n, n \in Nat
      <4>. QED
        BY <1>3, <4>1, Zenon DEF Sent, Opener
    <3>2. CASE k > 3
      <4>1. k - 3 <= d /\ k - 3 <= d + 1
        BY ONLY <2>2, <3>2, k \in 1 .. n, d \in Nat
      <4>2. Sent(x, k) = <<"data", k - 3>>
        BY <1>6, <3>2, <4>1 DEF Sent
      <4>3. Sent(x, k)' = <<"data", k - 3>>
        BY <1>6, <3>2, <4>1 DEF Sent
      <4>. QED
        BY <4>2, <4>3
    <3>. QED
      BY <3>1, <3>2
  <2>6. /\ \A i \in 1 .. Len(wire'[x]) : wire'[x][i] = Sent(x, ReadBy(y) + i)'
        /\ Written(x)' = n + 1
    <3>1. wire'[x] = wire[x] \o <<it>> /\ Written(x) = n
      BY <1>6, <2>1, <2>2, <2>3, Zenon
    <3>. QED
      BY ONLY <1>1, <1>7, <2>4, <2>5, <3>1, it \in Items, n \in Nat, OneItem, x \in Sides,
              state[y] \notin Ends, ~eof[y], Zenon DEF y
  <2>7. Written(x)' = 3 + copied'[x] /\ ~shut'[x] /\ Written(x)' >= 3
    <3>1. Written(x)' = 3 + copied'[x] /\ Written(x)' >= 3
      BY ONLY <1>6, <2>2, <2>6, d \in Nat
    <3>. QED
      BY <1>2, <1>3, <3>1
  <2>8. state'[x] = "copying" /\ (x = Acceptor' => found' # None /\ found'[1].service # None)
    BY <1>2, <1>3, <2>1 DEF Acceptor, Opener, Peer
  <2>. QED
    BY ONLY <1>9, <2>6, <2>7, <2>8, Zenon DEF WireInv
<1>12. WireInv(y)'
  <2>1. ReadBy(x)' = ReadBy(x)
    BY <1>3 DEF ReadBy
  <2>2. eof'[x] \/ ~eof[x]
    BY <1>3
  <2>. QED
    BY ONLY <1>1, <1>2, <1>3, <1>4, <1>7, <2>1, <2>2, ActorReaderQuiet, x \in Sides, Zenon DEF y
<1>. QED
  BY ONLY <1>8, <1>10, <1>11, <1>12, BothSides, x \in Sides DEF y

\* The end of the data behind all of it.
LEMMA ShutLinkKeeps ==
    ASSUME LinkInv, NEW x \in Sides, ShutLink(x)
    PROVE  Kept
<1>. DEFINE y == Peer(x)
<1>1. /\ LinkTypeOK /\ FoundInv /\ SidesAgree /\ ConnectsWithinTarget
      /\ CopyInv(x) /\ CopyInv(y) /\ WireInv(x) /\ WireInv(y) /\ y \in Sides /\ y # x
      /\ Peer(y) = x
  BY InvFacts
<1>2. /\ state[x] = "copying" /\ ~shut[x] /\ wire'[x] = wire[x] \o <<<<"fin">>>> /\ wire'[y] = wire[y]
      /\ shut'[x] = TRUE /\ shut'[y] = shut[y]
  BY <1>1, Zenon DEF LinkTypeOK, ShutLink, Write
<1>3. /\ state'[x] = (IF eof[x] THEN "done" ELSE "copying") /\ gone'[x] = eof[x]
      /\ state'[y] = state[y] /\ gone'[y] = gone[y]
  BY <1>1, <1>2, Zenon DEF LinkTypeOK, ShutLink, CopyState
<1>4. /\ copied' = copied /\ got' = got /\ eof' = eof
      /\ connected' = connected /\ setup' = setup /\ addr' = addr /\ found' = found
  BY Zenon DEF ShutLink, Hold
<1>5. state[x] \notin Ends /\ state[x] \notin Negotiating /\ ~gone[x] /\ ~eof[y] /\ copied[x] \in Nat
  BY <1>2, CopyingFacts, Zenon
<1>6. PICK d \in Nat : d = copied[x]
  BY <1>5
<1>. HIDE DEF y
<1>7. Frame(x)
  BY <1>2, <1>3, <1>4, Zenon DEF Frame, y
<1>8. FoundInv' /\ SidesAgree' /\ ConnectsWithinTarget'
  <2>1. Moves(x)
    BY <1>2, <1>3, Zenon DEF Moves
  <2>. QED
    BY ONLY <1>1, <1>4, <1>7, <2>1, SettledKept, x \in Sides
<1>9. Peer(x)' = y /\ Peer(y)' = x
  BY <1>1 DEF Peer, y
<1>10. CopyInv(x)' /\ CopyInv(y)'
  <2>1. state'[x] \notin Negotiating /\ (gone'[x] => state'[x] \in Ends)
    BY <1>3 DEF Ends, Negotiating
  <2>2. CopyInv(x)'
    BY <1>1, <1>2, <1>3, <1>4, <1>9, <2>1, Zenon DEF CopyInv, y
  <2>3. CopyInv(y)'
    BY <1>1, <1>2, <1>3, <1>4, <1>5, <1>9, Zenon DEF CopyInv
  <2>. QED
    BY <2>2, <2>3
<1>11. WireInv(x)'
  <2>. SUFFICES ASSUME state[y] \notin Ends, ~eof[y]
                PROVE  WireInv(x)'
    BY <1>3, <1>4, <1>9, Zenon DEF WireInv
  <2>1. Written(x) = 3 + d /\ (x = Acceptor => found # None /\ found[1].service # None)
    BY <1>2, <1>6, CopyingWritten, Zenon DEF y
  <2>2. PICK n \in Nat : n = 3 + d
    OBVIOUS
  <2>3. PICK it \in Items : it = <<"fin">>
    BY Zenon DEF Items
  <2>4. it = Sent(x, n + 1)'
    <3>1. n + 1 > 3 /\ ~((n + 1) - 3 <= d) /\ n + 1 # 1 /\ n + 1 # 2
      BY ONLY <2>2, d \in Nat
    <3>. QED
      BY <1>4, <1>6, <2>3, <3>1 DEF Sent
  <2>5. \A k \in 1 .. n : Sent(x, k)' = Sent(x, k)
    BY <1>4, SentKept
  <2>6. /\ \A i \in 1 .. Len(wire'[x]) : wire'[x][i] = Sent(x, ReadBy(y) + i)'
        /\ Written(x)' = n + 1
    <3>1. wire'[x] = wire[x] \o <<it>> /\ Written(x) = n
      BY <1>2, <2>1, <2>2, <2>3, Zenon
    <3>. QED
      BY ONLY <1>1, <1>7, <2>4, <2>5, <3>1, it \in Items, n \in Nat, OneItem, x \in Sides,
              state[y] \notin Ends, ~eof[y], Zenon DEF y
  <2>7. Written(x)' = 4 + copied'[x] /\ shut'[x] /\ Written(x)' >= 3
    <3>1. Written(x)' = 4 + d /\ Written(x)' >= 3
      BY ONLY <2>2, <2>6, d \in Nat
    <3>. QED
      BY <1>2, <1>4, <1>6, <3>1, Zenon
  <2>8. /\ state'[x] \notin {"idle", "start", "magic read", "magic sent", "joined", "versioned", "found"}
        /\ x = Acceptor' => found' # None /\ found'[1].service # None
    BY <1>3, <1>4, <2>1 DEF Acceptor, Opener, Peer
  <2>. QED
    BY ONLY <1>9, <2>6, <2>7, <2>8, Zenon DEF WireInv
<1>12. WireInv(y)'
  <2>1. CASE eof[x]
    BY <1>4, <2>1, ReaderEnds DEF y
  <2>2. CASE ~eof[x]
    <3>1. ReadBy(x)' = ReadBy(x)
      BY <1>2, <1>3, <1>4, <2>2, Zenon DEF ReadBy
    <3>. QED
      BY ONLY <1>1, <1>2, <1>4, <1>5, <1>7, <2>2, <3>1, ActorReaderQuiet, x \in Sides, Zenon DEF y
  <2>. QED
    BY <2>1, <2>2
<1>. QED
  BY ONLY <1>8, <1>10, <1>11, <1>12, BothSides, x \in Sides DEF y

\* The next item for a side that copies is the next of its peer's data, or the
\* end of it when there is no more.
LEMMA NextItem ==
    ASSUME LinkInv, NEW x \in Sides, state[x] = "copying", ~eof[x], wire[Peer(x)] # <<>>
    PROVE  IF Len(got[x]) + 1 <= copied[Peer(x)]
           THEN Head(wire[Peer(x)]) = <<"data", Len(got[x]) + 1>>
           ELSE Head(wire[Peer(x)]) = <<"fin">>
<1>. DEFINE y == Peer(x)
            k == ReadBy(x) + 1
<1>1. LinkTypeOK /\ WireInv(y) /\ y \in Sides /\ Peer(y) = x
  BY InvFacts
<1>2. state[x] \notin Ends /\ Len(got[x]) \in Nat /\ ReadBy(x) = 3 + Len(got[x]) /\ copied[y] \in Nat
  BY CopyingFacts, Zenon
<1>. HIDE DEF y
<1>3. wire[y] \in Seq(Items) /\ wire[y] # <<>>
  BY <1>1 DEF LinkTypeOK, y
<1>4. Head(wire[y]) = wire[y][1] /\ 1 \in 1 .. Len(wire[y])
  BY ONLY <1>3
<1>5. wire[y][1] = Sent(y, k)
  BY <1>1, <1>2, <1>4, Zenon DEF WireInv
<1>6. k > 3 /\ k - 3 = Len(got[x]) + 1 /\ k # 1 /\ k # 2
  BY ONLY <1>2 DEF k
<1>. HIDE DEF k
<1>7. Sent(y, k) = IF Len(got[x]) + 1 <= copied[y] THEN <<"data", Len(got[x]) + 1>> ELSE <<"fin">>
  BY <1>6, Zenon DEF Sent
<1>. QED
  BY <1>4, <1>5, <1>7 DEF y

\* The data is delivered in the order in which it was sent.
LEMMA ReadLinkKeeps ==
    ASSUME LinkInv, NEW x \in Sides, ReadLink(x)
    PROVE  Kept
<1>. DEFINE y == Peer(x)
            item == Head(wire[y])
            m == Len(got[x])
<1>1. /\ LinkTypeOK /\ FoundInv /\ SidesAgree /\ ConnectsWithinTarget
      /\ CopyInv(x) /\ CopyInv(y) /\ WireInv(x) /\ WireInv(y) /\ y \in Sides /\ y # x
      /\ Peer(y) = x
  BY InvFacts
<1>2. /\ state[x] = "copying" /\ ~eof[x] /\ wire[y] # <<>> /\ item[1] # "fin"
      /\ wire'[x] = wire[x] /\ wire'[y] = Tail(wire[y])
      /\ got'[x] = Append(got[x], item) /\ got'[y] = got[y]
  BY <1>1, Zenon DEF LinkTypeOK, ReadLink, CanRead, Consume
<1>3. /\ state' = state /\ gone' = gone /\ shut' = shut /\ copied' = copied /\ eof' = eof
      /\ connected' = connected /\ setup' = setup /\ addr' = addr /\ found' = found
  BY DEF ReadLink, Hold
<1>4. state[x] \notin Ends /\ state[x] \notin Negotiating /\ ~gone[x]
      /\ got[x] \in Seq(Items) /\ m \in Nat /\ ReadBy(x) = 3 + m /\ copied[y] \in Nat
  BY <1>2, CopyingFacts, Zenon
<1>5. m + 1 <= copied[y] /\ item = <<"data", m + 1>>
  <2>1. IF m + 1 <= copied[y] THEN item = <<"data", m + 1>> ELSE item = <<"fin">>
    BY <1>2, NextItem
  <2>. HIDE DEF item
  <2>2. CASE ~(m + 1 <= copied[y])
    <3>1. item = <<"fin">>
      BY <2>1, <2>2, Zenon
    <3>2. item[1] = "fin"
      BY ONLY <3>1
    <3>. QED
      BY <1>2, <3>2, Zenon
  <2>. QED
    BY <2>1, <2>2, Zenon
<1>6. /\ Len(got'[x]) = m + 1 /\ got'[x][m + 1] = item
      /\ \A i \in 1 .. m : got'[x][i] = got[x][i]
  <2>1. item \in Items
    BY <1>1, <1>2, ItemTypes, ItemSeq, Zenon
  <2>. DEFINE I == Items
              s == got[x]
  <2>2. s \in Seq(I) /\ item \in I /\ got'[x] = Append(s, item) /\ m = Len(s)
    BY <1>2, <1>4, <2>1
  <2>. HIDE DEF item, I, s, m
  <2>3. /\ Len(Append(s, item)) = m + 1 /\ Append(s, item)[m + 1] = item
        /\ \A i \in 1 .. m : Append(s, item)[i] = s[i]
    BY ONLY <2>2
  <2>. QED
    BY <2>2, <2>3, Zenon DEF s
<1>. HIDE DEF y, item
<1>7. Frame(x)
  BY <1>2, <1>3, Zenon DEF Frame, y
<1>8. FoundInv' /\ SidesAgree' /\ ConnectsWithinTarget'
  <2>1. Moves(x)
    BY <1>3 DEF Moves
  <2>. QED
    BY ONLY <1>1, <1>3, <1>7, <2>1, SettledKept, x \in Sides
<1>9. Peer(x)' = y /\ Peer(y)' = x
  BY <1>1 DEF Peer, y
<1>10. CopyInv(x)' /\ CopyInv(y)'
  <2>1. got'[x] \in Seq(Items)
    <3>1. item \in Items
      BY <1>1, <1>2, ItemTypes, ItemSeq, Zenon DEF item
    <3>. QED
      BY <1>2, <1>4, <3>1
  <2>2. ASSUME NEW i \in DOMAIN got'[x]
        PROVE  got'[x][i] = <<"data", i>>
    <3>1. i \in 1 .. m + 1
      BY <1>6, <2>1, ItemSeq, Zenon
    <3>2. i \in 1 .. m \/ i = m + 1
      BY ONLY <1>4, <3>1
    <3>3. \A j \in 1 .. m : got[x][j] = <<"data", j>>
      BY <1>1, <1>4, ItemSeq, Zenon DEF CopyInv
    <3>. QED
      BY <1>5, <1>6, <3>2, <3>3, Zenon
  <2>3. Len(got'[x]) <= copied'[y]
    BY <1>3, <1>5, <1>6
  <2>4. CopyInv(x)'
    BY <1>2, <1>3, <1>4, <1>9, <2>2, <2>3, Zenon DEF CopyInv
  <2>5. CopyInv(y)'
    BY <1>1, <1>2, <1>3, <1>9, Zenon DEF CopyInv
  <2>. QED
    BY <2>4, <2>5
<1>11. WireInv(x)'
  BY ONLY <1>1, <1>2, <1>3, <1>7, ActorWriterQuiet, x \in Sides, Zenon
<1>12. WireInv(y)'
  <2>1. ReadBy(x)' = ReadBy(x) + 1
    <3>1. ReadBy(x)' = 3 + (m + 1)
      BY <1>2, <1>3, <1>6, Zenon DEF ReadBy
    <3>2. ReadBy(x) = 3 + m /\ m \in Nat
      BY <1>4, Zenon
    <3>. HIDE DEF m
    <3>. QED
      BY ONLY <3>1, <3>2
  <2>. QED
    BY ONLY <1>1, <1>2, <1>3, <1>4, <1>7, <2>1, ActorReads, x \in Sides, Zenon DEF y
<1>. QED
  BY ONLY <1>8, <1>10, <1>11, <1>12, BothSides, x \in Sides DEF y

\* The end is passed on when all the data has arrived.
LEMMA ShutTcpKeeps ==
    ASSUME LinkInv, NEW x \in Sides, ShutTcp(x)
    PROVE  Kept
<1>. DEFINE y == Peer(x)
            m == Len(got[x])
<1>1. /\ LinkTypeOK /\ FoundInv /\ SidesAgree /\ ConnectsWithinTarget
      /\ CopyInv(x) /\ CopyInv(y) /\ WireInv(x) /\ WireInv(y) /\ y \in Sides /\ y # x
      /\ Peer(y) = x
  BY InvFacts
<1>2. /\ state[x] = "copying" /\ ~eof[x] /\ wire'[x] = wire[x]
      /\ \/ wire[y] # <<>> /\ Head(wire[y])[1] = "fin"
         \/ gone[y] /\ wire[y] = <<>>
      /\ eof'[x] = TRUE /\ eof'[y] = eof[y]
  BY <1>1, Zenon DEF LinkTypeOK, ShutTcp, CanRead, ReadBreaks, Consume
<1>3. /\ state'[x] = (IF shut[x] THEN "done" ELSE "copying") /\ gone'[x] = shut[x]
      /\ state'[y] = state[y] /\ gone'[y] = gone[y]
  BY <1>1, <1>2, Zenon DEF LinkTypeOK, ShutTcp, CopyState
<1>4. /\ copied' = copied /\ got' = got /\ shut' = shut
      /\ connected' = connected /\ setup' = setup /\ addr' = addr /\ found' = found
  BY Zenon DEF ShutTcp, Hold
<1>5. /\ state[x] \notin Ends /\ state[x] \notin Negotiating /\ ~gone[x] /\ (eof[y] => shut[x])
      /\ m \in Nat /\ copied[y] \in Nat /\ Written(y) = (3 + m) + Len(wire[y])
  BY <1>2, CopyingFacts, Zenon
<1>. HIDE DEF y
<1>6. Frame(x)
  BY <1>2, <1>3, <1>4, Zenon DEF Frame, y
<1>7. FoundInv' /\ SidesAgree' /\ ConnectsWithinTarget'
  <2>1. Moves(x)
    BY <1>2, <1>3 DEF Moves
  <2>. QED
    BY ONLY <1>1, <1>4, <1>6, <2>1, SettledKept, x \in Sides
<1>8. Peer(x)' = y /\ Peer(y)' = x
  BY <1>1 DEF Peer, y
<1>9. (shut[y] \/ gone[y]) /\ m = copied[y]
  <2>1. m <= copied[y]
    BY <1>1, Zenon DEF CopyInv, y
  <2>2. \/ Written(y) \in {0, 2}
        \/ Written(y) = 3 + copied[y]
        \/ Written(y) = 4 + copied[y] /\ shut[y]
    BY <1>1, <1>2, <1>5, Zenon DEF WireInv
  <2>3. wire[y] \in Seq(Items) /\ Len(wire[y]) \in Nat
    BY <1>1, ItemTypes, ItemSeq, Zenon
  <2>. HIDE DEF m
  <2>4. CASE wire[y] # <<>> /\ Head(wire[y])[1] = "fin"
    <3>1. IF m + 1 <= copied[y] THEN Head(wire[y]) = <<"data", m + 1>> ELSE Head(wire[y]) = <<"fin">>
      BY <1>2, <2>4, NextItem, Zenon DEF y, m
    <3>2. ~(m + 1 <= copied[y])
      BY <2>4, <3>1
    <3>3. Len(wire[y]) >= 1
      BY <2>3, <2>4
    <3>4. m = copied[y]
      BY ONLY <1>5, <2>1, <3>2
    <3>5. Written(y) # 3 + copied[y] /\ Written(y) \notin {0, 2}
      <4>1. Written(y) = (3 + m) + Len(wire[y]) /\ m \in Nat
        BY <1>5
      <4>. QED
        BY ONLY <2>3, <3>3, <3>4, <4>1
    <3>. QED
      BY <2>2, <3>4, <3>5, Zenon
  <2>5. CASE gone[y] /\ wire[y] = <<>>
    <3>1. Written(y) = 3 + m
      BY <1>5, <2>5
    <3>2. m \in Nat /\ copied[y] \in Nat
      BY <1>5, Zenon
    <3>3. Written(y) \notin {0, 2} /\ Written(y) # 4 + copied[y]
      BY ONLY <2>1, <3>1, <3>2
    <3>4. Written(y) = 3 + copied[y] => m = copied[y]
      BY ONLY <3>1, <3>2
    <3>. QED
      BY <2>2, <2>5, <3>3, <3>4, Zenon
  <2>. QED
    BY <1>2, <2>4, <2>5, Zenon
<1>10. CopyInv(x)' /\ CopyInv(y)'
  <2>1. state'[x] \notin Negotiating /\ (gone'[x] => state'[x] \in Ends)
    BY <1>3 DEF Ends, Negotiating
  <2>2. CopyInv(x)'
    <3>1. Len(got'[x]) <= copied'[y] /\ Len(got'[x]) = copied'[y] /\ (shut'[y] \/ gone'[y])
      <4>1. Len(got'[x]) = copied'[y] /\ copied'[y] \in Nat
        BY <1>4, <1>5, <1>9, Zenon
      <4>2. shut'[y] \/ gone'[y]
        BY <1>3, <1>4, <1>9, Zenon
      <4>. QED
        BY ONLY <4>1, <4>2
    <3>2. \A i \in DOMAIN got'[x] : got'[x][i] = <<"data", i>>
      BY <1>1, <1>4, Zenon DEF CopyInv
    <3>. QED
      BY ONLY <1>8, <2>1, <3>1, <3>2 DEF CopyInv
  <2>3. CopyInv(y)'
    BY <1>1, <1>2, <1>3, <1>4, <1>5, <1>8, Zenon DEF CopyInv
  <2>. QED
    BY <2>2, <2>3
<1>11. WireInv(x)'
  <2>1. state'[x] = state[x] \/ state'[x] \in Ends
    BY <1>2, <1>3, Zenon DEF Ends
  <2>. QED
    BY ONLY <1>1, <1>2, <1>4, <1>5, <1>6, <2>1, ActorWriterQuiet, x \in Sides, Zenon
<1>12. WireInv(y)'
  BY <1>2, ReaderEnds, Zenon DEF y
<1>. QED
  BY ONLY <1>7, <1>10, <1>11, <1>12, BothSides, x \in Sides DEF y

\* Steps of the authentication, and those of the TCP connections, leave the link
\* alone.
LEMMA KeptUnchanged ==
    ASSUME LinkInv,
           UNCHANGED <<setup, addr, state, wire, gone, found, copied, shut, got, eof, connected>>
    PROVE  Kept
<1>1. FoundInv /\ SidesAgree /\ ConnectsWithinTarget
  BY DEF LinkInv
<1>2. FoundInv'
  BY <1>1, Zenon DEF FoundInv, Opener, Acceptor, Peer
<1>3. SidesAgree'
  BY <1>1 DEF SidesAgree, Opener, Acceptor, Peer
<1>4. ConnectsWithinTarget'
  BY <1>1 DEF ConnectsWithinTarget
<1>5. ASSUME NEW x \in Sides
      PROVE  CopyInv(x)' /\ WireInv(x)'
  <2>1. LinkTypeOK /\ CopyInv(x) /\ WireInv(x)
    BY <1>5 DEF LinkInv
  <2>2. Frame(x)
    BY DEF Frame
  <2>3. CopyInv(x)'
    BY <2>1, Zenon DEF CopyInv, Peer
  <2>4. WireInv(x)'
    BY ONLY <2>1, <2>2, ActorWriterQuiet, x \in Sides,
            UNCHANGED <<setup, addr, state, wire, gone, found, copied, shut, got, eof, connected>>, Zenon
  <2>. QED
    BY <2>3, <2>4
<1>. QED
  BY <1>2, <1>3, <1>4, <1>5 DEF Kept

\* Every step keeps the invariant, authentication and types aside.
LEMMA StepKeeps ==
    ASSUME RouteFacts, LinkInv, [LinkNext]_vars
    PROVE  Kept
<1>1. Opener \in Sides /\ Acceptor \in Sides
  BY InvFacts, TwoSides DEF Sides
<1>2. ASSUME \/ Authentication \/ CloseOnVersion \/ LoseTunnel \/ UNCHANGED vars
             \/ \E x \in Sides : EstablishmentTimesOut(x) \/ ReadTcp(x) \/ WriteTcp(x)
      PROVE  Kept
  <2>1. UNCHANGED <<setup, addr, state, wire, gone, found, copied, shut, got, eof, connected>>
    <3>1. CASE Authentication
      BY <3>1, Zenon DEF Authentication, EstablishListen, EstablishConnect, SendHelo, AnswerHelo, ReadAck,
                  EstablishmentFails, AuthenticateNoOp, ChannelFails, WriteChannel, AuthFails,
                  linkVars, copyVars
    <3>2. CASE CloseOnVersion \/ LoseTunnel \/ UNCHANGED vars
      BY <3>2 DEF CloseOnVersion, LoseTunnel, vars, linkVars, copyVars
    <3>3. CASE \E x \in Sides : EstablishmentTimesOut(x) \/ ReadTcp(x) \/ WriteTcp(x)
      BY <3>3, Zenon DEF EstablishmentTimesOut, AuthFails, ReadTcp, WriteTcp, Hold, linkVars, copyVars
    <3>. QED
      BY <1>2, <3>1, <3>2, <3>3
  <2>. QED
    BY ONLY LinkInv, <2>1, KeptUnchanged
<1>3. ASSUME Negotiation, ~CloseOnVersion
      PROVE  Kept
  <2>1. ASSUME Route \/ RouteFails \/ AcceptLink
        PROVE  Kept
    BY ONLY LinkInv, <2>1, RouteKeeps
  <2>2. ASSUME NEW x \in Sides, SendMagic(x)
        PROVE  Kept
    BY ONLY LinkInv, <2>2, SendMagicKeeps
  <2>3. ASSUME NEW x \in Sides, ReadMagic(x) \/ ReadVersion(x)
        PROVE  Kept
    BY ONLY LinkInv, <2>3, ReadMagicKeeps
  <2>4. ASSUME \/ \E x \in Sides : MagicFails(x) \/ VersionFails(x)
               \/ WriteAddressFails \/ VerdictFails \/ AddressFails \/ WriteVerdictFails
        PROVE  Kept
    BY ONLY LinkInv, <2>4, FailingActions
  <2>5. ASSUME WriteAddress PROVE Kept
    BY ONLY RouteFacts, LinkInv, <1>1, <2>5, WriteAddressKeeps
  <2>6. ASSUME ReadVerdict PROVE Kept
    BY ONLY LinkInv, <1>1, <2>6, ReadVerdictKeeps
  <2>7. ASSUME ReadAddress PROVE Kept
    BY ONLY RouteFacts, LinkInv, <1>1, <2>7, ReadAddressKeeps
  <2>8. ASSUME WriteVerdict PROVE Kept
    BY ONLY RouteFacts, LinkInv, <1>1, <2>8, WriteVerdictKeeps
  <2>. QED
    BY <1>3, <2>1, <2>2, <2>3, <2>4, <2>5, <2>6, <2>7, <2>8 DEF Negotiation
<1>4. ASSUME Connect PROVE Kept
  BY ONLY RouteFacts, LinkInv, <1>1, <1>4, ConnectKeeps
<1>5. ASSUME NEW x \in Sides, ReadLink(x) PROVE Kept
  BY ONLY LinkInv, <1>5, ReadLinkKeeps
<1>6. ASSUME NEW x \in Sides, ShutTcp(x) PROVE Kept
  BY ONLY LinkInv, <1>6, ShutTcpKeeps
<1>7. ASSUME NEW x \in Sides, WriteLink(x) PROVE Kept
  BY ONLY LinkInv, <1>7, WriteLinkKeeps
<1>8. ASSUME NEW x \in Sides, ShutLink(x) PROVE Kept
  BY ONLY LinkInv, <1>8, ShutLinkKeeps
<1>9. ASSUME NEW x \in Sides, CopyFails(x) PROVE Kept
  BY ONLY LinkInv, <1>9, FailingActions
<1>. QED
  BY <1>2, <1>3, <1>4, <1>5, <1>6, <1>7, <1>8, <1>9 DEF LinkNext, Copying

\* A write puts items on a wire.
LEMMA WriteType ==
    ASSUME LinkTypeOK, NEW x \in Sides, NEW items \in Seq(Items), Write(x, items)
    PROVE  wire' \in [Sides -> Seq(Items)]
<1>1. wire \in [Sides -> Seq(Items)] /\ wire' = [wire EXCEPT ![x] = wire[x] \o items]
  BY Zenon DEF LinkTypeOK, Write
<1>2. wire[x] \o items \in Seq(Items)
  <2>. DEFINE I == Items
  <2>1. wire[x] \in Seq(I) /\ items \in Seq(I)
    BY <1>1
  <2>. HIDE DEF I
  <2>2. wire[x] \o items \in Seq(I)
    BY ONLY <2>1
  <2>. QED
    BY <2>2, Zenon DEF I
<1>. QED
  BY <1>1, <1>2

\* A read leaves items on a wire.
LEMMA ConsumeType ==
    ASSUME LinkTypeOK, NEW x \in Sides, wire[Peer(x)] # <<>>, Consume(x)
    PROVE  wire' \in [Sides -> Seq(Items)]
<1>. DEFINE y == Peer(x)
<1>1. wire \in [Sides -> Seq(Items)] /\ wire' = [wire EXCEPT ![y] = Tail(wire[y])] /\ y \in Sides
  BY TypeFacts DEF Consume
<1>. HIDE DEF y
<1>2. Tail(wire[y]) \in Seq(Items)
  BY <1>1 DEF y
<1>. QED
  BY <1>1, <1>2

\* A side moves to a state.
LEMMA StateType ==
    ASSUME LinkTypeOK, NEW x \in Sides, NEW e \in States,
           state' = [state EXCEPT ![x] = e] \/ Fails(x, e),
           gone' = gone \/ Fails(x, e)
    PROVE  state' \in [Sides -> States] /\ gone' \in [Sides -> BOOLEAN]
BY TypeFacts, Zenon DEF Fails

\* The variables a step of the negotiation leaves alone keep their types.
LEMMA NegotiationType ==
    ASSUME LinkTypeOK, state' \in [Sides -> States], gone' \in [Sides -> BOOLEAN],
           wire' \in [Sides -> Seq(Items)], Quiet
    PROVE  LinkTypeOK'
BY Zenon DEF LinkTypeOK, Quiet, copyVars, authVars, States

\* The steps of the authentication keep the types.
LEMMA TypeAuthentication ==
    ASSUME LinkTypeOK, Authentication \/ \E x \in Sides : EstablishmentTimesOut(x)
    PROVE  LinkTypeOK'
<1>. DEFINE Others == UNCHANGED <<setup, state, linkVars, copyVars>>
<1>1. ASSUME auth' \in [Sides -> AuthStates], channel' \in Seq(Seq({"HELO", "/"})),
             downlink' \in [Sides -> Seq({"auth", "link"})], lost' \in BOOLEAN, Others
      PROVE  LinkTypeOK'
  BY <1>1, Zenon DEF LinkTypeOK, linkVars, copyVars
<1>2. /\ auth \in [Sides -> AuthStates] /\ channel \in Seq(Seq({"HELO", "/"}))
      /\ downlink \in [Sides -> Seq({"auth", "link"})] /\ lost \in BOOLEAN
  BY DEF LinkTypeOK
<1>. HIDE DEF Others
<1>3. ASSUME NEW x \in Sides, NEW e \in AuthStates, AuthFails(x, e)
      PROVE  LinkTypeOK'
  BY <1>1, <1>2, <1>3 DEF AuthFails, Others
<1>4. CASE EstablishListen
  <2>1. Append(downlink["Connect"], "auth") \in Seq({"auth", "link"})
    BY <1>2 DEF Sides
  <2>2. downlink' \in [Sides -> Seq({"auth", "link"})]
    BY <1>2, <1>4, <2>1, Zenon DEF EstablishListen
  <2>. QED
    BY <1>1, <1>2, <1>4, <2>2, Zenon DEF EstablishListen, AuthStates, Others
<1>5. CASE EstablishConnect
  <2>1. Tail(downlink["Connect"]) \in Seq({"auth", "link"})
    BY <1>2, <1>5 DEF Sides, EstablishConnect
  <2>2. downlink' \in [Sides -> Seq({"auth", "link"})]
    BY <1>2, <1>5, <2>1, Zenon DEF EstablishConnect
  <2>. QED
    BY <1>1, <1>2, <1>5, <2>2 DEF EstablishConnect, AuthStates, Others
<1>6. ASSUME NEW x \in Sides, NEW from, NEW text \in Seq({"HELO", "/"}), NEW to \in AuthStates,
             WriteChannel(x, from, text, to)
      PROVE  LinkTypeOK'
  <2>1. Append(channel, text) \in Seq(Seq({"HELO", "/"}))
    BY <1>2
  <2>. QED
    BY <1>1, <1>2, <1>6, <2>1 DEF WriteChannel, Others
<1>7. CASE SendHelo
  <2>1. <<"HELO">> \in Seq({"HELO", "/"}) /\ "awaiting" \in AuthStates /\ "Listen" \in Sides
    BY DEF AuthStates, Sides
  <2>. QED
    BY <1>6, <1>7, <2>1, Zenon DEF SendHelo
<1>8. CASE AnswerHelo
  <2>1. channel[1] \in Seq({"HELO", "/"})
    <3>. DEFINE T == Seq({"HELO", "/"})
    <3>1. Len(channel) = 1 /\ channel \in Seq(T)
      BY <1>2, <1>8 DEF AnswerHelo
    <3>. HIDE DEF T
    <3>2. channel[1] \in T
      BY <3>1
    <3>. QED
      BY <3>2 DEF T
  <2>2. channel[1] \o <<"/">> \o channel[1] \in Seq({"HELO", "/"})
    <3>. DEFINE t == channel[1]
    <3>. HIDE DEF t
    <3>1. t \in Seq({"HELO", "/"}) /\ <<"/">> \in Seq({"HELO", "/"})
      BY <2>1 DEF t
    <3>2. t \o <<"/">> \in Seq({"HELO", "/"})
      BY <3>1
    <3>3. t \o <<"/">> \o t \in Seq({"HELO", "/"})
      BY <3>1, <3>2
    <3>. QED
      BY <3>3 DEF t
  <2>3. "ok" \in AuthStates /\ "Connect" \in Sides
    BY DEF AuthStates, Sides
  <2>. QED
    BY <1>6, <1>8, <2>2, <2>3, Zenon DEF AnswerHelo
<1>9. CASE ReadAck
  <2>1. "ProtocolViolation" \in AuthStates /\ "ok" \in AuthStates /\ "Listen" \in Sides
    BY DEF AuthStates, Sides
  <2>2. CASE AuthFails("Listen", "ProtocolViolation")
    BY <1>3, <2>1, <2>2
  <2>3. CASE ~AuthFails("Listen", "ProtocolViolation")
    <3>1. /\ auth' = [auth EXCEPT !["Listen"] = "ok"]
          /\ UNCHANGED <<setup, channel, channelOf, downlink, state, linkVars, copyVars, lost>>
      BY <1>9, <2>3 DEF ReadAck
    <3>. QED
      BY <1>1, <1>2, <2>1, <3>1 DEF Others
  <2>. QED
    BY <2>2, <2>3
<1>10. ASSUME NEW x \in Sides, EstablishmentFails(x) \/ EstablishmentTimesOut(x) \/ ChannelFails(x)
       PROVE  LinkTypeOK'
  <2>1. PICK e \in AuthStates : AuthFails(x, e)
    BY <1>10 DEF EstablishmentFails, EstablishmentTimesOut, ChannelFails, AuthStates
  <2>. QED
    BY <1>3, <2>1
<1>11. ASSUME NEW x \in Sides, AuthenticateNoOp(x)
       PROVE  LinkTypeOK'
  BY <1>1, <1>2, <1>11 DEF AuthenticateNoOp, AuthStates, Others
<1>. QED
  BY <1>4, <1>5, <1>7, <1>8, <1>9, <1>10, <1>11 DEF Authentication

\* The steps of the negotiation keep the types.
LEMMA TypeNegotiation ==
    ASSUME RouteFacts, LinkTypeOK, Negotiation
    PROVE  LinkTypeOK'
<1>. DEFINE Others == UNCHANGED <<setup, authVars, linkVars, copyVars>>
            Streams == [Sides -> Seq({"auth", "link"})]
<1>1. /\ wire \in [Sides -> Seq(Items)] /\ gone \in [Sides -> BOOLEAN] /\ state \in [Sides -> States]
      /\ Opener \in Sides /\ Acceptor \in Sides /\ \A x \in Sides : Peer(x) \in Sides
      /\ Peer(Opener) = Acceptor /\ Peer(Acceptor) = Opener
  BY TypeFacts, TwoSides DEF Acceptor
<1>2. downlink \in Streams /\ lost \in BOOLEAN
  BY Zenon DEF LinkTypeOK
<1>3. ASSUME state' \in [Sides -> States], downlink' \in Streams, lost' \in BOOLEAN, Others
      PROVE  LinkTypeOK'
  BY <1>3, Zenon DEF LinkTypeOK, linkVars, copyVars, authVars, States
<1>. HIDE DEF Others, Streams
<1>4. CASE CloseOnVersion
  BY <1>1, <1>2, <1>3, <1>4 DEF CloseOnVersion, Others
<1>5. CASE Route
  <2>1. Append(downlink[Acceptor], "link") \in Seq({"auth", "link"})
    BY <1>1, <1>2 DEF Streams
  <2>2. downlink' \in Streams
    BY <1>1, <1>2, <1>5, <2>1 DEF Route, Streams
  <2>3. state' \in [Sides -> States]
    BY <1>1, <1>5, Zenon DEF Route, States, Negotiating
  <2>. QED
    BY <1>2, <1>3, <1>5, <2>2, <2>3 DEF Route, Others
<1>6. CASE RouteFails
  <2>1. state' \in [Sides -> States]
    BY <1>1, <1>6 DEF RouteFails, States, Ends
  <2>. QED
    BY <1>2, <1>3, <1>6, <2>1 DEF RouteFails, Others
<1>7. CASE AcceptLink
  <2>1. Tail(downlink[Acceptor]) \in Seq({"auth", "link"})
    BY <1>1, <1>2, <1>7 DEF Streams, AcceptLink
  <2>2. downlink' \in Streams
    BY <1>1, <1>2, <1>7, <2>1 DEF AcceptLink, Streams
  <2>3. state' \in [Sides -> States]
    BY <1>1, <1>7, Zenon DEF AcceptLink, States, Negotiating
  <2>. QED
    BY <1>2, <1>3, <1>7, <2>2, <2>3 DEF AcceptLink, Others
<1>8. ASSUME NEW x \in Sides, SendMagic(x)
      PROVE  LinkTypeOK'
  <2>1. setup.version[x] \in Nat
    BY LinkAssumption DEF LinkTypeOK, Sides
  <2>2. <<"magic">> \in Items /\ <<"version", setup.version[x]>> \in Items
    BY <2>1 DEF Items
  <2>3. wire' \in [Sides -> Seq(Items)]
    <3>1. <<<<"magic">>, <<"version", setup.version[x]>>>> \in Seq(Items)
      BY <2>2
    <3>. QED
      BY <1>8, <3>1, WriteType, Zenon DEF SendMagic
  <2>4. state' \in [Sides -> States] /\ gone' \in [Sides -> BOOLEAN]
    BY <1>1, <1>8, Zenon DEF SendMagic, States, Negotiating
  <2>. QED
    BY <1>8, <2>3, <2>4, NegotiationType, Zenon DEF SendMagic
<1>9. ASSUME NEW x \in Sides, ReadMagic(x) \/ ReadVersion(x)
      PROVE  LinkTypeOK'
  <2>1. wire' \in [Sides -> Seq(Items)]
    BY <1>9, ConsumeType, Zenon DEF ReadMagic, ReadVersion, CanRead
  <2>2. state' \in [Sides -> States] /\ gone' \in [Sides -> BOOLEAN]
    BY <1>1, <1>9, Zenon DEF ReadMagic, ReadVersion, Fails, States, Negotiating, Ends, NegotiationErrors
  <2>. QED
    BY <1>9, <2>1, <2>2, NegotiationType, Zenon DEF ReadMagic, ReadVersion
<1>10. ASSUME \/ \E x \in Sides : MagicFails(x) \/ VersionFails(x)
              \/ WriteAddressFails \/ VerdictFails \/ AddressFails \/ WriteVerdictFails
       PROVE  LinkTypeOK'
  <2>1. PICK x \in Sides, e \in NegotiationErrors : Fails(x, e) /\ wire' = wire /\ Quiet
    BY <1>1, <1>10, Zenon DEF MagicFails, VersionFails, WriteAddressFails, VerdictFails, AddressFails,
                       WriteVerdictFails, NegotiationErrors
  <2>2. e \in States
    BY DEF States, Ends
  <2>. QED
    BY <1>1, <2>1, <2>2, StateType, NegotiationType
<1>11. CASE WriteAddress
  <2>1. <<"frame", Rendered(addr)>> \in Items
    BY AddrType DEF Items
  <2>2. wire' \in [Sides -> Seq(Items)]
    <3>1. <<<<"frame", Rendered(addr)>>>> \in Seq(Items)
      BY <2>1
    <3>. QED
      BY <1>1, <1>11, <3>1, WriteType, Zenon DEF WriteAddress
  <2>3. state' \in [Sides -> States] /\ gone' \in [Sides -> BOOLEAN]
    BY <1>1, <1>11, Zenon DEF WriteAddress, States, Negotiating
  <2>. QED
    BY <1>11, <2>2, <2>3, NegotiationType DEF WriteAddress
<1>12. CASE ReadVerdict
  <2>1. wire' \in [Sides -> Seq(Items)]
    BY <1>1, <1>12, ConsumeType DEF ReadVerdict, CanRead
  <2>2. state' \in [Sides -> States] /\ gone' \in [Sides -> BOOLEAN]
    BY <1>1, <1>12, Zenon DEF ReadVerdict, Fails, States, Ends, NegotiationErrors
  <2>. QED
    BY <1>12, <2>1, <2>2, NegotiationType DEF ReadVerdict
<1>13. CASE ReadAddress
  <2>1. wire' \in [Sides -> Seq(Items)]
    BY <1>1, <1>13, ConsumeType, Zenon DEF ReadAddress, CanRead
  <2>2. PICK e \in {"ProtocolViolation", "found"} :
            /\ state' = [state EXCEPT ![Acceptor] = e] \/ Fails(Acceptor, e)
            /\ gone' = gone \/ Fails(Acceptor, e)
    BY <1>13, Zenon DEF ReadAddress
  <2>3. e \in States
    BY Zenon DEF States, Ends, NegotiationErrors, Negotiating
  <2>4. state' \in [Sides -> States] /\ gone' \in [Sides -> BOOLEAN]
    BY <1>1, <2>2, <2>3, StateType
  <2>. QED
    BY <1>13, <2>1, <2>4, NegotiationType, Zenon DEF ReadAddress
<1>14. CASE WriteVerdict
  <2>1. PICK b \in {0, 1} : Write(Acceptor, <<<<"byte", b>>>>)
    BY <1>14 DEF WriteVerdict
  <2>2. wire' \in [Sides -> Seq(Items)]
    <3>1. <<"byte", b>> \in Items
      BY DEF Items
    <3>2. <<<<"byte", b>>>> \in Seq(Items)
      BY <3>1
    <3>. QED
      BY <1>1, <2>1, <3>2, WriteType, Zenon
  <2>3. PICK e \in {"Refused", "accepted", "demand"} :
            /\ state' = [state EXCEPT ![Acceptor] = e] \/ Fails(Acceptor, e)
            /\ gone' = gone \/ Fails(Acceptor, e)
    BY <1>14, Zenon DEF WriteVerdict
  <2>4. e \in States
    BY Zenon DEF States, Ends, NegotiationErrors, Negotiating
  <2>5. state' \in [Sides -> States] /\ gone' \in [Sides -> BOOLEAN]
    BY <1>1, <2>3, <2>4, StateType
  <2>. QED
    BY <1>14, <2>2, <2>5, NegotiationType, Zenon DEF WriteVerdict
<1>. QED
  BY <1>4, <1>5, <1>6, <1>7, <1>8, <1>9, <1>10, <1>11, <1>12, <1>13, <1>14 DEF Negotiation

\* The steps of the copying keep the types.
LEMMA TypeCopying ==
    ASSUME LinkTypeOK,
           Copying \/ \E x \in Sides : ReadTcp(x) \/ ShutLink(x) \/ CopyFails(x)
    PROVE  LinkTypeOK'
<1>1. /\ wire \in [Sides -> Seq(Items)] /\ gone \in [Sides -> BOOLEAN] /\ state \in [Sides -> States]
      /\ Opener \in Sides /\ Acceptor \in Sides /\ \A x \in Sides : Peer(x) \in Sides
  BY TypeFacts
<1>2. /\ copied \in [Sides -> Nat] /\ shut \in [Sides -> BOOLEAN]
      /\ got \in [Sides -> Seq(Items)] /\ eof \in [Sides -> BOOLEAN]
      /\ taken \in [Sides -> Nat] /\ given \in [Sides -> Nat]
  BY Zenon DEF LinkTypeOK
<1>3. ASSUME taken' \in [Sides -> Nat], given' \in [Sides -> Nat],
             state' \in [Sides -> States], gone' \in [Sides -> BOOLEAN],
             wire' \in [Sides -> Seq(Items)], copied' \in [Sides -> Nat],
             shut' \in [Sides -> BOOLEAN], got' \in [Sides -> Seq(Items)],
             eof' \in [Sides -> BOOLEAN], Hold
      PROVE  LinkTypeOK'
  BY <1>3, Zenon DEF LinkTypeOK, Hold, authVars, States
<1>4. CASE Connect
  <2>1. PICK e \in {"copying", "AddressError", "DependencyFailure"} :
            state' = [state EXCEPT ![Acceptor] = e]
    BY <1>4, Zenon DEF Connect
  <2>2. e \in States
    BY DEF States, Ends, ServiceErrors
  <2>3. gone' \in [Sides -> BOOLEAN]
    BY <1>1, <1>4, Zenon DEF Connect
  <2>4. state' \in [Sides -> States]
    BY <1>1, <2>1, <2>2
  <2>5. /\ wire' = wire /\ copied' = copied /\ shut' = shut /\ got' = got /\ eof' = eof
        /\ taken' = taken /\ given' = given /\ Hold
    BY <1>4, Zenon DEF Connect
  <2>. QED
    BY ONLY <1>1, <1>2, <1>3, <2>3, <2>4, <2>5
<1>5. ASSUME NEW x \in Sides, NEW out \in BOOLEAN, NEW in \in BOOLEAN, CopyState(x, out, in)
      PROVE  state' \in [Sides -> States] /\ gone' \in [Sides -> BOOLEAN]
  BY <1>1, <1>5 DEF CopyState, States, Ends
<1>6. ASSUME NEW x \in Sides, WriteLink(x)
      PROVE  LinkTypeOK'
  <2>1. copied[x] + 1 \in Nat
    BY <1>2
  <2>2. <<<<"data", copied[x] + 1>>>> \in Seq(Items)
    <3>1. <<"data", copied[x] + 1>> \in Items
      BY <2>1 DEF Items
    <3>. QED
      BY <3>1
  <2>3. wire' \in [Sides -> Seq(Items)]
    BY <1>6, <2>2, WriteType, Zenon DEF WriteLink
  <2>4. copied' \in [Sides -> Nat]
    BY <1>2, <1>6, <2>1, Zenon DEF WriteLink
  <2>5. /\ state' = state /\ gone' = gone /\ shut' = shut /\ got' = got /\ eof' = eof
        /\ taken' = taken /\ given' = given /\ Hold
    BY <1>6, Zenon DEF WriteLink
  <2>. QED
    BY ONLY <1>1, <1>2, <1>3, <2>3, <2>4, <2>5, Zenon
<1>7. ASSUME NEW x \in Sides, ShutLink(x)
      PROVE  LinkTypeOK'
  <2>1. <<<<"fin">>>> \in Seq(Items)
    <3>1. <<"fin">> \in Items
      BY DEF Items
    <3>. QED
      BY <3>1
  <2>2. wire' \in [Sides -> Seq(Items)]
    BY <1>7, <2>1, WriteType, Zenon DEF ShutLink
  <2>3. shut' \in [Sides -> BOOLEAN]
    BY <1>2, <1>7 DEF ShutLink
  <2>4. state' \in [Sides -> States] /\ gone' \in [Sides -> BOOLEAN]
    <3>1. eof[x] \in BOOLEAN /\ CopyState(x, TRUE, eof[x])
      BY <1>2, <1>7, Zenon DEF ShutLink
    <3>. QED
      BY <1>5, <3>1, Zenon
  <2>5. copied' = copied /\ got' = got /\ eof' = eof /\ taken' = taken /\ given' = given /\ Hold
    BY <1>7, Zenon DEF ShutLink
  <2>. QED
    BY ONLY <1>2, <1>3, <2>2, <2>3, <2>4, <2>5
<1>8. ASSUME NEW x \in Sides, ReadLink(x)
      PROVE  LinkTypeOK'
  <2>1. wire' \in [Sides -> Seq(Items)]
    BY <1>8, ConsumeType, Zenon DEF ReadLink, CanRead
  <2>2. Append(got[x], Head(wire[Peer(x)])) \in Seq(Items)
    <3>1. wire[Peer(x)] \in Seq(Items) /\ wire[Peer(x)] # <<>>
      BY <1>1, <1>8 DEF ReadLink, CanRead
    <3>2. Head(wire[Peer(x)]) \in Items
      BY <3>1, ItemSeq, Zenon
    <3>. QED
      BY <1>2, <3>2
  <2>3. got' \in [Sides -> Seq(Items)]
    BY <1>2, <1>8, <2>2 DEF ReadLink
  <2>4. /\ state' = state /\ gone' = gone /\ copied' = copied /\ shut' = shut /\ eof' = eof
        /\ taken' = taken /\ given' = given /\ Hold
    BY <1>8, Zenon DEF ReadLink
  <2>. QED
    BY ONLY <1>1, <1>2, <1>3, <2>1, <2>3, <2>4
<1>9. ASSUME NEW x \in Sides, ShutTcp(x)
      PROVE  LinkTypeOK'
  <2>1. wire' \in [Sides -> Seq(Items)]
    <3>1. CASE wire' = wire
      BY <1>1, <3>1
    <3>2. CASE CanRead(x) /\ Consume(x)
      BY <3>2, ConsumeType, Zenon DEF CanRead
    <3>. QED
      BY <1>9, <3>1, <3>2, Zenon DEF ShutTcp
  <2>2. eof' \in [Sides -> BOOLEAN]
    BY <1>2, <1>9 DEF ShutTcp
  <2>3. state' \in [Sides -> States] /\ gone' \in [Sides -> BOOLEAN]
    <3>1. shut[x] \in BOOLEAN /\ CopyState(x, shut[x], TRUE)
      BY <1>2, <1>9, Zenon DEF ShutTcp
    <3>. QED
      BY <1>5, <3>1, Zenon
  <2>4. copied' = copied /\ got' = got /\ shut' = shut /\ taken' = taken /\ given' = given /\ Hold
    BY <1>9, Zenon DEF ShutTcp
  <2>. QED
    BY ONLY <1>2, <1>3, <2>1, <2>2, <2>3, <2>4
<1>10. ASSUME NEW x \in Sides, CopyFails(x)
       PROVE  LinkTypeOK'
  <2>1. state' \in [Sides -> States] /\ gone' \in [Sides -> BOOLEAN]
    BY <1>1, <1>10, Zenon DEF CopyFails, CopyError, States, Ends, ServiceErrors
  <2>2. /\ wire' = wire /\ copied' = copied /\ shut' = shut /\ got' = got /\ eof' = eof
        /\ taken' = taken /\ given' = given /\ Hold
    BY <1>10 DEF CopyFails, copyVars
  <2>. QED
    BY ONLY <1>1, <1>2, <1>3, <2>1, <2>2
<1>11. ASSUME NEW x \in Sides, ReadTcp(x) \/ WriteTcp(x)
       PROVE  LinkTypeOK'
  <2>1. taken' = [taken EXCEPT ![x] = taken[x] + 1] \/ taken' = taken
    BY <1>11, Zenon DEF ReadTcp, WriteTcp
  <2>2. given' = [given EXCEPT ![x] = given[x] + 1] \/ given' = given
    BY <1>11, Zenon DEF ReadTcp, WriteTcp
  <2>3. taken' \in [Sides -> Nat] /\ given' \in [Sides -> Nat]
    <3>1. taken[x] + 1 \in Nat /\ given[x] + 1 \in Nat
      BY ONLY <1>2, x \in Sides
    <3>. QED
      BY ONLY <1>2, <2>1, <2>2, <3>1, x \in Sides, Zenon
  <2>4. /\ state' = state /\ gone' = gone /\ wire' = wire /\ copied' = copied
        /\ shut' = shut /\ got' = got /\ eof' = eof /\ Hold
    BY <1>11, Zenon DEF ReadTcp, WriteTcp
  <2>. QED
    BY ONLY <1>1, <1>2, <1>3, <2>3, <2>4
<1>. QED
  BY <1>4, <1>6, <1>7, <1>8, <1>9, <1>10, <1>11 DEF Copying

\* Every step keeps the types.
LEMMA TypeStep ==
    ASSUME RouteFacts, LinkTypeOK, [LinkNext]_vars
    PROVE  LinkTypeOK'
<1>1. CASE LoseTunnel
  BY <1>1, Zenon DEF LoseTunnel, LinkTypeOK, authVars, linkVars, copyVars
<1>2. CASE UNCHANGED vars
  BY <1>2, Zenon DEF vars, LinkTypeOK, authVars, linkVars, copyVars
<1>. QED
  BY <1>1, <1>2, TypeAuthentication, TypeNegotiation, TypeCopying DEF LinkNext

\* A step that neither authenticates nor opens a link keeps what is known of
\* the authentication.
LEMMA AuthKept ==
    ASSUME LinkTypeOK, AuthInv, UNCHANGED <<setup, authVars, downlink>>,
           \A x \in Sides : state'[x] # "idle" => state[x] # "idle"
    PROVE  AuthInv'
BY Zenon DEF AuthInv, AuthenticationComesFirst, authVars

\* The steps on an open link are such steps.
LEMMA AuthLink ==
    ASSUME LinkTypeOK, AuthInv, [LinkNext]_vars,
           ~Authentication, ~Route, ~RouteFails, ~AcceptLink,
           ~\E x \in Sides : EstablishmentTimesOut(x)
    PROVE  AuthInv'
<1>. DEFINE Fixed == UNCHANGED <<setup, authVars, downlink>>
            Later == \A x \in Sides : state'[x] # "idle" => state[x] # "idle"
            Moved(x) == state[x] # "idle" /\ \E e : state' = [state EXCEPT ![x] = e]
<1>1. state \in [Sides -> States] /\ Opener \in Sides /\ Acceptor \in Sides
  BY TypeFacts
<1>2. ASSUME NEW x \in Sides, Moved(x)
      PROVE  Later
  BY <1>1, <1>2
<1>3. ASSUME state' = state
      PROVE  Later
  BY <1>3
<1>4. ASSUME Fixed, Later
      PROVE  AuthInv'
  BY <1>4, AuthKept
<1>. HIDE DEF Fixed, Later, Moved
<1>5. CASE CloseOnVersion \/ LoseTunnel \/ UNCHANGED vars
  BY <1>3, <1>4, <1>5 DEF CloseOnVersion, LoseTunnel, vars, authVars, Fixed
<1>6. ASSUME NEW x \in Sides,
             SendMagic(x) \/ ReadMagic(x) \/ MagicFails(x) \/ ReadVersion(x) \/ VersionFails(x)
      PROVE  AuthInv'
  <2>1. Moved(x) /\ Fixed
    BY <1>6, Zenon DEF SendMagic, ReadMagic, MagicFails, ReadVersion, VersionFails, Fails, Quiet, Moved, Fixed
  <2>. QED
    BY <1>2, <1>4, <2>1
<1>7. CASE WriteAddress \/ WriteAddressFails \/ ReadVerdict \/ VerdictFails
  <2>1. Moved(Opener) /\ Fixed
    BY <1>7, Zenon DEF WriteAddress, WriteAddressFails, ReadVerdict, VerdictFails, Fails, Quiet, Moved, Fixed
  <2>. QED
    BY <1>1, <1>2, <1>4, <2>1
<1>8. CASE ReadAddress \/ AddressFails \/ WriteVerdict \/ WriteVerdictFails \/ Connect
  <2>1. Fixed /\ state[Acceptor] # "idle"
    BY <1>8, Zenon DEF ReadAddress, AddressFails, WriteVerdict, WriteVerdictFails, Connect, Quiet, Hold, Fixed
  <2>2. \E e : state' = [state EXCEPT ![Acceptor] = e]
    BY <1>8, Zenon DEF ReadAddress, AddressFails, WriteVerdict, WriteVerdictFails, Connect, Fails
  <2>3. Moved(Acceptor)
    BY <2>1, <2>2, Zenon DEF Moved
  <2>. QED
    BY <1>1, <1>2, <1>4, <2>1, <2>3
<1>9. ASSUME NEW x \in Sides, ReadTcp(x) \/ WriteLink(x) \/ ReadLink(x) \/ WriteTcp(x)
      PROVE  AuthInv'
  <2>1. state' = state /\ Fixed
    BY <1>9, Zenon DEF ReadTcp, WriteLink, ReadLink, WriteTcp, Hold, Fixed
  <2>. QED
    BY <1>3, <1>4, <2>1
<1>10. ASSUME NEW x \in Sides, ShutLink(x) \/ ShutTcp(x) \/ CopyFails(x)
       PROVE  AuthInv'
  <2>1. Moved(x) /\ Fixed
    BY <1>10, Zenon DEF ShutLink, ShutTcp, CopyFails, CopyState, Hold, Moved, Fixed
  <2>. QED
    BY <1>2, <1>4, <2>1
<1>. QED
  BY <1>5, <1>6, <1>7, <1>8, <1>9, <1>10 DEF LinkNext, Negotiation, Copying

\* A side that fails to authenticate never gets to a link.
LEMMA AuthFailsKeeps ==
    ASSUME LinkTypeOK, AuthInv, NEW x \in Sides, auth[x] # "ok",
           NEW e \in AuthStates \ {"establishing", "channel", "awaiting", "ok"}, AuthFails(x, e)
    PROVE  AuthInv'
<1>1. /\ auth'[x] = e /\ \A y \in Sides : y # x => auth'[y] = auth[y]
      /\ setup' = setup /\ channel' = channel /\ channelOf' = channelOf
      /\ downlink' = downlink /\ state' = state
  BY Zenon DEF LinkTypeOK, AuthFails
<1>2. e \notin {"establishing", "channel", "awaiting", "ok"} /\ x \in {"Listen", "Connect"}
  BY DEF Sides
<1>3. AuthenticationComesFirst'
  BY <1>1, <1>2 DEF AuthInv, AuthenticationComesFirst, Sides
<1>. QED
  BY <1>1, <1>2, <1>3, Zenon DEF AuthInv, AuthenticationComesFirst, Sides

\* The steps of the authentication keep what is known of it.
LEMMA AuthHandshake ==
    ASSUME LinkTypeOK, AuthInv, Authentication \/ \E x \in Sides : EstablishmentTimesOut(x)
    PROVE  AuthInv'
<1>1. /\ auth \in [Sides -> AuthStates] /\ downlink \in [Sides -> Seq({"auth", "link"})]
      /\ channel \in Seq(Seq({"HELO", "/"})) /\ "Listen" \in Sides /\ "Connect" \in Sides
      /\ \A x \in Sides : x = "Listen" \/ x = "Connect"
  BY DEF LinkTypeOK, Sides
<1>2. CASE EstablishListen
  <2>1. /\ auth["Listen"] = "establishing" /\ auth'["Listen"] = "channel"
        /\ auth'["Connect"] = auth["Connect"]
        /\ downlink'["Connect"] = Append(downlink["Connect"], "auth")
        /\ setup' = setup /\ channel' = channel /\ channelOf' = channelOf /\ state' = state
    BY <1>1, <1>2 DEF EstablishListen
  <2>2. /\ downlink'["Connect"] # <<>>
        /\ Head(downlink'["Connect"]) = IF downlink["Connect"] = <<>> THEN "auth"
                                        ELSE Head(downlink["Connect"])
    <3>. DEFINE s == downlink["Connect"]
    <3>1. s \in Seq({"auth", "link"})
      BY <1>1
    <3>. HIDE DEF s
    <3>2. Append(s, "auth") # <<>> /\ Head(Append(s, "auth")) = Append(s, "auth")[1]
      BY <3>1
    <3>3. s = <<>> => Append(s, "auth")[1] = "auth"
      OBVIOUS
    <3>4. s # <<>> => Append(s, "auth")[1] = Head(s)
      BY <3>1
    <3>. QED
      BY <2>1, <3>2, <3>3, <3>4 DEF s
  <2>3. AuthenticationComesFirst'
    BY <1>1, <2>1, Zenon DEF AuthInv, AuthenticationComesFirst
  <2>. QED
    BY <2>1, <2>2, <2>3, Zenon DEF AuthInv
<1>3. CASE EstablishConnect
  <2>1. /\ auth["Connect"] = "establishing" /\ auth'["Connect"] = "channel"
        /\ auth'["Listen"] = auth["Listen"] /\ downlink["Connect"] # <<>>
        /\ channelOf' = Head(downlink["Connect"])
        /\ setup' = setup /\ channel' = channel /\ state' = state
    BY <1>1, <1>3 DEF EstablishConnect
  <2>2. AuthenticationComesFirst'
    BY <1>1, <2>1, Zenon DEF AuthInv, AuthenticationComesFirst
  <2>. QED
    BY <2>1, <2>2, Zenon DEF AuthInv
<1>4. CASE SendHelo
  <2>1. /\ auth["Listen"] = "channel" /\ auth'["Listen"] = "awaiting"
        /\ auth'["Connect"] = auth["Connect"] /\ channel' = Append(channel, <<"HELO">>)
        /\ setup' = setup /\ channelOf' = channelOf /\ state' = state /\ downlink' = downlink
    BY <1>1, <1>4 DEF SendHelo, WriteChannel
  <2>2. Len(channel') = 1
    <3>1. channel = <<>>
      BY <2>1 DEF AuthInv
    <3>. QED
      BY <2>1, <3>1
  <2>3. AuthenticationComesFirst'
    BY <1>1, <2>1, Zenon DEF AuthInv, AuthenticationComesFirst
  <2>4. ~(Len(channel') > 1)
    BY ONLY <2>2
  <2>. QED
    BY <2>1, <2>3, <2>4, Zenon DEF AuthInv
<1>5. CASE AnswerHelo
  <2>1. /\ auth["Connect"] = "channel" /\ auth'["Connect"] = "ok"
        /\ auth'["Listen"] = auth["Listen"] /\ Len(channel) = 1
        /\ setup' = setup /\ channelOf' = channelOf /\ state' = state /\ downlink' = downlink
    BY <1>1, <1>5 DEF AnswerHelo, WriteChannel
  <2>2. auth["Listen"] \notin {"establishing", "channel"}
    <3>1. Len(<<>>) = 0
      OBVIOUS
    <3>. QED
      BY <2>1, <3>1 DEF AuthInv
  <2>3. AuthenticationComesFirst'
    BY <1>1, <2>1, Zenon DEF AuthInv, AuthenticationComesFirst
  <2>. QED
    BY <2>1, <2>2, <2>3, Zenon DEF AuthInv
<1>6. CASE ReadAck
  <2>1. auth["Listen"] = "awaiting" /\ Len(channel) = 2
    BY <1>6, Zenon DEF ReadAck
  <2>2. auth["Connect"] = "ok"
    <3>1. Len(channel) > 1
      BY ONLY <2>1
    <3>. QED
      BY <3>1 DEF AuthInv
  <2>3. CASE AuthFails("Listen", "ProtocolViolation")
    <3>1. "ProtocolViolation" \in AuthStates \ {"establishing", "channel", "awaiting", "ok"}
      BY DEF AuthStates
    <3>. QED
      BY <1>1, <2>1, <2>3, <3>1, AuthFailsKeeps, Zenon
  <2>4. CASE ~AuthFails("Listen", "ProtocolViolation")
    <3>1. /\ auth'["Listen"] = "ok" /\ auth'["Connect"] = auth["Connect"] /\ channel' = channel
          /\ setup' = setup /\ channelOf' = channelOf /\ state' = state /\ downlink' = downlink
      BY <1>1, <1>6, <2>4, Zenon DEF ReadAck
    <3>2. AuthenticationComesFirst'
      BY <1>1, <2>1, <2>2, <3>1, Zenon DEF AuthInv, AuthenticationComesFirst
    <3>. QED
      BY <2>1, <2>2, <3>1, <3>2, Zenon DEF AuthInv
  <2>. QED
    BY <2>3, <2>4
<1>7. ASSUME NEW x \in Sides, EstablishmentFails(x) \/ EstablishmentTimesOut(x) \/ ChannelFails(x)
      PROVE  AuthInv'
  <2>1. PICK e \in AuthStates \ {"establishing", "channel", "awaiting", "ok"} : AuthFails(x, e)
    BY <1>7 DEF EstablishmentFails, EstablishmentTimesOut, ChannelFails, AuthStates
  <2>2. auth[x] # "ok"
    BY <1>7 DEF EstablishmentFails, EstablishmentTimesOut, ChannelFails
  <2>. QED
    BY <2>1, <2>2, AuthFailsKeeps
<1>8. ASSUME NEW x \in Sides, AuthenticateNoOp(x)
      PROVE  AuthInv'
  <2>1. /\ setup.handler = "NoOp" /\ auth[x] = "channel" /\ auth'[x] = "ok"
        /\ \A y \in Sides : y # x => auth'[y] = auth[y]
        /\ setup' = setup /\ channel' = channel /\ channelOf' = channelOf
        /\ downlink' = downlink /\ state' = state
    BY <1>1, <1>8 DEF AuthenticateNoOp
  <2>2. AuthenticationComesFirst'
    BY <1>1, <2>1 DEF AuthInv, AuthenticationComesFirst
  <2>3. CASE x = "Listen"
    BY <1>1, <2>1, <2>2, <2>3 DEF AuthInv
  <2>4. CASE x = "Connect"
    BY <1>1, <2>1, <2>2, <2>4 DEF AuthInv
  <2>. QED
    BY <1>1, <2>3, <2>4
<1>. QED
  BY <1>2, <1>3, <1>4, <1>5, <1>6, <1>7, <1>8 DEF Authentication

\* Only a link opened or accepted by a side that has authenticated gets under
\* way.
LEMMA AuthRouting ==
    ASSUME LinkTypeOK, AuthInv, Route \/ RouteFails \/ AcceptLink
    PROVE  AuthInv'
<1>1. /\ auth \in [Sides -> AuthStates] /\ downlink \in [Sides -> Seq({"auth", "link"})]
      /\ state \in [Sides -> States] /\ Opener \in Sides /\ Acceptor \in Sides
      /\ "Listen" \in Sides /\ "Connect" \in Sides
  BY TypeFacts, Zenon DEF LinkTypeOK, Sides
<1>2. /\ setup' = setup /\ auth' = auth /\ channel' = channel /\ channelOf' = channelOf
      /\ \E x \in Sides : auth[x] = "ok" /\ \A y \in Sides : y # x => state'[y] = state[y]
  BY <1>1 DEF Route, RouteFails, AcceptLink, authVars
<1>3. AuthenticationComesFirst'
  BY <1>2, Zenon DEF AuthInv, AuthenticationComesFirst
<1>4. ASSUME auth["Connect"] = "establishing"
      PROVE  IF downlink'["Connect"] = <<>>
             THEN auth["Listen"] \notin {"channel", "awaiting", "ok"}
             ELSE Head(downlink'["Connect"]) = "auth"
  <2>1. CASE Route
    <3>1. Opener = "Listen" /\ auth["Listen"] = "ok" /\ Acceptor = "Connect"
      BY <1>1, <1>4, <2>1, TwoSides DEF Route, Sides, Acceptor
    <3>2. downlink["Connect"] # <<>> /\ Head(downlink["Connect"]) = "auth"
      BY <1>4, <3>1, Zenon DEF AuthInv
    <3>3. downlink'["Connect"] = Append(downlink["Connect"], "link")
      BY <1>1, <2>1, <3>1 DEF Route
    <3>4. downlink["Connect"] \in Seq({"auth", "link"})
      BY <1>1
    <3>5. Append(downlink["Connect"], "link") # <<>>
          /\ Head(Append(downlink["Connect"], "link")) = Head(downlink["Connect"])
      BY ONLY <3>2, <3>4
    <3>. QED
      BY <3>2, <3>3, <3>5
  <2>2. CASE RouteFails \/ AcceptLink
    <3>1. downlink'["Connect"] = downlink["Connect"]
      BY <1>1, <1>4, <2>2 DEF RouteFails, AcceptLink
    <3>. QED
      BY <1>4, <3>1 DEF AuthInv
  <2>. QED
    BY <2>1, <2>2
<1>. QED
  BY <1>2, <1>3, <1>4 DEF AuthInv

\* Every step keeps what is known of the authentication.
LEMMA AuthStep ==
    ASSUME LinkTypeOK, AuthInv, [LinkNext]_vars
    PROVE  AuthInv'
BY AuthLink, AuthHandshake, AuthRouting

\* The states in which a side may have read from its TCP connection.
Copied(x) == {"copying", "done", CopyError(x)}

\* A step that leaves the buffers of a side alone, and does not end its copying
\* well, keeps what is known of them.
LEMMA BufferKept ==
    ASSUME NEW x \in Sides, BufferInv(x), setup' = setup, UNCHANGED <<taken, copied, shut, got, given, eof>>,
           \/ state'[x] = state[x]
           \/ state[x] \notin Copied(x) /\ state'[x] # "done"
           \/ state'[x] \in Copied(x) /\ state'[x] # "done"
    PROVE  BufferInv(x)'
<1>1. CopyError(x)' = CopyError(x)
  BY DEF CopyError, Opener
<1>2. CopyError(x) # "done"
  BY DEF CopyError
<1>. QED
  BY <1>1, <1>2, Zenon DEF BufferInv, Copied

\* The steps that move no bytes.
LEMMA BufferElsewhere ==
    ASSUME LinkTypeOK, \A x \in Sides : BufferInv(x),
           \/ Authentication \/ Negotiation \/ Connect \/ LoseTunnel \/ UNCHANGED vars
           \/ \E x \in Sides : EstablishmentTimesOut(x) \/ CopyFails(x)
    PROVE  \A x \in Sides : BufferInv(x)'
<1>. DEFINE Still == setup' = setup /\ UNCHANGED <<taken, copied, shut, got, given, eof>>
            Safe(x) == \/ state'[x] = state[x]
                       \/ state[x] \notin Copied(x) /\ state'[x] # "done"
                       \/ state'[x] \in Copied(x) /\ state'[x] # "done"
            Moved(x) == \E e : /\ state' = [state EXCEPT ![x] = e] /\ e # "done"
                               /\ state[x] \notin Copied(x) \/ e \in Copied(x)
<1>. SUFFICES Still /\ \A x \in Sides : Safe(x)
  BY BufferKept, Zenon
<1>1. state \in [Sides -> States] /\ Opener \in Sides /\ Acceptor \in Sides
  BY TypeFacts
<1>2. ASSUME NEW x \in Sides, Moved(x)
      PROVE  \A z \in Sides : Safe(z)
  <2>1. PICK e : /\ state' = [state EXCEPT ![x] = e] /\ e # "done"
                 /\ state[x] \notin Copied(x) \/ e \in Copied(x)
    BY <1>2, Zenon
  <2>2. ASSUME NEW z \in Sides PROVE Safe(z)
    BY <1>1, <2>1, Zenon
  <2>. QED
    BY <2>2
<1>3. ASSUME state' = state
      PROVE  \A z \in Sides : Safe(z)
  BY <1>3
<1>4. \A x \in Sides : Copied(x) \subseteq {"copying", "done", "IllegalResponse", "InternalError"}
  BY Zenon DEF Copied, CopyError
<1>. HIDE DEF Still, Safe
<1>5. CASE \/ Authentication \/ CloseOnVersion \/ LoseTunnel \/ UNCHANGED vars
           \/ \E x \in Sides : EstablishmentTimesOut(x)
  <2>1. state' = state /\ Still
    <3>1. CASE Authentication
      BY <3>1, Zenon DEF Authentication, EstablishListen, EstablishConnect, SendHelo, AnswerHelo, ReadAck,
                  EstablishmentFails, AuthenticateNoOp, ChannelFails, WriteChannel, AuthFails,
                  copyVars, Still
    <3>2. CASE CloseOnVersion \/ LoseTunnel \/ UNCHANGED vars
      BY <3>2 DEF CloseOnVersion, LoseTunnel, vars, copyVars, Still
    <3>3. CASE \E x \in Sides : EstablishmentTimesOut(x)
      BY <3>3, Zenon DEF EstablishmentTimesOut, AuthFails, copyVars, Still
    <3>. QED
      BY <1>5, <3>1, <3>2, <3>3
  <2>. QED
    BY <1>3, <2>1
<1>6. ASSUME NEW x \in Sides,
             SendMagic(x) \/ ReadMagic(x) \/ MagicFails(x) \/ ReadVersion(x) \/ VersionFails(x)
      PROVE  Still /\ Moved(x)
  <2>1. Still /\ state[x] \in {"start", "magic sent", "magic read", "joined"}
    BY <1>6, Zenon DEF SendMagic, ReadMagic, MagicFails, ReadVersion, VersionFails, Quiet, copyVars, Still
  <2>2. \E e : state' = [state EXCEPT ![x] = e] /\ e # "done"
    BY <1>6, Zenon DEF SendMagic, ReadMagic, MagicFails, ReadVersion, VersionFails, Fails
  <2>. QED
    BY <1>4, <2>1, <2>2, Zenon
<1>7. CASE Route \/ RouteFails \/ WriteAddress \/ WriteAddressFails \/ ReadVerdict \/ VerdictFails
  <2>1. Still /\ state[Opener] \in {"idle", "versioned", "asked"}
    BY <1>7, Zenon DEF Route, RouteFails, WriteAddress, WriteAddressFails, ReadVerdict, VerdictFails,
                       Quiet, copyVars, Still
  <2>2. \E e : state' = [state EXCEPT ![Opener] = e] /\ e # "done"
    BY <1>7, Zenon DEF Route, RouteFails, WriteAddress, WriteAddressFails, ReadVerdict, VerdictFails,
                       Fails, RoutingErrors
  <2>. QED
    BY <1>1, <1>2, <1>4, <2>1, <2>2, Zenon
<1>8. CASE AcceptLink \/ ReadAddress \/ AddressFails \/ WriteVerdict \/ WriteVerdictFails \/ Connect
  <2>1. Still /\ state[Acceptor] \in {"idle", "versioned", "found", "accepted"}
    BY <1>8, Zenon DEF AcceptLink, ReadAddress, AddressFails, WriteVerdict, WriteVerdictFails, Connect,
                       Quiet, Hold, copyVars, Still
  <2>2. \E e : state' = [state EXCEPT ![Acceptor] = e] /\ e # "done"
    <3>1. CASE AcceptLink \/ ReadAddress \/ AddressFails
      BY <3>1, Zenon DEF AcceptLink, ReadAddress, AddressFails, Fails
    <3>2. CASE WriteVerdict \/ WriteVerdictFails
      BY <3>2, Zenon DEF WriteVerdict, WriteVerdictFails, Fails
    <3>3. CASE Connect
      BY <3>3, Zenon DEF Connect
    <3>. QED
      BY <1>8, <3>1, <3>2, <3>3, Zenon
  <2>. QED
    BY <1>1, <1>2, <1>4, <2>1, <2>2, Zenon
<1>9. ASSUME NEW x \in Sides, CopyFails(x)
      PROVE  Still /\ Moved(x)
  <2>1. Still /\ state' = [state EXCEPT ![x] = CopyError(x)]
    BY <1>9, Zenon DEF CopyFails, Hold, copyVars, Still
  <2>2. CopyError(x) # "done" /\ CopyError(x) \in Copied(x)
    BY Zenon DEF CopyError, Copied
  <2>. QED
    BY <2>1, <2>2, Zenon
<1>. HIDE DEF Moved
<1>. QED
  BY <1>2, <1>5, <1>6, <1>7, <1>8, <1>9, Zenon DEF Negotiation

\* The steps that move bytes, of the side that takes them.
LEMMA BufferMoves ==
    ASSUME LinkTypeOK, NEW x \in Sides, BufferInv(x),
           \/ ReadTcp(x) \/ WriteLink(x) \/ ShutLink(x)
           \/ ReadLink(x) \/ WriteTcp(x) \/ ShutTcp(x)
    PROVE  BufferInv(x)'
<1>1. /\ taken[x] \in Nat /\ copied[x] \in Nat /\ given[x] \in Nat /\ Len(got[x]) \in Nat
      /\ got[x] \in Seq(Items) /\ state[x] = "copying"
  <2>1. got[x] \in Seq(Items) /\ state[x] = "copying"
    BY ItemTypes, Zenon DEF ReadTcp, WriteLink, ShutLink, ReadLink, WriteTcp, ShutTcp
  <2>2. Len(got[x]) \in Nat
    BY <2>1, ItemSeq, Zenon
  <2>. QED
    BY <2>1, <2>2, Zenon DEF LinkTypeOK
<1>2. /\ copied[x] <= taken[x] /\ given[x] <= Len(got[x])
      /\ shut[x] => copied[x] = taken[x]
      /\ eof[x] => given[x] = Len(got[x])
  BY DEF BufferInv
<1>3. "copying" # "done" /\ CopyError(x)' = CopyError(x)
  BY Zenon DEF CopyError, Opener, ReadTcp, WriteLink, ShutLink, ReadLink, WriteTcp, ShutTcp, Hold
<1>4. /\ copied[x] <= taken[x] + 1
      /\ copied[x] < taken[x] => copied[x] + 1 <= taken[x]
      /\ given[x] <= Len(got[x]) + 1
      /\ given[x] < Len(got[x]) => given[x] + 1 <= Len(got[x]) /\ given[x] # Len(got[x])
  <2>1. \A m, n \in Nat : m <= n => m <= n + 1
    OBVIOUS
  <2>2. \A m, n \in Nat : m < n => m + 1 <= n /\ m # n
    OBVIOUS
  <2>. QED
    BY ONLY <1>1, <1>2, <2>1, <2>2, Zenon
<1>5. CASE ReadTcp(x)
  <2>1. taken'[x] = taken[x] + 1 /\ ~shut[x]
    BY <1>5, Zenon DEF ReadTcp, LinkTypeOK
  <2>2. copied' = copied /\ shut' = shut /\ got' = got /\ given' = given /\ eof' = eof /\ state' = state
    BY <1>5, Zenon DEF ReadTcp
  <2>3. copied'[x] <= taken'[x]
    <3>1. taken'[x] = taken[x] + 1 /\ copied'[x] = copied[x]
      BY ONLY <2>1, <2>2, Zenon
    <3>. QED
      BY ONLY <1>4, <3>1, Zenon
  <2>. QED
    BY ONLY <1>1, <1>2, <1>3, <2>1, <2>2, <2>3, Zenon DEF BufferInv
<1>6. CASE WriteLink(x)
  <2>1. copied'[x] = copied[x] + 1 /\ ~shut[x] /\ copied[x] < taken[x]
    BY <1>6, Zenon DEF WriteLink, LinkTypeOK
  <2>2. taken' = taken /\ shut' = shut /\ got' = got /\ given' = given /\ eof' = eof /\ state' = state
    BY <1>6, Zenon DEF WriteLink
  <2>3. copied'[x] <= taken'[x]
    <3>1. taken'[x] = taken[x] /\ copied'[x] = copied[x] + 1 /\ copied[x] < taken[x]
      BY ONLY <2>1, <2>2, Zenon
    <3>. QED
      BY ONLY <1>4, <3>1, Zenon
  <2>. QED
    BY ONLY <1>1, <1>2, <1>3, <2>1, <2>2, <2>3, Zenon DEF BufferInv
<1>7. CASE ShutLink(x)
  <2>1. shut'[x] = TRUE /\ copied[x] = taken[x]
    BY <1>7, Zenon DEF ShutLink, LinkTypeOK
  <2>2. copied' = copied /\ taken' = taken /\ got' = got /\ given' = given /\ eof' = eof
    BY <1>7, Zenon DEF ShutLink
  <2>3. state'[x] = "copying" \/ (state'[x] = "done" /\ eof[x])
    BY <1>1, <1>7, Zenon DEF ShutLink, CopyState, LinkTypeOK
  <2>. QED
    BY ONLY <1>1, <1>2, <1>3, <2>1, <2>2, <2>3, Zenon DEF BufferInv
<1>8. CASE ReadLink(x)
  <2>1. got'[x] = Append(got[x], Head(wire[Peer(x)])) /\ ~eof[x]
    BY <1>8, Zenon DEF ReadLink, LinkTypeOK
  <2>2. copied' = copied /\ taken' = taken /\ shut' = shut /\ given' = given /\ eof' = eof /\ state' = state
    BY <1>8, Zenon DEF ReadLink
  <2>3. Len(got'[x]) = Len(got[x]) + 1
    BY <1>1, <2>1
  <2>4. given'[x] <= Len(got'[x])
    BY ONLY <1>4, <2>2, <2>3
  <2>. QED
    BY ONLY <1>1, <1>2, <1>3, <2>1, <2>2, <2>4, Zenon DEF BufferInv
<1>9. CASE WriteTcp(x)
  <2>1. given'[x] = given[x] + 1 /\ given[x] < Len(got[x])
    BY <1>9, Zenon DEF WriteTcp, LinkTypeOK
  <2>2. copied' = copied /\ taken' = taken /\ shut' = shut /\ got' = got /\ eof' = eof /\ state' = state
    BY <1>9, Zenon DEF WriteTcp
  <2>3. given'[x] <= Len(got'[x])
    BY ONLY <1>4, <2>1, <2>2
  <2>4. ~eof[x]
    BY ONLY <1>2, <1>4, <2>1
  <2>. QED
    BY ONLY <1>1, <1>2, <1>3, <2>2, <2>3, <2>4, Zenon DEF BufferInv
<1>10. CASE ShutTcp(x)
  <2>1. eof'[x] = TRUE /\ given[x] = Len(got[x])
    BY <1>10, Zenon DEF ShutTcp, LinkTypeOK
  <2>2. copied' = copied /\ taken' = taken /\ got' = got /\ given' = given /\ shut' = shut
    BY <1>10, Zenon DEF ShutTcp
  <2>3. state'[x] = "copying" \/ (state'[x] = "done" /\ shut[x])
    BY <1>1, <1>10, Zenon DEF ShutTcp, CopyState, LinkTypeOK
  <2>. QED
    BY ONLY <1>1, <1>2, <1>3, <2>1, <2>2, <2>3, Zenon DEF BufferInv
<1>. QED
  BY <1>5, <1>6, <1>7, <1>8, <1>9, <1>10

\* They leave the buffers of the other side alone.
LEMMA BufferOther ==
    ASSUME LinkTypeOK, NEW x \in Sides, NEW z \in Sides, z # x, BufferInv(z),
           \/ ReadTcp(x) \/ WriteLink(x) \/ ShutLink(x)
           \/ ReadLink(x) \/ WriteTcp(x) \/ ShutTcp(x)
    PROVE  BufferInv(z)'
<1>1. /\ taken'[z] = taken[z] /\ copied'[z] = copied[z] /\ shut'[z] = shut[z]
      /\ got'[z] = got[z] /\ given'[z] = given[z] /\ eof'[z] = eof[z]
  BY Zenon DEF LinkTypeOK, ReadTcp, WriteLink, ShutLink, ReadLink, WriteTcp, ShutTcp
<1>2. state'[z] = state[z]
  BY Zenon DEF LinkTypeOK, ReadTcp, WriteLink, ShutLink, ReadLink, WriteTcp, ShutTcp, CopyState
<1>3. CopyError(z)' = CopyError(z)
  BY Zenon DEF CopyError, Opener, ReadTcp, WriteLink, ShutLink, ReadLink, WriteTcp, ShutTcp, Hold
<1>. QED
  BY ONLY <1>1, <1>2, <1>3, BufferInv(z), Zenon DEF BufferInv

\* Every step keeps what is known of the buffers.
LEMMA BufferStep ==
    ASSUME LinkTypeOK, \A x \in Sides : BufferInv(x), [LinkNext]_vars
    PROVE  \A x \in Sides : BufferInv(x)'
<1>1. ASSUME NEW x \in Sides,
             \/ ReadTcp(x) \/ WriteLink(x) \/ ShutLink(x)
             \/ ReadLink(x) \/ WriteTcp(x) \/ ShutTcp(x)
      PROVE  \A z \in Sides : BufferInv(z)'
  BY <1>1, BufferMoves, BufferOther, Zenon
<1>. QED
  BY <1>1, BufferElsewhere, Zenon DEF LinkNext, Copying

\* The invariant holds before the first step.
LEMMA LinkInitInv ==
    ASSUME LinkInit
    PROVE  LinkInv
<1>1. LinkTypeOK
  <2>1. <<>> \in Seq(Seq({"HELO", "/"})) /\ <<>> \in Seq({"auth", "link"}) /\ <<>> \in Seq(Items)
    OBVIOUS
  <2>. QED
    BY <2>1, Zenon DEF LinkInit, LinkTypeOK, AuthStates, Negotiating
<1>2. Opener \in Sides /\ Acceptor \in Sides /\ \A x \in Sides : Peer(x) \in Sides
  BY <1>1, TypeFacts
<1>3. /\ \A x \in Sides : /\ state[x] = "idle" /\ ~gone[x] /\ copied[x] = 0 /\ ~shut[x]
                          /\ taken[x] = 0 /\ given[x] = 0
                          /\ got[x] = <<>> /\ ~eof[x] /\ wire[x] = <<>> /\ downlink[x] = <<>>
      /\ found = None /\ connected = None /\ channel = <<>> /\ channelOf = "none"
      /\ auth["Listen"] = "ok" <=> auth["Connect"] = "ok"
      /\ \A x \in Sides : auth[x] \in {"ok", "establishing"}
  <2>1. "Listen" \in Sides /\ "Connect" \in Sides
    BY DEF Sides
  <2>2. /\ auth["Listen"] = "ok" <=> auth["Connect"] = "ok"
        /\ \A x \in Sides : auth[x] \in {"ok", "establishing"}
    BY <2>1, Zenon DEF LinkInit
  <2>. QED
    BY <2>2, Zenon DEF LinkInit
<1>4. AuthInv
  <2>1. ~(Len(channel) > 1)
    BY <1>3
  <2>2. "Listen" \in Sides /\ "Connect" \in Sides
    BY DEF Sides
  <2>. QED
    BY <1>3, <2>1, <2>2, Zenon DEF AuthInv, AuthenticationComesFirst
<1>5. FoundInv /\ SidesAgree /\ ConnectsWithinTarget
  BY <1>2, <1>3, Zenon DEF FoundInv, SidesAgree, ConnectsWithinTarget
<1>6. ASSUME NEW x \in Sides
      PROVE  CopyInv(x) /\ WireInv(x) /\ BufferInv(x)
  <2>1. Peer(x) \in Sides /\ Len(got[x]) = 0 /\ DOMAIN got[x] = {} /\ Len(wire[x]) = 0
    <3>1. Len(<<>>) = 0 /\ DOMAIN <<>> = {}
      OBVIOUS
    <3>. QED
      BY <1>2, <1>3, <3>1, Zenon
  <2>2. CopyInv(x)
    <3>1. Len(got[x]) <= copied[Peer(x)]
      <4>1. copied[Peer(x)] = 0
        BY <1>3, <2>1, Zenon
      <4>. QED
        BY ONLY <2>1, <4>1
    <3>. QED
      BY <1>3, <2>1, <3>1, Zenon DEF CopyInv
  <2>3. ReadBy(Peer(x)) = 0
    BY <1>3, <2>1, Zenon DEF ReadBy
  <2>4. Written(x) = 0
    BY <2>1, <2>3 DEF Written
  <2>5. ~(Written(x) >= 3)
    BY ONLY <2>4
  <2>6. \A i \in 1 .. Len(wire[x]) : FALSE
    BY ONLY <2>1
  <2>7. WireInv(x)
    BY <1>3, <2>4, <2>5, <2>6, Zenon DEF WireInv
  <2>8. BufferInv(x)
    <3>1. copied[x] <= taken[x] /\ given[x] <= Len(got[x])
      <4>1. copied[x] = 0 /\ taken[x] = 0 /\ given[x] = 0
        BY <1>3, Zenon
      <4>. QED
        BY ONLY <2>1, <4>1
    <3>. QED
      BY <1>3, <3>1, Zenon DEF BufferInv
  <2>. QED
    BY <2>2, <2>7, <2>8
<1>. QED
  BY <1>1, <1>4, <1>5, <1>6 DEF LinkInv

\* The invariant is inductive.
LEMMA LinkStepInv ==
    ASSUME RouteFacts, LinkInv, [LinkNext]_vars
    PROVE  LinkInv'
<1>1. LinkTypeOK /\ AuthInv /\ \A x \in Sides : BufferInv(x)
  BY DEF LinkInv
<1>2. LinkTypeOK' /\ AuthInv' /\ \A x \in Sides : BufferInv(x)'
  BY ONLY RouteFacts, <1>1, TypeStep, AuthStep, BufferStep, [LinkNext]_vars, Zenon
<1>3. Kept
  BY ONLY RouteFacts, StepKeeps, LinkInv, [LinkNext]_vars
<1>. QED
  BY <1>2, <1>3 DEF LinkInv, Kept
=============================================================================
