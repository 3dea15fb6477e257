------------------------- MODULE RouteAddressProofs ------------------------
(***************************************************************************)
(* Route addresses survive the link: what rendered writes, from_str reads  *)
(* back, for every address, and what from_str accepts is the rendered form *)
(* of what it returns. The definitions recurse over texts, so the proofs   *)
(* begin with induction over sets of numbers and of sequences, and with    *)
(* the existence of the functions that the definitions describe.           *)
(***************************************************************************)
EXTENDS RouteAddress, SequenceTheorems, WellFoundedInduction, TLAPS

\* A set of naturals that is not empty has a least element.
LEMMA Least ==
    ASSUME NEW T \in SUBSET Nat, T # {}
    PROVE  \E x \in T : \A y \in T : x <= y
<1>. DEFINE R == OpToRel(<, Nat)
<1>1. IsWellFoundedOn(R, Nat)
  BY NatLessThanWellFounded, Zenon
<1>2. \A x, y \in Nat : x < y => <<x, y>> \in R
  BY DEF OpToRel
<1>. HIDE DEF R
<1>3. PICK x \in T : \A y \in T : ~ (<<y, x>> \in R)
  BY <1>1, WFMin, Zenon
<1>4. ASSUME NEW y \in T
      PROVE  x <= y
  <2>1. ~(y < x)
    BY <1>3, <1>2, Zenon
  <2>. QED
    BY <2>1
<1>. QED
  BY <1>4

\* Induction, stated with a set in the place of a predicate.
LEMMA SetInduction ==
    ASSUME NEW S, 0 \in S, \A n \in Nat : n \in S => n + 1 \in S
    PROVE  Nat \subseteq S
<1>. SUFFICES ASSUME Nat \ S # {}
              PROVE  FALSE
  OBVIOUS
<1>1. PICK x \in Nat \ S : \A y \in Nat \ S : x <= y
  BY Least, Zenon
<1>2. x - 1 \in Nat /\ x - 1 \in S
  BY <1>1
<1>. QED
  BY <1>1, <1>2

\* Induction over sequences that grow at their end, as the texts and the
\* segments that rendered and from_str build do.
LEMMA SeqInduction ==
    ASSUME NEW C, NEW S, <<>> \in S,
           \A s \in Seq(C), c \in C : s \in S => Append(s, c) \in S
    PROVE  Seq(C) \subseteq S
<1>. DEFINE N == {n \in Nat : \A s \in Seq(C) : Len(s) = n => s \in S}
<1>1. 0 \in N
  BY EmptySeq
<1>2. ASSUME NEW n \in Nat, n \in N
      PROVE  n + 1 \in N
  <2>. SUFFICES ASSUME NEW s \in Seq(C), Len(s) = n + 1
                PROVE  s \in S
    OBVIOUS
  <2>1. s # <<>>
    OBVIOUS
  <2>2. PICK u \in Seq(C), c \in C : s = Append(u, c)
    BY <2>1, SequenceEmptyOrAppend
  <2>3. Len(u) = n
    BY <2>2
  <2>. QED
    BY <1>2, <2>2, <2>3
<1>. HIDE DEF N
<1>3. Nat \subseteq N
  BY <1>1, <1>2, SetInduction
<1>. QED
  BY <1>3 DEF N

\* f is the iteration that starts with a and applies G[i] in step i.
Iterates(f, X, a, G, n) ==
    /\ f \in [1 .. n -> X]
    /\ f[1] = a
    /\ \A i \in 2 .. n : f[i] = G[i][f[i - 1]]

\* There is such a function for every start and every family of steps: what the
\* recursive functions of RouteAddress need in order to be what their
\* definitions say.
LEMMA Iteration ==
    ASSUME NEW X, NEW a \in X, NEW G \in [Nat -> [X -> X]], NEW n \in Nat \ {0}
    PROVE  \E f : Iterates(f, X, a, G, n)
<1>. DEFINE Upto(m) == \E f \in [1 .. m -> X] : f[1] = a /\ \A i \in 2 .. m : f[i] = G[i][f[i - 1]]
            S == {m \in Nat : m # 0 => Upto(m)}
<1>1. 0 \in S
  OBVIOUS
<1>2. ASSUME NEW m \in Nat, m \in S
      PROVE  m + 1 \in S
  <2>1. CASE m = 0
    <3>1. [i \in 1 .. 1 |-> a] \in [1 .. 1 -> X] /\ [i \in 1 .. 1 |-> a][1] = a
      OBVIOUS
    <3>2. \A i \in 2 .. 1 : FALSE
      OBVIOUS
    <3>3. Upto(1)
      BY <3>1, <3>2, Zenon
    <3>. HIDE DEF Upto
    <3>. QED
      BY <2>1, <3>3
  <2>2. CASE m # 0
    <3>1. PICK f \in [1 .. m -> X] : f[1] = a /\ \A i \in 2 .. m : f[i] = G[i][f[i - 1]]
      BY <1>2, <2>2
    <3>. DEFINE g == [i \in 1 .. m + 1 |-> IF i <= m THEN f[i] ELSE G[m + 1][f[m]]]
    <3>2. G[m + 1][f[m]] \in X
      BY <2>2
    <3>3. g \in [1 .. m + 1 -> X]
      BY <3>2
    <3>4. g[1] = a
      BY <2>2, <3>1
    <3>5. ASSUME NEW i \in 2 .. m + 1
          PROVE  g[i] = G[i][g[i - 1]]
      <4>1. i - 1 \in 1 .. m /\ g[i - 1] = f[i - 1]
        BY <2>2
      <4>2. CASE i \in 2 .. m
        <5>1. g[i] = f[i]
          BY <4>2
        <5>. QED
          BY <3>1, <4>1, <4>2, <5>1
      <4>3. CASE i = m + 1
        <5>1. g[i] = G[m + 1][f[m]]
          BY <4>3
        <5>. QED
          BY <4>1, <4>3, <5>1
      <4>. QED
        BY <4>2, <4>3
    <3>6. Upto(m + 1)
      <4>. HIDE DEF g
      <4>. QED
        BY <3>3, <3>4, <3>5, Zenon
    <3>. HIDE DEF Upto
    <3>. QED
      BY <3>6
  <2>. QED
    BY <2>1, <2>2
<1>. HIDE DEF S
<1>3. Nat \subseteq S
  BY <1>1, <1>2, SetInduction
<1>4. Upto(n)
  <2>. HIDE DEF Upto
  <2>. QED
    BY <1>3 DEF S
<1>. QED
  BY <1>4 DEF Iterates

\* f and g start alike, and go on alike wherever they agree.
SameSteps(f, g, n) ==
    f[1] = g[1] /\ \A i \in 1 .. n - 1 : f[i] = g[i] => f[i + 1] = g[i + 1]

\* Two such functions are equal.
LEMMA Determined ==
    ASSUME NEW n \in Nat, NEW f, NEW g, SameSteps(f, g, n)
    PROVE  \A i \in 1 .. n : f[i] = g[i]
<1>. DEFINE S == {i \in Nat : i \in 1 .. n => f[i] = g[i]}
<1>1. 0 \in S
  OBVIOUS
<1>2. ASSUME NEW i \in Nat, i \in S
      PROVE  i + 1 \in S
  <2>. SUFFICES ASSUME i + 1 \in 1 .. n
                PROVE  f[i + 1] = g[i + 1]
    OBVIOUS
  <2>1. CASE i = 0
    BY <2>1 DEF SameSteps
  <2>2. CASE i # 0
    <3>1. i \in 1 .. n - 1 /\ f[i] = g[i]
      BY <1>2, <2>2
    <3>. QED
      BY <3>1 DEF SameSteps
  <2>. QED
    BY <2>1, <2>2
<1>. HIDE DEF S
<1>3. Nat \subseteq S
  BY <1>1, <1>2, SetInduction
<1>. QED
  BY <1>3 DEF S

\* f holds what Joined has put together after each text.
Joins(f, C, seqs) ==
    /\ f \in [1 .. Len(seqs) -> Seq(C)]
    /\ f[1] = seqs[1]
    /\ \A i \in 2 .. Len(seqs) : f[i] = f[i - 1] \o seqs[i]
    /\ Joined(seqs) = f[Len(seqs)]

\* The function that Joined picks exists and has the recursive form.
LEMMA JoinedIs ==
    ASSUME NEW C, NEW seqs \in Seq(Seq(C)), seqs # <<>>
    PROVE  \E f : Joins(f, C, seqs)
<1>. DEFINE n == Len(seqs)
            X == Seq(C)
            G == [i \in Nat |-> [s \in X |-> IF i \in 1 .. n THEN s \o seqs[i] ELSE s]]
            Def(f) == f = [i \in 1 .. n |-> IF i = 1 THEN seqs[1] ELSE f[i - 1] \o seqs[i]]
            joined == CHOOSE f : Def(f)
<1>1. n \in Nat \ {0} /\ \A i \in 1 .. n : seqs[i] \in X
  OBVIOUS
<1>2. G \in [Nat -> [X -> X]]
  BY <1>1
<1>3. ASSUME NEW i \in 2 .. n, NEW s \in X
      PROVE  G[i][s] = s \o seqs[i]
  <2>1. i \in Nat /\ i \in 1 .. n
    OBVIOUS
  <2>2. G[i] = [u \in X |-> IF i \in 1 .. n THEN u \o seqs[i] ELSE u]
    BY <2>1
  <2>. HIDE DEF G, X
  <2>. QED
    BY <2>1, <2>2
<1>4. Joined(seqs) = joined[n]
  BY <1>1 DEF Joined
<1>. HIDE DEF n, X, G
<1>5. seqs[1] \in X
  BY <1>1
<1>6. PICK f : Iterates(f, X, seqs[1], G, n)
  BY ONLY <1>1, <1>2, <1>5, Iteration, Zenon
<1>7. ASSUME NEW i \in 2 .. n
      PROVE  f[i] = f[i - 1] \o seqs[i]
  <2>1. i - 1 \in 1 .. n
    BY <1>1
  <2>2. f[i - 1] \in X /\ f[i] = G[i][f[i - 1]]
    BY <1>6, <2>1, Zenon DEF Iterates
  <2>. QED
    BY <1>3, <2>2, Zenon
<1>8. Def(f)
  <2>1. ASSUME NEW i \in 1 .. n
        PROVE  f[i] = IF i = 1 THEN seqs[i] ELSE f[i - 1] \o seqs[i]
    <3>1. CASE i = 1
      BY <1>6, <3>1 DEF Iterates
    <3>2. CASE i # 1
      <4>1. i \in 2 .. n
        BY <1>1, <3>2
      <4>. QED
        BY <1>7, <3>2, <4>1, Zenon
    <3>. QED
      BY <3>1, <3>2
  <2>. QED
    BY <1>6, <2>1, Zenon DEF Iterates
<1>9. Def(joined)
  <2>. HIDE DEF Def
  <2>. QED
    BY <1>8
<1>. HIDE DEF joined
<1>10. joined \in [1 .. n -> X] /\ \A i \in 1 .. n : joined[i] = f[i]
  <2>1. DOMAIN joined = 1 .. n /\ joined = [i \in 1 .. n |-> joined[i]]
    BY <1>9
  <2>2. joined[1] = f[1]
    BY <1>1, <1>6, <1>9 DEF Iterates
  <2>3. ASSUME NEW i \in 1 .. n - 1, joined[i] = f[i]
        PROVE  joined[i + 1] = f[i + 1]
    <3>1. i + 1 \in 2 .. n /\ i + 1 \in 1 .. n /\ i + 1 # 1 /\ (i + 1) - 1 = i
      BY <1>1
    <3>2. joined[i + 1] = joined[i] \o seqs[i + 1]
      BY <1>9, <3>1, Zenon
    <3>3. f[i + 1] = f[i] \o seqs[i + 1]
      BY <1>7, <3>1, Zenon
    <3>. QED
      BY <2>3, <3>2, <3>3
  <2>4. \A i \in 1 .. n : joined[i] = f[i]
    <3>1. SameSteps(joined, f, n)
      BY <2>2, <2>3 DEF SameSteps
    <3>2. n \in Nat
      BY <1>1
    <3>. QED
      BY ONLY <3>1, <3>2, Determined
  <2>. QED
    BY <1>6, <2>1, <2>4 DEF Iterates
<1>11. n \in 1 .. n
  BY <1>1
<1>12. Joined(seqs) = f[n]
  BY <1>4, <1>10, <1>11
<1>. QED
  BY <1>6, <1>7, <1>12, Zenon DEF n, X, Iterates, Joins

\* No texts make the empty text.
LEMMA JoinedEmpty == Joined(<<>>) = <<>>
BY DEF Joined

\* One text more is put at the end: the next push of rendered.
LEMMA JoinedAppend ==
    ASSUME NEW C, NEW seqs \in Seq(Seq(C)), NEW s \in Seq(C)
    PROVE  /\ Joined(seqs) \in Seq(C)
           /\ Joined(Append(seqs, s)) = Joined(seqs) \o s
<1>. DEFINE n == Len(seqs)
            longer == Append(seqs, s)
<1>1. /\ longer \in Seq(Seq(C)) /\ longer # <<>> /\ Len(longer) = n + 1 /\ longer[n + 1] = s
      /\ \A i \in 1 .. n : longer[i] = seqs[i]
  BY AppendProperties
<1>2. n \in Nat
  OBVIOUS
<1>3. PICK f : Joins(f, C, longer)
  BY <1>1, JoinedIs, Zenon
<1>6. /\ f \in [1 .. n + 1 -> Seq(C)] /\ f[1] = longer[1]
      /\ \A i \in 2 .. n + 1 : f[i] = f[i - 1] \o longer[i]
      /\ Joined(longer) = f[n + 1]
  BY <1>1, <1>3, Zenon DEF Joins
<1>4. CASE seqs = <<>>
  <2>1. n = 0 /\ longer[1] = s
    BY <1>1, <1>4
  <2>2. Joined(longer) = s
    BY <1>6, <2>1
  <2>3. Joined(seqs) = <<>>
    BY <1>4, JoinedEmpty
  <2>. QED
    BY <2>2, <2>3, EmptySeq, ConcatEmptySeq
<1>5. CASE seqs # <<>>
  <2>7. PICK g : Joins(g, C, seqs)
    BY <1>5, JoinedIs
  <2>1. /\ g \in [1 .. n -> Seq(C)] /\ g[1] = seqs[1]
        /\ \A i \in 2 .. n : g[i] = g[i - 1] \o seqs[i]
        /\ Joined(seqs) = g[n]
    BY <2>7, Zenon DEF Joins
  <2>2. n \in 1 .. n /\ 1 \in 1 .. n
    BY <1>5
  <2>. HIDE DEF n, longer
  <2>3. SameSteps(f, g, n)
    <3>1. f[1] = g[1]
      BY <1>1, <1>6, <2>1, <2>2
    <3>2. ASSUME NEW i \in 1 .. n - 1, f[i] = g[i]
          PROVE  f[i + 1] = g[i + 1]
      <4>1. i + 1 \in 2 .. n /\ i + 1 \in 2 .. n + 1 /\ i + 1 \in 1 .. n /\ (i + 1) - 1 = i
        BY <1>2
      <4>2. f[i + 1] = f[i] \o longer[i + 1]
        BY <1>6, <4>1, Zenon
      <4>3. g[i + 1] = g[i] \o seqs[i + 1]
        BY <2>1, <4>1, Zenon
      <4>. QED
        BY <1>1, <3>2, <4>1, <4>2, <4>3, Zenon
    <3>. QED
      BY <3>1, <3>2 DEF SameSteps
  <2>4. f[n] = g[n]
    BY <1>2, <2>2, <2>3, Determined
  <2>5. n + 1 \in 2 .. n + 1 /\ (n + 1) - 1 = n
    BY <1>2, <2>2
  <2>6. f[n + 1] = f[n] \o s
    BY <1>1, <1>6, <2>5, Zenon
  <2>. QED
    BY <1>6, <2>1, <2>2, <2>4, <2>6 DEF longer
<1>. QED
  BY <1>4, <1>5

\* e tells the second characters of the escapes of a text.
Escapes(e, text) ==
    /\ e \in [1 .. Len(text) -> BOOLEAN]
    /\ e[1] = FALSE
    /\ \A i \in 2 .. Len(text) : e[i] = (text[i - 1] = "\\" /\ ~e[i - 1])

\* EscapedAt is the function its recursive definition describes.
LEMMA EscapedIs ==
    ASSUME NEW C, NEW text \in Seq(C), text # <<>>
    PROVE  Escapes(EscapedAt(text), text)
<1>. DEFINE n == Len(text)
            X == BOOLEAN
            G == [i \in Nat |-> [b \in X |-> text[i - 1] = "\\" /\ ~b]]
            Def(f) == f = [i \in DOMAIN text |-> i > 1 /\ text[i - 1] = "\\" /\ ~f[i - 1]]
            escaped == CHOOSE f : Def(f)
<1>1. n \in Nat \ {0} /\ DOMAIN text = 1 .. n
  OBVIOUS
<1>2. G \in [Nat -> [X -> X]] /\ FALSE \in X
  OBVIOUS
<1>3. ASSUME NEW i \in 2 .. n, NEW b \in X
      PROVE  G[i][b] = (text[i - 1] = "\\" /\ ~b)
  OBVIOUS
<1>4. EscapedAt(text) = escaped
  BY DEF EscapedAt
<1>. HIDE DEF n, X, G
<1>5. PICK f : Iterates(f, X, FALSE, G, n)
  BY ONLY <1>1, <1>2, Iteration, Zenon
<1>6. ASSUME NEW i \in 2 .. n
      PROVE  f[i] = (text[i - 1] = "\\" /\ ~f[i - 1])
  <2>1. i - 1 \in 1 .. n
    BY <1>1
  <2>2. f[i - 1] \in X /\ f[i] = G[i][f[i - 1]]
    BY <1>5, <2>1 DEF Iterates
  <2>. QED
    BY <1>3, <2>2
<1>7. Def(f)
  <2>1. ASSUME NEW i \in 1 .. n
        PROVE  f[i] = (i > 1 /\ text[i - 1] = "\\" /\ ~f[i - 1])
    <3>1. CASE i = 1
      <4>1. ~(i > 1)
        BY <3>1
      <4>2. f[i] = FALSE
        BY <1>5, <3>1 DEF Iterates
      <4>. QED
        BY <4>1, <4>2, Zenon
    <3>2. CASE i # 1
      <4>1. i \in 2 .. n /\ i > 1
        BY <1>1, <3>2
      <4>. QED
        BY <1>6, <4>1
    <3>. QED
      BY <3>1, <3>2
  <2>2. f = [i \in 1 .. n |-> f[i]]
    BY <1>5 DEF Iterates
  <2>. QED
    BY <1>1, <2>1, <2>2
<1>8. Def(escaped)
  <2>. HIDE DEF Def
  <2>. QED
    BY <1>7
<1>. HIDE DEF escaped
<1>9. /\ escaped \in [1 .. n -> BOOLEAN] /\ escaped[1] = FALSE
      /\ \A i \in 2 .. n : escaped[i] = (text[i - 1] = "\\" /\ ~escaped[i - 1])
  <2>1. \A i \in 1 .. n : escaped[i] = (i > 1 /\ text[i - 1] = "\\" /\ ~escaped[i - 1])
    BY <1>1, <1>8
  <2>2. DOMAIN escaped = 1 .. n /\ escaped = [i \in 1 .. n |-> escaped[i]]
    BY <1>1, <1>8
  <2>3. \A i \in 1 .. n : escaped[i] \in BOOLEAN
    BY <2>1, Zenon
  <2>4. escaped \in [1 .. n -> BOOLEAN]
    BY <2>2, <2>3
  <2>5. escaped[1] = FALSE
    <3>1. 1 \in 1 .. n /\ ~(1 > 1)
      BY <1>1
    <3>. QED
      BY <2>1, <3>1, Zenon
  <2>6. ASSUME NEW i \in 2 .. n
        PROVE  escaped[i] = (text[i - 1] = "\\" /\ ~escaped[i - 1])
    <3>1. i \in 1 .. n /\ i > 1
      BY <1>1
    <3>. QED
      BY <2>1, <3>1
  <2>. QED
    BY <2>4, <2>5, <2>6
<1>. QED
  BY <1>4, <1>9 DEF n, Escapes

\* The text ends in a backslash that opens an escape.
Opening(text) == text[Len(text)] = "\\" /\ ~EscapedAt(text)[Len(text)]

\* A character more changes nothing about the earlier ones, and is the second
\* of an escape exactly when the text ended in the first.
LEMMA EscapedAppend ==
    ASSUME NEW C, NEW text \in Seq(C), text # <<>>, NEW c \in C
    PROVE  /\ \A i \in 1 .. Len(text) : EscapedAt(Append(text, c))[i] = EscapedAt(text)[i]
           /\ EscapedAt(Append(text, c))[Len(text) + 1] = Opening(text)
<1>. DEFINE n == Len(text)
            longer == Append(text, c)
            f == EscapedAt(longer)
            g == EscapedAt(text)
<1>1. /\ longer \in Seq(C) /\ longer # <<>> /\ Len(longer) = n + 1
      /\ \A i \in 1 .. n : longer[i] = text[i]
  BY AppendProperties
<1>2. n \in Nat \ {0}
  OBVIOUS
<1>3. Escapes(f, longer) /\ Escapes(g, text)
  BY <1>1, EscapedIs, Zenon
<1>. HIDE DEF f, g, longer
<1>4. /\ f[1] = FALSE /\ \A i \in 2 .. n + 1 : f[i] = (longer[i - 1] = "\\" /\ ~f[i - 1])
      /\ g[1] = FALSE /\ \A i \in 2 .. n : g[i] = (text[i - 1] = "\\" /\ ~g[i - 1])
  BY <1>1, <1>3 DEF Escapes
<1>. HIDE DEF n
<1>5. SameSteps(f, g, n)
  <2>1. ASSUME NEW i \in 1 .. n - 1, f[i] = g[i]
        PROVE  f[i + 1] = g[i + 1]
    <3>1. i + 1 \in 2 .. n /\ i + 1 \in 2 .. n + 1 /\ i \in 1 .. n /\ (i + 1) - 1 = i
      BY <1>2
    <3>2. f[i + 1] = (longer[i] = "\\" /\ ~f[i])
      BY <1>4, <3>1
    <3>3. g[i + 1] = (text[i] = "\\" /\ ~g[i])
      BY <1>4, <3>1
    <3>. QED
      BY <1>1, <2>1, <3>1, <3>2, <3>3
  <2>. QED
    BY <1>4, <2>1, Zenon DEF SameSteps
<1>6. \A i \in 1 .. n : f[i] = g[i]
  BY ONLY <1>2, <1>5, Determined
<1>7. f[n + 1] = (text[n] = "\\" /\ ~g[n])
  <2>1. n + 1 \in 2 .. n + 1 /\ (n + 1) - 1 = n /\ n \in 1 .. n
    BY <1>2
  <2>2. f[n + 1] = (longer[n] = "\\" /\ ~f[n])
    BY <1>4, <2>1
  <2>. QED
    BY <1>1, <1>6, <2>1, <2>2
<1>. QED
  BY <1>6, <1>7 DEF f, g, n, longer, Opening

\* What from_str has read is never without a current segment.
NonEmpty(C) == Seq(Seq(C)) \ {<<>>}

\* One turn of from_str's loop, for the character c.
ReadStep(segments, c, escaped) ==
    IF c = "/" /\ ~escaped THEN Append(segments, <<>>)
    ELSE IF c = "\\" /\ ~escaped THEN segments
    ELSE AppendToLast(segments, c)

\* A push to current_segment only changes the last segment.
LEMMA AppendToLastIs ==
    ASSUME NEW C, NEW a \in Seq(Seq(C)), NEW s \in Seq(C), NEW c \in C
    PROVE  AppendToLast(Append(a, s), c) = Append(a, Append(s, c))
<1>. DEFINE t == Append(a, s)
            n == Len(a) + 1
            u == Append(a, Append(s, c))
<1>1. /\ t \in Seq(Seq(C)) /\ Len(t) = n /\ t[n] = s /\ n \in 1 .. Len(t)
      /\ \A i \in 1 .. Len(a) : t[i] = a[i]
  BY AppendProperties
<1>2. Append(s, c) \in Seq(C)
  BY AppendProperties
<1>3. /\ u \in Seq(Seq(C)) /\ Len(u) = n /\ u[n] = Append(s, c)
      /\ \A i \in 1 .. Len(a) : u[i] = a[i]
  BY <1>2, AppendProperties
<1>4. AppendToLast(t, c) = [t EXCEPT ![n] = Append(s, c)]
  BY <1>1 DEF AppendToLast
<1>. DEFINE v == [t EXCEPT ![n] = Append(s, c)]
<1>5. /\ v \in Seq(Seq(C)) /\ Len(v) = n
      /\ \A j \in 1 .. n : v[j] = IF j = n THEN Append(s, c) ELSE t[j]
  <2>. HIDE DEF t, n
  <2>. QED
    BY <1>1, <1>2, ExceptSeq
<1>6. ASSUME NEW j \in 1 .. n
      PROVE  u[j] = v[j]
  <2>1. j = n \/ j \in 1 .. Len(a)
    OBVIOUS
  <2>. HIDE DEF t, n, u, v
  <2>. QED
    BY <1>1, <1>3, <1>5, <2>1, Zenon
<1>7. u = v
  <2>. HIDE DEF t, n, u, v
  <2>. QED
    BY <1>3, <1>5, <1>6, SeqEqual
<1>. QED
  BY <1>4, <1>7

\* A segment more leaves at least one.
LEMMA AppendNonEmpty ==
    ASSUME NEW C, NEW a \in Seq(Seq(C)), NEW s \in Seq(C)
    PROVE  Append(a, s) \in NonEmpty(C)
<1>1. Append(a, s) \in Seq(Seq(C)) /\ Append(a, s) # <<>>
  BY AppendProperties
<1>. QED
  BY <1>1 DEF NonEmpty

\* A turn of the loop leaves a current segment.
LEMMA ReadStepType ==
    ASSUME NEW C, NEW segments \in NonEmpty(C), NEW c \in C, NEW escaped
    PROVE  ReadStep(segments, c, escaped) \in NonEmpty(C)
<1>1. PICK a \in Seq(Seq(C)), s \in Seq(C) : segments = Append(a, s)
  BY SequenceEmptyOrAppend DEF NonEmpty
<1>2. Append(s, c) \in Seq(C)
  BY AppendProperties
<1>3. AppendToLast(segments, c) \in NonEmpty(C)
  <2>1. AppendToLast(Append(a, s), c) = Append(a, Append(s, c))
    BY ONLY AppendToLastIs, a \in Seq(Seq(C)), s \in Seq(C), c \in C
  <2>2. Append(a, Append(s, c)) \in NonEmpty(C)
    BY ONLY <1>2, AppendNonEmpty, a \in Seq(Seq(C)), Zenon
  <2>. QED
    BY ONLY <1>1, <2>1, <2>2
<1>4. Append(segments, <<>>) \in NonEmpty(C)
  <2>1. <<>> \in Seq(C) /\ segments \in Seq(Seq(C))
    BY EmptySeq DEF NonEmpty
  <2>. QED
    BY ONLY <2>1, AppendNonEmpty, Zenon
<1>. QED
  BY <1>3, <1>4 DEF ReadStep

\* r holds the segments after every turn of the loop.
Reads(r, C, text) ==
    /\ r \in [1 .. Len(text) -> NonEmpty(C)]
    /\ r[1] = <<<<>>>>
    /\ \A i \in 2 .. Len(text) : r[i] = ReadStep(r[i - 1], text[i], EscapedAt(text)[i])
    /\ SegmentsRead(text) = r[Len(text)]

\* The function that SegmentsRead picks exists and has the recursive form.
LEMMA SegmentsReadIs ==
    ASSUME NEW C, NEW text \in Seq(C), text # <<>>
    PROVE  \E r : Reads(r, C, text)
<1>. DEFINE n == Len(text)
            X == NonEmpty(C)
            e == EscapedAt(text)
            Step(i, s) == IF i \in 1 .. n THEN ReadStep(s, text[i], e[i]) ELSE s
            G == [i \in Nat |-> [s \in X |-> Step(i, s)]]
            Def(f) == f = [i \in DOMAIN text |->
                             IF i = 1 THEN <<<<>>>>
                             ELSE IF text[i] = "/" /\ ~e[i] THEN Append(f[i - 1], <<>>)
                             ELSE IF text[i] = "\\" /\ ~e[i] THEN f[i - 1]
                             ELSE AppendToLast(f[i - 1], text[i])]
            read == CHOOSE f : Def(f)
<1>1. n \in Nat \ {0} /\ DOMAIN text = 1 .. n /\ \A i \in 1 .. n : text[i] \in C
  OBVIOUS
<1>2. SegmentsRead(text) = read[n]
  BY DEF SegmentsRead
<1>. HIDE DEF n, X, e
<1>3. G \in [Nat -> [X -> X]]
  <2>1. \A i \in 1 .. n, s \in X : ReadStep(s, text[i], e[i]) \in X
    BY <1>1, ReadStepType DEF X
  <2>2. \A i \in Nat, s \in X : Step(i, s) \in X
    BY <2>1
  <2>. HIDE DEF Step
  <2>. QED
    BY <2>2
<1>4. ASSUME NEW i \in 2 .. n, NEW s \in X
      PROVE  G[i][s] = ReadStep(s, text[i], e[i])
  <2>1. i \in Nat /\ i \in 1 .. n
    BY <1>1
  <2>2. Step(i, s) = ReadStep(s, text[i], e[i])
    BY <2>1
  <2>3. G[i] = [u \in X |-> Step(i, u)]
    BY <2>1
  <2>. HIDE DEF G, Step
  <2>. QED
    BY <2>1, <2>2, <2>3
<1>5. <<<<>>>> \in X
  <2>1. <<>> \in Seq(C)
    BY EmptySeq
  <2>. QED
    BY <2>1 DEF X, NonEmpty
<1>. HIDE DEF G
<1>6. PICK f : Iterates(f, X, <<<<>>>>, G, n)
  BY ONLY <1>1, <1>3, <1>5, Iteration, Zenon
<1>7. ASSUME NEW i \in 2 .. n
      PROVE  f[i] = ReadStep(f[i - 1], text[i], e[i])
  <2>1. i - 1 \in 1 .. n
    BY <1>1
  <2>2. f[i - 1] \in X /\ f[i] = G[i][f[i - 1]]
    BY <1>6, <2>1 DEF Iterates
  <2>. QED
    BY <1>4, <2>2
<1>. DEFINE Def2(g) == g = [i \in 1 .. n |-> IF i = 1 THEN <<<<>>>>
                                             ELSE ReadStep(g[i - 1], text[i], e[i])]
<1>8. ASSUME NEW g
      PROVE  Def(g) <=> Def2(g)
  BY <1>1 DEF ReadStep
<1>9. Def2(f)
  <2>1. ASSUME NEW i \in 1 .. n
        PROVE  f[i] = IF i = 1 THEN <<<<>>>> ELSE ReadStep(f[i - 1], text[i], e[i])
    <3>1. CASE i = 1
      BY <1>6, <3>1 DEF Iterates
    <3>2. CASE i # 1
      <4>1. i \in 2 .. n
        BY <1>1, <3>2
      <4>. QED
        BY <1>7, <3>2, <4>1
    <3>. QED
      BY <3>1, <3>2
  <2>2. f = [i \in 1 .. n |-> f[i]]
    BY <1>6 DEF Iterates
  <2>. QED
    BY <2>1, <2>2, Zenon
<1>10. Def2(read)
  <2>. HIDE DEF Def, Def2
  <2>1. Def(f)
    BY <1>8, <1>9
  <2>2. Def(read)
    BY <2>1
  <2>. QED
    BY <1>8, <2>2
<1>. HIDE DEF read
<1>11. \A i \in 1 .. n : read[i] = f[i]
  <2>1. read[1] = f[1]
    BY <1>1, <1>6, <1>10 DEF Iterates
  <2>2. ASSUME NEW i \in 1 .. n - 1, read[i] = f[i]
        PROVE  read[i + 1] = f[i + 1]
    <3>1. i + 1 \in 2 .. n /\ i + 1 \in 1 .. n /\ i + 1 # 1 /\ (i + 1) - 1 = i
      BY <1>1
    <3>2. read[i + 1] = ReadStep(read[i], text[i + 1], e[i + 1])
      BY <1>10, <3>1, Zenon
    <3>3. f[i + 1] = ReadStep(f[i], text[i + 1], e[i + 1])
      BY <1>7, <3>1
    <3>. QED
      BY <2>2, <3>2, <3>3
  <2>3. SameSteps(read, f, n)
    BY <2>1, <2>2 DEF SameSteps
  <2>4. n \in Nat
    BY <1>1
  <2>. QED
    BY ONLY <2>3, <2>4, Determined
<1>12. SegmentsRead(text) = f[n]
  BY <1>1, <1>2, <1>11
<1>. QED
  BY <1>6, <1>7, <1>12 DEF n, X, e, Iterates, Reads

\* To read a text and one character more is to read the text and to take one
\* more turn of the loop.
LEMMA SegmentsReadAppend ==
    ASSUME NEW C, NEW text \in Seq(C), text # <<>>, NEW c \in C
    PROVE  /\ SegmentsRead(text) \in NonEmpty(C)
           /\ SegmentsRead(Append(text, c)) = ReadStep(SegmentsRead(text), c, Opening(text))
<1>. DEFINE n == Len(text)
            longer == Append(text, c)
            d == EscapedAt(longer)
            e == EscapedAt(text)
<1>1. /\ longer \in Seq(C) /\ longer # <<>> /\ Len(longer) = n + 1 /\ longer[n + 1] = c
      /\ \A i \in 1 .. n : longer[i] = text[i]
  BY AppendProperties
<1>2. n \in Nat \ {0}
  OBVIOUS
<1>3. PICK f : Reads(f, C, longer)
  BY <1>1, SegmentsReadIs, Zenon
<1>4. PICK g : Reads(g, C, text)
  BY SegmentsReadIs
<1>5. \A i \in 1 .. n : d[i] = e[i]
  BY EscapedAppend
<1>6. d[n + 1] = Opening(text)
  BY EscapedAppend
<1>. HIDE DEF longer, d, e
<1>7. /\ f[1] = <<<<>>>> /\ \A i \in 2 .. n + 1 : f[i] = ReadStep(f[i - 1], longer[i], d[i])
      /\ SegmentsRead(longer) = f[n + 1]
  BY <1>1, <1>3 DEF Reads, d
<1>8. /\ g \in [1 .. n -> NonEmpty(C)]
      /\ g[1] = <<<<>>>> /\ \A i \in 2 .. n : g[i] = ReadStep(g[i - 1], text[i], e[i])
      /\ SegmentsRead(text) = g[n]
  BY <1>4 DEF Reads, e
<1>. HIDE DEF n
<1>9. SameSteps(f, g, n)
  <2>1. ASSUME NEW i \in 1 .. n - 1, f[i] = g[i]
        PROVE  f[i + 1] = g[i + 1]
    <3>1. i + 1 \in 2 .. n /\ i + 1 \in 2 .. n + 1 /\ i + 1 \in 1 .. n /\ (i + 1) - 1 = i
      BY <1>2
    <3>2. f[i + 1] = ReadStep(f[i], longer[i + 1], d[i + 1])
      BY <1>7, <3>1
    <3>3. g[i + 1] = ReadStep(g[i], text[i + 1], e[i + 1])
      BY <1>8, <3>1
    <3>4. longer[i + 1] = text[i + 1] /\ d[i + 1] = e[i + 1]
      BY <1>1, <1>5, <3>1
    <3>. QED
      BY <2>1, <3>2, <3>3, <3>4
  <2>. QED
    BY <1>7, <1>8, <2>1 DEF SameSteps
<1>10. \A i \in 1 .. n : f[i] = g[i]
  BY ONLY <1>2, <1>9, Determined
<1>11. n + 1 \in 2 .. n + 1 /\ (n + 1) - 1 = n /\ n \in 1 .. n
  BY <1>2
<1>12. f[n + 1] = ReadStep(g[n], c, Opening(text))
  <2>1. f[n + 1] = ReadStep(f[n], longer[n + 1], d[n + 1])
    BY <1>7, <1>11
  <2>. QED
    BY <1>1, <1>6, <1>10, <1>11, <2>1
<1>. QED
  BY <1>7, <1>8, <1>11, <1>12 DEF longer



\* Texts are closed under concatenation, which is associative.
LEMMA TextConcat ==
    /\ \A x, y \in Text : x \o y \in Text
    /\ \A x, y, z \in Text : (x \o y) \o z = x \o (y \o z)
<1>1. ASSUME NEW x \in Text, NEW y \in Text
      PROVE  x \o y \in Text
  BY ConcatProperties DEF Text
<1>2. ASSUME NEW x \in Text, NEW y \in Text, NEW z \in Text
      PROVE  (x \o y) \o z = x \o (y \o z)
  BY DEF Text
<1>. QED
  BY <1>1, <1>2, Zenon

\* A character, escaped if it must be, is a text.
LEMMA EscapedType ==
    ASSUME NEW c \in Words
    PROVE  Escaped(c) \in Text
<1>1. "\\" \in Words
  BY AddressAssumption
<1>2. <<"\\", c>> \in Seq(Words) /\ <<c>> \in Seq(Words)
  BY <1>1
<1>. QED
  BY <1>2 DEF Escaped, Text

\* To render a segment and one character more is to push that character,
\* escaped if it must be.
LEMMA RenderedSegmentAppend ==
    ASSUME NEW s \in Text, NEW c \in Words
    PROVE  /\ RenderedSegment(s) \in Text
           /\ RenderedSegment(Append(s, c)) = RenderedSegment(s) \o Escaped(c)
<1>. DEFINE E(u) == [i \in DOMAIN u |-> Escaped(u[i])]
            n == Len(s)
            longer == Append(s, c)
<1>1. /\ longer \in Text /\ Len(longer) = n + 1 /\ longer[n + 1] = c
      /\ \A i \in 1 .. n : longer[i] = s[i]
  BY AppendProperties DEF Text
<1>2. n \in Nat /\ DOMAIN s = 1 .. n /\ DOMAIN longer = 1 .. n + 1
  BY <1>1 DEF Text
<1>3. E(s) \in Seq(Text) /\ Len(E(s)) = n /\ E(longer) \in Seq(Text) /\ Len(E(longer)) = n + 1
  <2>1. \A i \in 1 .. n : Escaped(s[i]) \in Text
    BY EscapedType DEF Text
  <2>2. \A i \in 1 .. n + 1 : Escaped(longer[i]) \in Text
    <3>1. \A i \in 1 .. n + 1 : longer[i] \in Words
      BY <1>1, <1>2 DEF Text
    <3>. QED
      BY <3>1, EscapedType
  <2>. HIDE DEF longer, n
  <2>3. E(s) \in [1 .. n -> Text] /\ E(longer) \in [1 .. n + 1 -> Text]
    BY <1>2, <2>1, <2>2
  <2>. HIDE DEF E
  <2>. QED
    BY <1>2, <2>3
<1>. DEFINE F == Append(E(s), Escaped(c))
<1>4. /\ F \in Seq(Text) /\ Len(F) = n + 1 /\ F[n + 1] = Escaped(c)
      /\ \A i \in 1 .. n : F[i] = E(s)[i]
  <2>1. Escaped(c) \in Text
    BY EscapedType
  <2>. HIDE DEF E, n
  <2>. QED
    BY <1>3, <2>1, AppendProperties
<1>5. E(longer) = F
  <2>1. ASSUME NEW i \in 1 .. n + 1
        PROVE  E(longer)[i] = F[i]
    <3>1. E(longer)[i] = Escaped(longer[i])
      BY <1>2
    <3>2. CASE i = n + 1
      BY <1>1, <1>4, <3>1, <3>2
    <3>3. CASE i \in 1 .. n
      <4>1. E(s)[i] = Escaped(s[i])
        BY <1>2, <3>3
      <4>. HIDE DEF E, longer, F, n
      <4>. QED
        BY <1>1, <1>4, <3>1, <3>3, <4>1
    <3>. QED
      BY <1>2, <3>2, <3>3
  <2>. HIDE DEF E, F, longer, n
  <2>. QED
    BY <1>3, <1>4, <2>1, SeqEqual
<1>6. Joined(E(s)) \in Text /\ Joined(F) = Joined(E(s)) \o Escaped(c)
  <2>1. Escaped(c) \in Seq(Words) /\ E(s) \in Seq(Seq(Words))
    BY <1>3, EscapedType DEF Text
  <2>. HIDE DEF E
  <2>. QED
    BY <2>1, JoinedAppend DEF Text
<1>7. /\ RenderedSegment(s) = <<"/">> \o Joined(E(s))
      /\ RenderedSegment(longer) = <<"/">> \o Joined(E(longer))
  BY DEF RenderedSegment
<1>8. <<"/">> \in Text /\ Escaped(c) \in Text
  <2>1. "/" \in Words
    BY AddressAssumption
  <2>. QED
    BY <2>1, EscapedType DEF Text
<1>. HIDE DEF E, F
<1>9. RenderedSegment(s) \in Text
  BY <1>6, <1>7, <1>8, ConcatProperties DEF Text
<1>10. <<"/">> \o (Joined(E(s)) \o Escaped(c)) = (<<"/">> \o Joined(E(s))) \o Escaped(c)
  BY <1>6, <1>8, TextConcat, Zenon
<1>. QED
  BY <1>5, <1>6, <1>7, <1>9, <1>10, Zenon

\* The empty segment is a slash.
LEMMA RenderedSegmentEmpty == RenderedSegment(<<>>) = <<"/">>
<1>1. [i \in DOMAIN <<>> |-> Escaped(<<>>[i])] = <<>>
  OBVIOUS
<1>2. RenderedSegment(<<>>) = <<"/">> \o <<>>
  BY <1>1, JoinedEmpty, Zenon DEF RenderedSegment
<1>3. <<"/">> \in Seq(Words)
  BY AddressAssumption
<1>. QED
  BY <1>2, <1>3, ConcatEmptySeq

\* To render an address and one segment more is to render the address and then
\* the segment.
LEMMA RenderedAppend ==
    ASSUME NEW a \in Seq(Text), NEW s \in Text
    PROVE  /\ Rendered(a) \in Text
           /\ Rendered(Append(a, s)) = Rendered(a) \o RenderedSegment(s)
<1>. DEFINE E(u) == [i \in DOMAIN u |-> RenderedSegment(u[i])]
            n == Len(a)
            longer == Append(a, s)
<1>0. \A u \in Text : RenderedSegment(u) \in Text
  <2>1. "/" \in Words
    BY AddressAssumption
  <2>. QED
    BY <2>1, RenderedSegmentAppend
<1>1. /\ longer \in Seq(Text) /\ Len(longer) = n + 1 /\ longer[n + 1] = s
      /\ \A i \in 1 .. n : longer[i] = a[i]
  BY AppendProperties
<1>2. n \in Nat /\ DOMAIN a = 1 .. n /\ DOMAIN longer = 1 .. n + 1
  BY <1>1
<1>3. E(a) \in Seq(Text) /\ Len(E(a)) = n /\ E(longer) \in Seq(Text) /\ Len(E(longer)) = n + 1
  <2>1. \A i \in 1 .. n : RenderedSegment(a[i]) \in Text
    BY <1>0
  <2>2. \A i \in 1 .. n + 1 : RenderedSegment(longer[i]) \in Text
    <3>1. \A i \in 1 .. n + 1 : longer[i] \in Text
      BY <1>1, <1>2
    <3>. QED
      BY <1>0, <3>1
  <2>. HIDE DEF longer, n
  <2>3. E(a) \in [1 .. n -> Text] /\ E(longer) \in [1 .. n + 1 -> Text]
    BY <1>2, <2>1, <2>2
  <2>. HIDE DEF E
  <2>. QED
    BY <1>2, <2>3
<1>. DEFINE F == Append(E(a), RenderedSegment(s))
<1>4. /\ F \in Seq(Text) /\ Len(F) = n + 1 /\ F[n + 1] = RenderedSegment(s)
      /\ \A i \in 1 .. n : F[i] = E(a)[i]
  <2>1. RenderedSegment(s) \in Text
    BY <1>0
  <2>. HIDE DEF E, n
  <2>. QED
    BY <1>3, <2>1, AppendProperties
<1>5. E(longer) = F
  <2>1. ASSUME NEW i \in 1 .. n + 1
        PROVE  E(longer)[i] = F[i]
    <3>1. E(longer)[i] = RenderedSegment(longer[i])
      BY <1>2
    <3>2. CASE i = n + 1
      BY <1>1, <1>4, <3>1, <3>2
    <3>3. CASE i \in 1 .. n
      <4>1. E(a)[i] = RenderedSegment(a[i])
        BY <1>2, <3>3
      <4>. HIDE DEF E, longer, F, n
      <4>. QED
        BY <1>1, <1>4, <3>1, <3>3, <4>1
    <3>. QED
      BY <1>2, <3>2, <3>3
  <2>. HIDE DEF E, F, longer, n
  <2>. QED
    BY <1>3, <1>4, <2>1, SeqEqual
<1>6. Joined(E(a)) \in Text /\ Joined(F) = Joined(E(a)) \o RenderedSegment(s)
  <2>1. RenderedSegment(s) \in Seq(Words) /\ E(a) \in Seq(Seq(Words))
    BY <1>0, <1>3 DEF Text
  <2>. HIDE DEF E
  <2>. QED
    BY <2>1, JoinedAppend DEF Text
<1>7. Rendered(a) = Joined(E(a)) /\ Rendered(longer) = Joined(E(longer))
  BY DEF Rendered
<1>. HIDE DEF E, F
<1>. QED
  BY <1>5, <1>6, <1>7

\* The address without segments is the empty text.
LEMMA RenderedEmpty == Rendered(<<>>) = <<>>
<1>1. [i \in DOMAIN <<>> |-> RenderedSegment(<<>>[i])] = <<>>
  OBVIOUS
<1>. QED
  BY <1>1, JoinedEmpty DEF Rendered

\* from_str meets no error in the text, but may be left inside an escape.
Legal(text) ==
    /\ text[1] = "/"
    /\ \A i \in 1 .. Len(text) : EscapedAt(text)[i] => NeedsEscaped(text[i])

\* from_str succeeds on a legal text that does not end inside an escape.
LEMMA FromStrIs ==
    ASSUME NEW text \in Text, text # <<>>
    PROVE  FromStr(text) = IF Legal(text) /\ ~Opening(text)
                           THEN Some(SegmentsRead(text)) ELSE None
<1>1. DOMAIN text = 1 .. Len(text)
  BY DEF Text
<1>. QED
  BY <1>1 DEF FromStr, Legal, Opening

\* What one character more does to the verdict of from_str.
LEMMA LegalAppend ==
    ASSUME NEW text \in Text, text # <<>>, NEW c \in Words
    PROVE  /\ Legal(Append(text, c)) <=> Legal(text) /\ (Opening(text) => NeedsEscaped(c))
           /\ Opening(Append(text, c)) <=> c = "\\" /\ ~Opening(text)
<1>. DEFINE n == Len(text)
            longer == Append(text, c)
            d == EscapedAt(longer)
            e == EscapedAt(text)
<1>1. /\ longer \in Text /\ Len(longer) = n + 1 /\ longer[n + 1] = c
      /\ \A i \in 1 .. n : longer[i] = text[i]
  BY AppendProperties DEF Text
<1>2. n \in Nat \ {0}
  BY DEF Text
<1>3. (\A i \in 1 .. n : d[i] = e[i]) /\ d[n + 1] = Opening(text)
  BY EscapedAppend DEF Text
<1>. HIDE DEF n, longer, d, e
<1>4. 1 .. n + 1 = 1 .. n \cup {n + 1} /\ 1 \in 1 .. n
  BY <1>2
<1>5. Legal(longer) <=> Legal(text) /\ (Opening(text) => NeedsEscaped(c))
  <2>1. Legal(longer) <=> /\ longer[1] = "/"
                          /\ \A i \in 1 .. n + 1 : d[i] => NeedsEscaped(longer[i])
    BY <1>1 DEF Legal, d
  <2>2. Legal(text) <=> text[1] = "/" /\ \A i \in 1 .. n : e[i] => NeedsEscaped(text[i])
    BY DEF Legal, e, n
  <2>3. longer[1] = text[1]
    BY <1>1, <1>4
  <2>4. (\A i \in 1 .. n + 1 : d[i] => NeedsEscaped(longer[i]))
          <=> /\ \A i \in 1 .. n : d[i] => NeedsEscaped(longer[i])
              /\ d[n + 1] => NeedsEscaped(longer[n + 1])
    BY <1>4, Zenon
  <2>5. (\A i \in 1 .. n : d[i] => NeedsEscaped(longer[i]))
          <=> \A i \in 1 .. n : e[i] => NeedsEscaped(text[i])
    BY <1>1, <1>3, Zenon
  <2>. QED
    BY <1>1, <1>3, <2>1, <2>2, <2>3, <2>4, <2>5
<1>6. Opening(longer) <=> c = "\\" /\ ~Opening(text)
  <2>1. Opening(longer) <=> longer[n + 1] = "\\" /\ ~d[n + 1]
    BY <1>1 DEF Opening, d
  <2>. QED
    BY <1>1, <1>3, <2>1
<1>. QED
  BY <1>5, <1>6 DEF longer

\* The leading slash of from_str opens an empty segment.
LEMMA FirstSlash ==
    /\ <<"/">> \in Text
    /\ Legal(<<"/">>) /\ ~Opening(<<"/">>) /\ SegmentsRead(<<"/">>) = <<<<>>>>
<1>. DEFINE t == <<"/">>
<1>1. t \in Seq(Words) /\ t # <<>> /\ Len(t) = 1 /\ t[1] = "/"
  BY AddressAssumption
<1>2. EscapedAt(t)[1] = FALSE
  BY <1>1, EscapedIs, Zenon DEF Escapes
<1>3. PICK r : Reads(r, Words, t)
  BY <1>1, SegmentsReadIs, Zenon
<1>. HIDE DEF t
<1>4. SegmentsRead(t) = <<<<>>>>
  BY <1>1, <1>3 DEF Reads
<1>5. Legal(t)
  <2>1. \A i \in 1 .. Len(t) : i = 1
    BY <1>1
  <2>. QED
    BY <1>1, <1>2, <2>1 DEF Legal
<1>6. ~Opening(t)
  BY <1>1 DEF Opening
<1>. QED
  BY <1>1, <1>4, <1>5, <1>6 DEF t, Text

\* A slash behind a text that parses starts an empty segment.
LEMMA ReadsSlash ==
    ASSUME NEW text \in Text, NEW a \in Address, FromStr(text) = Some(a)
    PROVE  /\ Append(text, "/") \in Text
           /\ FromStr(Append(text, "/")) = Some(Append(a, <<>>))
<1>1. "/" \in Words
  BY AddressAssumption
<1>. DEFINE longer == Append(text, "/")
<1>2. longer \in Text /\ longer # <<>>
  BY <1>1, AppendProperties DEF Text
<1>3. FromStr(longer) = IF Legal(longer) /\ ~Opening(longer)
                        THEN Some(SegmentsRead(longer)) ELSE None
  BY <1>2, FromStrIs, Zenon
<1>4. CASE text = <<>>
  <2>1. longer = <<"/">> /\ a = <<>>
    BY <1>4 DEF FromStr, Some
  <2>2. Append(a, <<>>) = <<<<>>>>
    BY <2>1
  <2>. HIDE DEF longer
  <2>. QED
    BY <1>2, <1>3, <2>1, <2>2, FirstSlash, Zenon DEF longer
<1>5. CASE text # <<>>
  <2>1. Legal(text) /\ ~Opening(text) /\ SegmentsRead(text) = a
    BY <1>5, FromStrIs DEF Some, None
  <2>2. SegmentsRead(longer) = ReadStep(a, "/", Opening(text))
    BY <1>1, <1>5, <2>1, SegmentsReadAppend DEF Text
  <2>3. SegmentsRead(longer) = Append(a, <<>>)
    BY <2>1, <2>2 DEF ReadStep
  <2>4. Legal(longer) /\ ~Opening(longer)
    BY <1>1, <1>5, <2>1, LegalAppend
  <2>. QED
    BY <1>2, <1>3, <2>3, <2>4, Zenon
<1>. QED
  BY <1>4, <1>5

\* Two texts of one character.
LEMMA ConcatPair ==
    ASSUME NEW C, NEW x \in C, NEW y \in C
    PROVE  <<x>> \o <<y>> = <<x, y>>
<1>. DEFINE s == <<x>> \o <<y>>
            t == <<x, y>>
<1>1. <<x>> \in Seq(C) /\ <<y>> \in Seq(C) /\ Len(<<x>>) = 1 /\ Len(<<y>>) = 1
  OBVIOUS
<1>2. s \in Seq(C) /\ Len(s) = 2 /\ s[1] = x /\ s[2] = y
  BY <1>1, ConcatProperties
<1>3. t \in Seq(C) /\ Len(t) = 2 /\ t[1] = x /\ t[2] = y
  OBVIOUS
<1>4. \A i \in 1 .. 2 : i = 1 \/ i = 2
  OBVIOUS
<1>. HIDE DEF s, t
<1>. QED
  BY <1>2, <1>3, <1>4, SeqEqual, Zenon DEF s, t

\* A character, escaped if it must be, behind a text that parses is pushed to
\* the last segment.
LEMMA ReadsChar ==
    ASSUME NEW text \in Text, NEW a \in Address, NEW s \in Text,
           FromStr(text) = Some(Append(a, s)), NEW c \in Words
    PROVE  FromStr(text \o Escaped(c)) = Some(Append(a, Append(s, c)))
<1>1. Append(a, s) # <<>>
  BY AppendProperties DEF Address
<1>2. text # <<>>
  BY <1>1 DEF FromStr, Some
<1>3. Legal(text) /\ ~Opening(text) /\ SegmentsRead(text) = Append(a, s)
  <2>. DEFINE b == Append(a, s)
  <2>1. FromStr(text) = Some(b)
    OBVIOUS
  <2>. HIDE DEF b
  <2>2. Legal(text) /\ ~Opening(text) /\ SegmentsRead(text) = b
    <3>1. FromStr(text) = IF Legal(text) /\ ~Opening(text)
                          THEN Some(SegmentsRead(text)) ELSE None
      BY <1>2, FromStrIs
    <3>2. Some(b) # None
      BY DEF Some, None
    <3>3. Legal(text) /\ ~Opening(text)
      BY ONLY <2>1, <3>1, <3>2, Zenon
    <3>4. Some(SegmentsRead(text)) = Some(b)
      BY ONLY <2>1, <3>1, <3>3, Zenon
    <3>. QED
      BY ONLY <3>3, <3>4 DEF Some
  <2>. QED
    BY ONLY <2>2 DEF b
<1>4. AppendToLast(Append(a, s), c) = Append(a, Append(s, c))
  BY AppendToLastIs DEF Address, Text
<1>5. CASE ~NeedsEscaped(c)
  <2>. DEFINE longer == Append(text, c)
  <2>1. Escaped(c) = <<c>>
    BY <1>5 DEF Escaped
  <2>2. text \o Escaped(c) = longer
    BY <2>1, AppendIsConcat DEF Text
  <2>3. longer \in Text /\ longer # <<>>
    BY AppendProperties DEF Text
  <2>4. c # "/" /\ c # "\\"
    BY <1>5 DEF NeedsEscaped
  <2>5. Legal(longer) /\ ~Opening(longer)
    BY <1>2, <1>3, <2>4, LegalAppend
  <2>6. SegmentsRead(longer) = ReadStep(Append(a, s), c, Opening(text))
    BY <1>2, <1>3, SegmentsReadAppend, Zenon DEF Text
  <2>7. SegmentsRead(longer) = Append(a, Append(s, c))
    BY <1>4, <2>4, <2>6 DEF ReadStep
  <2>. QED
    BY <2>2, <2>3, <2>5, <2>7, FromStrIs, Zenon
<1>6. CASE NeedsEscaped(c)
  <2>. DEFINE more == Append(text, "\\")
              longer == Append(more, c)
  <2>1. "\\" \in Words
    BY AddressAssumption
  <2>2. more \in Text /\ more # <<>> /\ longer \in Text /\ longer # <<>>
    BY <2>1, AppendProperties DEF Text
  <2>3. text \o Escaped(c) = longer
    <3>1. Escaped(c) = <<"\\", c>>
      BY <1>6 DEF Escaped
    <3>2. more = text \o <<"\\">> /\ longer = more \o <<c>>
      BY <2>1, <2>2, AppendIsConcat DEF Text
    <3>3. longer = text \o (<<"\\">> \o <<c>>)
      <4>1. <<"\\">> \in Seq(Words) /\ <<c>> \in Seq(Words)
        BY <2>1
      <4>. QED
        BY <3>2, <4>1, ConcatAssociative DEF Text
    <3>4. <<"\\">> \o <<c>> = <<"\\", c>>
      BY <2>1, ConcatPair
    <3>. QED
      BY <3>1, <3>3, <3>4
  <2>4. Legal(more) /\ Opening(more)
    BY <1>2, <1>3, <2>1, LegalAppend
  <2>5. Legal(longer) /\ ~Opening(longer)
    <3>. HIDE DEF more
    <3>. QED
      BY <1>6, <2>2, <2>4, LegalAppend
  <2>6. SegmentsRead(more) = ReadStep(Append(a, s), "\\", Opening(text))
    BY <1>2, <1>3, <2>1, SegmentsReadAppend, Zenon DEF Text
  <2>7. SegmentsRead(more) = Append(a, s)
    BY <1>3, <2>6 DEF ReadStep
  <2>8. SegmentsRead(longer) = ReadStep(Append(a, s), c, Opening(more))
    <3>. HIDE DEF more
    <3>. QED
      BY <2>2, <2>7, SegmentsReadAppend, Zenon DEF Text
  <2>9. SegmentsRead(longer) = Append(a, Append(s, c))
    BY <1>4, <2>4, <2>8 DEF ReadStep
  <2>. QED
    BY <2>2, <2>3, <2>5, <2>9, FromStrIs, Zenon
<1>. QED
  BY <1>5, <1>6

\* A rendered segment behind a text that parses is read as this segment.
LEMMA ReadsSegment ==
    ASSUME NEW text \in Text, NEW a \in Address, FromStr(text) = Some(a), NEW s \in Text
    PROVE  FromStr(text \o RenderedSegment(s)) = Some(Append(a, s))
<1>. DEFINE S == {u \in Text : FromStr(text \o RenderedSegment(u)) = Some(Append(a, u))}
<1>1. <<>> \in S
  <2>1. "/" \in Words /\ <<>> \in Text
    BY AddressAssumption, EmptySeq DEF Text
  <2>2. text \o RenderedSegment(<<>>) = Append(text, "/")
    BY <2>1, RenderedSegmentEmpty, AppendIsConcat, Zenon DEF Text
  <2>. QED
    BY <2>1, <2>2, ReadsSlash, Zenon
<1>2. ASSUME NEW u \in Text, NEW c \in Words, u \in S
      PROVE  Append(u, c) \in S
  <2>1. /\ RenderedSegment(u) \in Text /\ Escaped(c) \in Text /\ Append(u, c) \in Text
        /\ RenderedSegment(Append(u, c)) = RenderedSegment(u) \o Escaped(c)
    BY RenderedSegmentAppend, EscapedType, AppendProperties DEF Text
  <2>2. text \o RenderedSegment(u) \in Text
    BY <2>1, ConcatProperties DEF Text
  <2>3. FromStr((text \o RenderedSegment(u)) \o Escaped(c)) = Some(Append(a, Append(u, c)))
    BY <1>2, <2>2, ReadsChar
  <2>4. (text \o RenderedSegment(u)) \o Escaped(c) = text \o RenderedSegment(Append(u, c))
    BY <2>1, TextConcat
  <2>. QED
    BY <2>1, <2>3, <2>4, Zenon
<1>. HIDE DEF S
<1>3. Seq(Words) \subseteq S
  BY <1>1, <1>2, SeqInduction DEF Text
<1>. QED
  BY <1>3 DEF S, Text

(***************************************************************************)
(* Whatever its segments hold, an address is read back from its rendered   *)
(* form: from_str is a left inverse of rendered for every address, so no   *)
(* slash or backslash in a segment, and no empty segment, can change the   *)
(* address that the other side of a link sees.                             *)
(***************************************************************************)
THEOREM AddressRoundTrip ==
    \A a \in Address : FromStr(Rendered(a)) = Some(a)
<1>. DEFINE S == {a \in Address : FromStr(Rendered(a)) = Some(a)}
<1>1. <<>> \in S
  BY RenderedEmpty, EmptySeq DEF FromStr, Address
<1>2. ASSUME NEW a \in Seq(Text), NEW s \in Text, a \in S
      PROVE  Append(a, s) \in S
  <2>1. Append(a, s) \in Address
    BY AppendProperties DEF Address
  <2>2. Rendered(a) \in Text /\ Rendered(Append(a, s)) = Rendered(a) \o RenderedSegment(s)
    BY RenderedAppend
  <2>. QED
    BY <1>2, <2>1, <2>2, ReadsSegment, Zenon DEF Address
<1>. HIDE DEF S
<1>3. Seq(Text) \subseteq S
  BY <1>1, <1>2, SeqInduction
<1>. QED
  BY <1>3 DEF S, Address

\* A character pushed to the last segment shows at the end of the rendered
\* address.
LEMMA RenderedAppendToLast ==
    ASSUME NEW r \in NonEmpty(Words), NEW c \in Words
    PROVE  /\ Rendered(r) \in Text
           /\ Rendered(AppendToLast(r, c)) = Rendered(r) \o Escaped(c)
<1>1. PICK a \in Seq(Text), s \in Text : r = Append(a, s)
  BY SequenceEmptyOrAppend DEF NonEmpty, Text
<1>2. AppendToLast(r, c) = Append(a, Append(s, c))
  BY <1>1, AppendToLastIs DEF Text
<1>3. Append(s, c) \in Text
  BY AppendProperties DEF Text
<1>4. /\ Rendered(a) \in Text /\ RenderedSegment(s) \in Text /\ Escaped(c) \in Text
      /\ RenderedSegment(Append(s, c)) = RenderedSegment(s) \o Escaped(c)
  BY RenderedAppend, RenderedSegmentAppend, EscapedType, Zenon
<1>5. Rendered(r) = Rendered(a) \o RenderedSegment(s)
  BY <1>1, RenderedAppend
<1>6. Rendered(Append(a, Append(s, c))) = Rendered(a) \o (RenderedSegment(s) \o Escaped(c))
  BY <1>3, <1>4, RenderedAppend, Zenon
<1>7. Rendered(a) \o (RenderedSegment(s) \o Escaped(c)) = Rendered(r) \o Escaped(c)
  <2>1. Rendered(a) \o (RenderedSegment(s) \o Escaped(c))
            = (Rendered(a) \o RenderedSegment(s)) \o Escaped(c)
    BY ONLY <1>4, TextConcat, Zenon
  <2>. QED
    BY ONLY <1>5, <2>1, Zenon
<1>8. Rendered(r) \in Text
  BY <1>4, <1>5, ConcatProperties DEF Text
<1>. QED
  BY <1>2, <1>6, <1>7, <1>8

\* What from_str has read of a text renders to that text, up to a backslash
\* that is still waiting for its second character.
ReadBack(text) ==
    /\ SegmentsRead(text) \in NonEmpty(Words)
    /\ Opening(text) => Append(Rendered(SegmentsRead(text)), "\\") = text
    /\ ~Opening(text) => Rendered(SegmentsRead(text)) = text

\* Every legal text is read back so far.
LEMMA LegalReadsBack ==
    ASSUME NEW t \in Text, t # <<>>, Legal(t)
    PROVE  ReadBack(t)
<1>. DEFINE S == {text \in Text : text # <<>> /\ Legal(text) => ReadBack(text)}
<1>1. <<>> \in S
  BY EmptySeq DEF Text
<1>2. ASSUME NEW text \in Text, NEW c \in Words, text \in S
      PROVE  Append(text, c) \in S
  <2>. DEFINE longer == Append(text, c)
              r == SegmentsRead(text)
  <2>1. longer \in Text /\ longer # <<>> /\ longer = text \o <<c>>
    BY AppendProperties, AppendIsConcat DEF Text
  <2>. SUFFICES ASSUME Legal(longer)
                PROVE  ReadBack(longer)
    BY <2>1
  <2>2. CASE text = <<>>
    <3>1. longer = <<c>>
      BY <2>2
    <3>2. longer[1] = "/"
      BY DEF Legal
    <3>3. longer = <<"/">>
      BY <3>1, <3>2
    <3>4. <<<<>>>> = Append(<<>>, <<>>) /\ <<>> \in Text /\ <<>> \in Seq(Text)
      BY EmptySeq DEF Text
    <3>5. Rendered(<<<<>>>>) = <<>> \o <<"/">>
      BY <3>4, RenderedAppend, RenderedEmpty, RenderedSegmentEmpty, Zenon
    <3>6. Rendered(<<<<>>>>) = <<"/">>
      BY <3>5, FirstSlash, ConcatEmptySeq DEF Text
    <3>7. <<<<>>>> \in NonEmpty(Words)
      BY <3>4, AppendNonEmpty, Zenon DEF Text
    <3>. QED
      BY <3>3, <3>6, <3>7, FirstSlash DEF ReadBack
  <2>3. CASE text # <<>>
    <3>1. Legal(text) /\ (Opening(text) => NeedsEscaped(c))
          /\ (Opening(longer) <=> c = "\\" /\ ~Opening(text))
      BY <2>3, LegalAppend
    <3>2. ReadBack(text)
      BY <1>2, <2>3, <3>1
    <3>3. SegmentsRead(longer) = ReadStep(r, c, Opening(text))
      BY <2>3, SegmentsReadAppend DEF Text
    <3>4. r \in NonEmpty(Words)
      BY <3>2 DEF ReadBack
    <3>. HIDE DEF longer, r
    <3>5. Rendered(r) \in Text /\ Rendered(AppendToLast(r, c)) = Rendered(r) \o Escaped(c)
      BY <3>4, RenderedAppendToLast
    <3>6. SegmentsRead(longer) \in NonEmpty(Words)
      BY <3>3, <3>4, ReadStepType
    <3>7. CASE Opening(text)
      <4>1. text = Append(Rendered(r), "\\") /\ NeedsEscaped(c) /\ ~Opening(longer)
        BY <3>1, <3>2, <3>7 DEF ReadBack, r
      <4>2. SegmentsRead(longer) = AppendToLast(r, c)
        BY <3>3, <3>7 DEF ReadStep
      <4>3. "\\" \in Words
        BY AddressAssumption
      <4>4. text = Rendered(r) \o <<"\\">>
        BY <3>5, <4>1, <4>3, AppendIsConcat DEF Text
      <4>5. longer = Rendered(r) \o (<<"\\">> \o <<c>>)
        <5>1. <<"\\">> \in Seq(Words) /\ <<c>> \in Seq(Words)
          BY <4>3
        <5>. QED
          BY <2>1, <3>5, <4>4, <5>1, ConcatAssociative DEF Text
      <4>6. <<"\\">> \o <<c>> = Escaped(c)
        BY <4>1, <4>3, ConcatPair DEF Escaped
      <4>. QED
        BY <3>5, <3>6, <4>1, <4>2, <4>5, <4>6, Zenon DEF ReadBack
    <3>8. CASE ~Opening(text)
      <4>1. text = Rendered(r)
        BY <3>2, <3>8 DEF ReadBack, r
      <4>2. CASE c = "/"
        <5>1. SegmentsRead(longer) = Append(r, <<>>)
          BY <3>3, <3>8, <4>2 DEF ReadStep
        <5>2. <<>> \in Text /\ r \in Seq(Text)
          BY <3>4, EmptySeq DEF Text, NonEmpty
        <5>3. Rendered(Append(r, <<>>)) = Rendered(r) \o <<"/">>
          BY <5>2, RenderedAppend, RenderedSegmentEmpty, Zenon
        <5>. QED
          BY <2>1, <3>1, <3>6, <4>1, <4>2, <5>1, <5>3, Zenon DEF ReadBack
      <4>3. CASE c = "\\"
        <5>1. SegmentsRead(longer) = r
          BY <3>3, <3>8, <4>3 DEF ReadStep
        <5>. QED
          BY <3>1, <3>6, <3>8, <4>1, <4>3, <5>1 DEF ReadBack, longer
      <4>4. CASE c # "/" /\ c # "\\"
        <5>1. SegmentsRead(longer) = AppendToLast(r, c)
          BY <3>3, <4>4 DEF ReadStep
        <5>2. Escaped(c) = <<c>>
          BY <4>4 DEF Escaped, NeedsEscaped
        <5>. QED
          BY <2>1, <3>1, <3>5, <3>6, <4>1, <4>4, <5>1, <5>2 DEF ReadBack
      <4>. QED
        BY <4>2, <4>3, <4>4
    <3>. QED
      BY <3>7, <3>8
  <2>. QED
    BY <2>2, <2>3
<1>. HIDE DEF S
<1>3. Seq(Words) \subseteq S
  BY <1>1, <1>2, SeqInduction DEF Text
<1>. QED
  BY <1>3 DEF S, Text

(***************************************************************************)
(* A text that from_str accepts is the rendered form of the address it     *)
(* gives: no two texts stand for the same address.                         *)
(***************************************************************************)
THEOREM ParsedTextRoundTrip ==
    \A text \in Text : FromStr(text) # None =>
        FromStr(text)[1] \in Address /\ Rendered(FromStr(text)[1]) = text
<1>. SUFFICES ASSUME NEW text \in Text, FromStr(text) # None
              PROVE  FromStr(text)[1] \in Address /\ Rendered(FromStr(text)[1]) = text
  OBVIOUS
<1>1. CASE text = <<>>
  <2>1. FromStr(text)[1] = <<>>
    BY <1>1 DEF FromStr, Some
  <2>. QED
    BY <1>1, <2>1, RenderedEmpty, EmptySeq, Zenon DEF Address
<1>2. CASE text # <<>>
  <2>1. Legal(text) /\ ~Opening(text) /\ FromStr(text) = Some(SegmentsRead(text))
    BY <1>2, FromStrIs
  <2>2. ReadBack(text)
    BY <1>2, <2>1, LegalReadsBack
  <2>. QED
    BY <2>1, <2>2 DEF ReadBack, NonEmpty, Address, Text, Some
<1>. QED
  BY <1>1, <1>2

\* The first segment is rendered first.
LEMMA RenderedCons ==
    ASSUME NEW s \in Text, NEW a \in Address
    PROVE  Rendered(<<s>> \o a) = RenderedSegment(s) \o Rendered(a)
<1>. DEFINE S == {u \in Address : Rendered(<<s>> \o u) = RenderedSegment(s) \o Rendered(u)}
<1>0. "/" \in Words /\ <<s>> \in Seq(Text)
  BY AddressAssumption
<1>1. RenderedSegment(s) \in Text
  BY <1>0, RenderedSegmentAppend
<1>2. <<>> \in S
  <2>1. <<>> \in Address /\ Append(<<>>, s) = <<s>> /\ <<>> \in Seq(Text)
    BY EmptySeq DEF Address
  <2>2. Rendered(<<s>>) = <<>> \o RenderedSegment(s)
    BY <2>1, RenderedAppend, RenderedEmpty, Zenon
  <2>3. Rendered(<<s>>) = RenderedSegment(s) /\ RenderedSegment(s) \o <<>> = RenderedSegment(s)
    BY <1>1, <2>2, ConcatEmptySeq DEF Text
  <2>4. <<s>> \o <<>> = <<s>>
    BY <1>0, ConcatEmptySeq
  <2>. QED
    BY <2>1, <2>3, <2>4, RenderedEmpty, Zenon
<1>3. ASSUME NEW u \in Seq(Text), NEW w \in Text, u \in S
      PROVE  Append(u, w) \in S
  <2>1. Append(u, w) \in Address /\ Append(u, w) = u \o <<w>>
    BY AppendProperties, AppendIsConcat DEF Address
  <2>2. <<s>> \o u \in Seq(Text)
    BY <1>0, ConcatProperties
  <2>3. <<s>> \o Append(u, w) = Append(<<s>> \o u, w)
    <3>1. <<w>> \in Seq(Text)
      OBVIOUS
    <3>2. <<s>> \o (u \o <<w>>) = (<<s>> \o u) \o <<w>>
      BY <1>0, <3>1, ConcatAssociative
    <3>3. (<<s>> \o u) \o <<w>> = Append(<<s>> \o u, w)
      BY <2>2, AppendIsConcat
    <3>. QED
      BY <2>1, <3>2, <3>3
  <2>4. Rendered(Append(<<s>> \o u, w)) = Rendered(<<s>> \o u) \o RenderedSegment(w)
    BY <2>2, RenderedAppend, Zenon
  <2>5. Rendered(<<s>> \o u) = RenderedSegment(s) \o Rendered(u)
    BY <1>3
  <2>6. Rendered(u) \in Text /\ RenderedSegment(w) \in Text
        /\ Rendered(Append(u, w)) = Rendered(u) \o RenderedSegment(w)
    BY <1>0, RenderedAppend, RenderedSegmentAppend, Zenon
  <2>7. (RenderedSegment(s) \o Rendered(u)) \o RenderedSegment(w)
            = RenderedSegment(s) \o (Rendered(u) \o RenderedSegment(w))
    BY <1>1, <2>6, TextConcat, Zenon
  <2>. QED
    BY <2>1, <2>3, <2>4, <2>5, <2>6, <2>7, Zenon
<1>. HIDE DEF S
<1>4. Seq(Text) \subseteq S
  BY <1>2, <1>3, SeqInduction
<1>. QED
  BY <1>4 DEF S, Address

\* An address that TcpStreamTarget::try_from accepts starts with the protocol's
\* name and a class, and its host is one that the class parses: that of the third
\* segment, or IPv4's loopback address for a port alone.
LEMMA TargetIs ==
    ASSUME NEW addr \in Address, TargetOf(addr) # None
    PROVE  /\ addr # <<>> /\ addr[1] = <<"proxy-tcp">> /\ Tail(addr) # <<>>
           /\ Tail(addr)[1] \in {<<c>> : c \in IPClasses \cup DnsClasses \cup {"tcp"}}
           /\ TargetOf(addr)[1].class \in IPClasses \cup DnsClasses
           /\ HostParses(TargetOf(addr)[1].class, TargetOf(addr)[1].host)
           /\ \/ /\ addr[2] = <<"tcp">>
                 /\ TargetOf(addr)[1].class = "ip4" /\ TargetOf(addr)[1].host = <<Loopback[1]>>
              \/ addr[2] = <<TargetOf(addr)[1].class>> /\ addr[3] = TargetOf(addr)[1].host
<1>. DEFINE prefix == <<<<"proxy-tcp">>>>
            stripped == StripSegmentPrefix(addr, prefix)
            rest == stripped[1]
            four == IF stripped = None THEN <<>>
                    ELSE SubSeq(rest, 1, IF Len(rest) < 4 THEN Len(rest) ELSE 4)
            parts == SubSeq(four, 1, Len(four) - 1)
            port == four[Len(four)]
            Short == parts = <<<<"tcp">>>>
            Long == /\ Len(parts) = 3
                    /\ parts[1] \in {<<c>> : c \in IPClasses \cup DnsClasses}
                    /\ HostParses(parts[1][1], parts[2])
<1>1. /\ four # <<>> /\ (Short \/ Long)
      /\ Short => TargetOf(addr) = Some(Target("ip4", <<Loopback[1]>>, port[1]))
      /\ ~Short => TargetOf(addr) = Some(Target(parts[1][1], parts[2], port[1]))
  BY Zenon DEF TargetOf
<1>2. stripped # None
  BY <1>1
<1>3. /\ Len(prefix) <= Len(addr) /\ SubSeq(addr, 1, Len(prefix)) = prefix
      /\ stripped = Some(SubSeq(addr, 2, Len(addr)))
  BY <1>2 DEF StripSegmentPrefix
<1>4. Len(addr) >= 1 /\ addr[1] = <<"proxy-tcp">> /\ addr # <<>>
  <2>1. addr \in Seq(Text) /\ Len(addr) \in Nat /\ 1 <= Len(addr) /\ SubSeq(addr, 1, 1) = prefix
    BY <1>3 DEF Address
  <2>2. \A i \in 1 .. Len(addr) : addr[i] \in Text
    BY <2>1
  <2>3. SubSeq(addr, 1, 1)[1] = addr[1]
    BY <2>1, <2>2
  <2>4. prefix[1] = <<"proxy-tcp">>
    BY DEF prefix
  <2>5. Len(addr) >= 1 /\ addr # <<>>
    BY ONLY <2>1
  <2>. QED
    BY <2>1, <2>3, <2>4, <2>5, Zenon
<1>5. /\ rest = Tail(addr) /\ rest \in Seq(Text) /\ Len(rest) \in Nat
      /\ \A i \in 1 .. Len(rest) : rest[i] = addr[i + 1]
  <2>1. rest = SubSeq(addr, 2, Len(addr))
    BY <1>3 DEF Some
  <2>2. Tail(addr) = SubSeq(addr, 2, Len(addr)) /\ Tail(addr) \in Seq(Text)
    BY ONLY <1>4, addr \in Address, TailIsSubSeq, HeadTailProperties DEF Address
  <2>3. \A i \in 1 .. Len(Tail(addr)) : Tail(addr)[i] = addr[i + 1]
    BY ONLY <1>4, addr \in Address, HeadTailProperties DEF Address
  <2>. HIDE DEF rest
  <2>. QED
    BY <2>1, <2>2, <2>3
<1>. DEFINE m == IF Len(rest) < 4 THEN Len(rest) ELSE 4
<1>6. four = SubSeq(rest, 1, m)
  BY <1>2
<1>. HIDE DEF prefix, stripped, rest, four, parts, Short, Long
<1>7. /\ four \in Seq(Text) /\ Len(four) = m
      /\ \A i \in 1 .. m : four[i] = rest[i]
  <2>1. \A i \in 1 .. m : rest[i] \in Text
    BY <1>5
  <2>2. m \in Nat
    BY <1>5
  <2>. HIDE DEF m
  <2>. QED
    BY <1>6, <2>1, <2>2, SubSeqProperties
<1>8. parts = SubSeq(four, 1, m - 1)
  BY <1>7 DEF parts
<1>9. m \in Nat \ {0}
  BY <1>1, <1>5, <1>7
<1>. HIDE DEF m
<1>10. Len(parts) = m - 1 /\ \A i \in 1 .. m - 1 : parts[i] = four[i]
  <2>1. \A i \in 1 .. m - 1 : four[i] \in Text
    BY <1>7, <1>9
  <2>. QED
    BY <1>8, <1>9, <2>1, SubSeqProperties
<1>11. Len(parts) >= 1 /\ parts[1] \in {<<c>> : c \in IPClasses \cup DnsClasses \cup {"tcp"}}
  <2>1. CASE Short
    BY <2>1 DEF Short
  <2>2. CASE Long
    BY <2>2 DEF Long
  <2>. QED
    BY <1>1, <2>1, <2>2
<1>12. rest # <<>> /\ rest[1] = parts[1]
  <2>1. 1 \in 1 .. m - 1 /\ 1 \in 1 .. m
    BY <1>9, <1>10, <1>11
  <2>2. rest[1] = parts[1]
    BY <1>7, <1>10, <2>1
  <2>3. rest # <<>>
    <3>. SUFFICES ASSUME rest = <<>>
                  PROVE  FALSE
      OBVIOUS
    <3>1. Len(rest) = 0
      OBVIOUS
    <3>. QED
      BY <1>9, <3>1 DEF m
  <2>. QED
    BY <2>2, <2>3
<1>13. /\ TargetOf(addr)[1].class \in IPClasses \cup DnsClasses
       /\ HostParses(TargetOf(addr)[1].class, TargetOf(addr)[1].host)
  <2>1. CASE Short
    <3>1. TargetOf(addr)[1].class = "ip4" /\ TargetOf(addr)[1].host = <<Loopback[1]>>
      BY <1>1, <2>1 DEF Some, Target
    <3>2. HostParses("ip4", <<Loopback[1]>>)
      BY AddressAssumption DEF HostParses
    <3>. QED
      BY <3>1, <3>2 DEF IPClasses
  <2>2. CASE ~Short
    <3>1. TargetOf(addr)[1].class = parts[1][1] /\ TargetOf(addr)[1].host = parts[2]
      BY <1>1, <2>2 DEF Some, Target
    <3>. QED
      BY <1>1, <2>2, <3>1 DEF Long
  <2>. QED
    BY <2>1, <2>2
<1>14. \/ /\ addr[2] = <<"tcp">>
          /\ TargetOf(addr)[1].class = "ip4" /\ TargetOf(addr)[1].host = <<Loopback[1]>>
       \/ addr[2] = <<TargetOf(addr)[1].class>> /\ addr[3] = TargetOf(addr)[1].host
  <2>1. \A i \in 1 .. m - 1 : parts[i] = addr[i + 1]
    <3>1. \A i \in 1 .. m - 1 : i \in 1 .. m /\ i \in 1 .. Len(rest)
      BY <1>5, <1>9 DEF m
    <3>. QED
      BY <1>5, <1>7, <1>10, <3>1
  <2>2. CASE Short
    <3>1. TargetOf(addr)[1].class = "ip4" /\ TargetOf(addr)[1].host = <<Loopback[1]>>
      BY <1>1, <2>2 DEF Some, Target
    <3>2. Len(parts) = 1 /\ parts[1] = <<"tcp">>
      BY <2>2 DEF Short
    <3>3. addr[2] = parts[1]
      <4>1. 1 \in 1 .. m - 1
        BY ONLY <1>10, <3>2
      <4>2. parts[1] = addr[1 + 1]
        BY ONLY <2>1, <4>1
      <4>. QED
        BY ONLY <4>2
    <3>. QED
      BY <3>1, <3>2, <3>3
  <2>3. CASE ~Short
    <3>1. TargetOf(addr)[1].class = parts[1][1] /\ TargetOf(addr)[1].host = parts[2]
      BY <1>1, <2>3 DEF Some, Target
    <3>2. Len(parts) = 3 /\ \E c : parts[1] = <<c>>
      BY <1>1, <2>3 DEF Long
    <3>3. addr[2] = parts[1] /\ addr[3] = parts[2]
      <4>1. m - 1 = 3
        BY ONLY <1>10, <3>2
      <4>2. 1 \in 1 .. m - 1 /\ 2 \in 1 .. m - 1
        BY ONLY <4>1
      <4>3. parts[1] = addr[1 + 1] /\ parts[2] = addr[2 + 1]
        BY ONLY <2>1, <4>2
      <4>. QED
        BY ONLY <4>3
    <3>. QED
      BY <3>1, <3>2, <3>3
  <2>. QED
    BY <2>2, <2>3
<1>. QED
  BY <1>4, <1>5, <1>11, <1>12, <1>13, <1>14

(***************************************************************************)
(* TcpStreamTarget::from_str reads the target of an address from its       *)
(* rendered form, and from the form that leaves out the protocol's name,   *)
(* for every address that names a target.                                  *)
(***************************************************************************)
THEOREM TargetRoundTrip ==
    \A addr \in Address : TargetOf(addr) # None =>
        \A a \in {addr, Tail(addr)} : TargetFromStr(Rendered(a)) = TargetOf(addr)
<1>. SUFFICES ASSUME NEW addr \in Address, TargetOf(addr) # None
              PROVE  /\ TargetFromStr(Rendered(addr)) = TargetOf(addr)
                     /\ TargetFromStr(Rendered(Tail(addr))) = TargetOf(addr)
  BY Zenon
<1>. DEFINE Bare == {<<c>> : c \in IPClasses \cup DnsClasses \cup {"tcp"}}
            name == <<"proxy-tcp">>
<1>1. addr # <<>> /\ addr[1] = name /\ Tail(addr) # <<>> /\ Tail(addr)[1] \in Bare
  BY TargetIs
<1>2. name \notin Bare /\ name \in Text
  BY AddressAssumption DEF IPClasses, DnsClasses, Text
<1>3. Tail(addr) \in Address
  BY <1>1, HeadTailProperties DEF Address
<1>. HIDE DEF Bare
<1>4. /\ FromStr(Rendered(addr)) = Some(addr)
      /\ FromStr(Rendered(Tail(addr))) = Some(Tail(addr))
  BY <1>3, AddressRoundTrip
<1>5. TargetFromStr(Rendered(addr)) = TargetOf(addr)
  BY <1>1, <1>2, <1>4 DEF TargetFromStr, Some, None, Bare
<1>6. addr = <<name>> \o Tail(addr)
  BY <1>1, HeadTailProperties DEF Address
<1>7. RenderedSegment(name) = <<"/", "proxy-tcp">>
  <2>1. "/" \in Words /\ "proxy-tcp" \in Words
    BY AddressAssumption
  <2>2. <<>> \in Text /\ name = Append(<<>>, "proxy-tcp")
    BY EmptySeq DEF Text
  <2>3. RenderedSegment(name) = <<"/">> \o Escaped("proxy-tcp")
    BY <2>1, <2>2, RenderedSegmentAppend, RenderedSegmentEmpty, Zenon
  <2>4. Escaped("proxy-tcp") = <<"proxy-tcp">>
    BY DEF Escaped, NeedsEscaped
  <2>. QED
    BY <2>1, <2>3, <2>4, ConcatPair, Zenon
<1>8. Rendered(addr) = <<"/", "proxy-tcp">> \o Rendered(Tail(addr))
  BY <1>2, <1>3, <1>6, <1>7, RenderedCons, Zenon
<1>9. TargetFromStr(Rendered(Tail(addr))) = TargetOf(addr)
  <2>. DEFINE text == Rendered(Tail(addr))
              longer == <<"/", "proxy-tcp">> \o text
  <2>1. FromStr(longer) = Some(addr) /\ FromStr(text) = Some(Tail(addr))
    BY <1>4, <1>8
  <2>. HIDE DEF text
  <2>2. TargetFromStr(text) = TargetOf(FromStr(longer)[1])
    BY <1>1, <2>1 DEF TargetFromStr, Some, None, Bare
  <2>. QED
    BY <2>1, <2>2 DEF Some, text
<1>. QED
  BY <1>5, <1>9

\* The service that find_service returns is one of the registry's that accept
\* the address.
LEMMA FoundServiceAccepts ==
    ASSUME NEW C, NEW services \in Seq(C), NEW addr, FindService(services, addr) # None
    PROVE  \E s \in C : Accepts(s, addr) /\ FindService(services, addr) = Some(s)
<1>. DEFINE accepting == {i \in DOMAIN services : Accepts(services[i], addr)}
<1>1. accepting # {} /\ FindService(services, addr) = Some(services[Min(accepting)])
  BY DEF FindService
<1>2. accepting \in SUBSET Nat
  OBVIOUS
<1>3. \E i \in accepting : \A j \in accepting : i <= j
  BY <1>1, <1>2, Least, Zenon
<1>4. Min(accepting) \in accepting
  <2>. HIDE DEF accepting
  <2>. QED
    BY <1>3 DEF Min
<1>5. \A i \in accepting : services[i] \in C /\ Accepts(services[i], addr)
  OBVIOUS
<1>. HIDE DEF accepting
<1>. QED
  BY <1>1, <1>4, <1>5
=============================================================================
