--------------------------- MODULE SourcesProofs ---------------------------
(* Theorems about Sources for every folder and every request: the walk over *)
(* the hosts, the rollback, the variables, the conf, the types.             *)
EXTENDS Sources, FiniteSetTheorems, WellFoundedInduction, TLAPS

(***************************************************************************)
(* What FoldLeft and FlattenSeq compute: a function on the sets of positions *)
(* of a sequence, and one on its positions.                                 *)
(***************************************************************************)
\* The elements of a sequence.
LEMMA Elements ==
    ASSUME NEW s, s \in Seq(ToSet(s))
    PROVE  /\ Len(s) \in Nat /\ DOMAIN s = 1..Len(s)
           /\ \A i \in 1..Len(s) : s[i] \in ToSet(s)
    BY DEF ToSet

\* Induction over the numbers, as a fact about a set of them.
LEMMA Induction ==
    ASSUME NEW Good, 0 \in Good, \A m \in Nat : m \in Good => m + 1 \in Good
    PROVE  \A m \in Nat : m \in Good
<1> DEFINE Bad == Nat \ Good
<1> SUFFICES ASSUME Bad # {} PROVE FALSE
    OBVIOUS
<1>1. PICK m \in Bad : \A n \in Bad : ~ (<<n, m>> \in OpToRel(<, Nat))
    <2>1. IsWellFoundedOn(OpToRel(<, Nat), Nat) /\ Bad \subseteq Nat /\ Bad # {}
        BY NatLessThanWellFounded
    <2> HIDE DEF Bad
    <2> QED
        BY <2>1, WFMin
<1>2. \A n \in Bad : ~ (n < m)
    <2> HIDE DEF Bad
    <2>1. m \in Nat /\ \A n \in Bad : n \in Nat
        BY DEF Bad
    <2> QED
        BY <1>1, <2>1, Zenon DEF OpToRel
<1>3. m - 1 \in Nat /\ m - 1 \notin Bad
    BY <1>2
<1>4. (m - 1) + 1 \in Good
    BY <1>3
<1> QED
    BY <1>4

LEMMA MaxIs ==
    ASSUME NEW S \in SUBSET Nat, NEW m \in S, \A n \in S : m >= n
    PROVE  Max(S) = m
<1>1. \A x \in S : (\A n \in S : x >= n) => x = m
    <2>1. \A x, y \in Nat : x >= y /\ y >= x => x = y
        OBVIOUS
    <2> QED
        BY <2>1
<1>2. Max(S) \in S /\ \A n \in S : Max(S) >= n
    BY Zenon DEF Max
<1> QED
    BY <1>1, <1>2

\* The maximum of a set of positions that has the last one.
LEMMA LastIsMax ==
    ASSUME NEW k \in Nat, NEW s \in SUBSET (1..(k + 1)), k + 1 \in s
    PROVE  Max(s) = k + 1 /\ s \ {k + 1} \in SUBSET (1..k)
<1>1. s \in SUBSET Nat /\ \A n \in s : k + 1 >= n
    OBVIOUS
<1>2. Max(s) = k + 1
    BY <1>1, MaxIs
<1>3. (1..(k + 1)) \ {k + 1} = 1..k
    OBVIOUS
<1> QED
    BY <1>2, <1>3

LEMMA LastIsNot ==
    ASSUME NEW k \in Nat, NEW s \in SUBSET (1..(k + 1)), k + 1 \notin s
    PROVE  s \in SUBSET (1..k)
<1>1. (1..(k + 1)) \ {k + 1} = 1..k
    OBVIOUS
<1> QED
    BY <1>1

\* A set of positions has a maximum.
LEMMA MaxOfPositions ==
    ASSUME NEW n \in Nat, NEW s \in SUBSET (1..n), s # {}
    PROVE  Max(s) \in s /\ Max(s) \in 1..n
<1> DEFINE Has(t) == \E m \in t : \A x \in t : m >= x
           Good == {k \in Nat : \A t \in SUBSET (1..k) : t # {} => Has(t)}
<1>1. 0 \in Good
    <2>1. \A t \in SUBSET (1..0) : t = {}
        OBVIOUS
    <2> QED
        BY <2>1, Zenon
<1>2. ASSUME NEW k \in Nat, k \in Good PROVE k + 1 \in Good
    <2> SUFFICES ASSUME NEW t \in SUBSET (1..(k + 1)), t # {} PROVE Has(t)
        OBVIOUS
    <2>1. CASE k + 1 \in t
        <3>1. \A x \in t : k + 1 >= x
            OBVIOUS
        <3> QED
            BY <2>1, <3>1
    <2>2. CASE k + 1 \notin t
        <3>1. t \in SUBSET (1..k)
            BY <2>2, LastIsNot
        <3> HIDE DEF Has
        <3> QED
            BY <1>2, <3>1
    <2> QED
        BY <2>1, <2>2
<1>3. n \in Good
    <2> HIDE DEF Good
    <2> QED
        BY <1>1, <1>2, Induction
<1>4. PICK m \in s : \A x \in s : m >= x
    BY <1>3
<1>5. Max(s) = m
    BY <1>4, MaxIs
<1> QED
    BY <1>5

\* g gives the fold of each set of positions up to k.
FoldedBy(k, base, step, g) ==
    \A s \in SUBSET (1..k) : g[s] = IF s = {} THEN base ELSE step[Max(s)][g[s \ {Max(s)}]]

LEMMA FoldMore ==
    ASSUME NEW n \in Nat, NEW V, NEW base \in V, NEW step \in [1..n -> [V -> V]],
           NEW k \in Nat, k + 1 <= n, NEW g \in [SUBSET (1..k) -> V],
           FoldedBy(k, base, step, g)
    PROVE  \E h \in [SUBSET (1..(k + 1)) -> V] : FoldedBy(k + 1, base, step, h)
<1> DEFINE P == SUBSET (1..(k + 1))
           h == [s \in P |-> IF k + 1 \in s THEN step[k + 1][g[s \ {k + 1}]] ELSE g[s]]
<1>1. ASSUME NEW s \in P, k + 1 \in s PROVE step[k + 1][g[s \ {k + 1}]] \in V
    <2>1. g[s \ {k + 1}] \in V /\ k + 1 \in 1..n
        BY <1>1, LastIsMax
    <2> QED
        BY <2>1
<1>2. ASSUME NEW s \in P, k + 1 \notin s PROVE g[s] \in V
    BY <1>2, LastIsNot
<1>3. h \in [P -> V]
    BY <1>1, <1>2
<1>4. ASSUME NEW s \in P
      PROVE  h[s] = IF s = {} THEN base ELSE step[Max(s)][h[s \ {Max(s)}]]
    <2>1. CASE k + 1 \in s
        <3>1. Max(s) = k + 1 /\ s \ {k + 1} \in P
            BY <2>1, LastIsMax
        <3>2. h[s \ {k + 1}] = g[s \ {k + 1}]
            BY <3>1
        <3> QED
            BY <2>1, <3>1, <3>2
    <2>2. CASE k + 1 \notin s
        <3>1. s \in SUBSET (1..k) /\ h[s] = g[s]
            BY <2>2, LastIsNot
        <3>2. h[s \ {Max(s)}] = g[s \ {Max(s)}]
            <4>1. s \ {Max(s)} \in P /\ k + 1 \notin s \ {Max(s)}
                BY <2>2
            <4> QED
                BY <4>1
        <3>3. g[s] = IF s = {} THEN base ELSE step[Max(s)][g[s \ {Max(s)}]]
            BY <3>1 DEF FoldedBy
        <3> QED
            BY <3>1, <3>2, <3>3
    <2> QED
        BY <2>1, <2>2
<1> HIDE DEF h
<1> QED
    BY <1>3, <1>4 DEF FoldedBy

\* A fold whose steps stay in V is there.
LEMMA FoldExists ==
    ASSUME NEW n \in Nat, NEW V, NEW base \in V, NEW step \in [1..n -> [V -> V]]
    PROVE  \E g \in [SUBSET (1..n) -> V] : FoldedBy(n, base, step, g)
<1> DEFINE Good == {k \in Nat : k <= n =>
                        \E g \in [SUBSET (1..k) -> V] : FoldedBy(k, base, step, g)}
<1>1. 0 \in Good
    <2> DEFINE none == [s \in SUBSET (1..0) |-> base]
    <2>1. SUBSET (1..0) = {{}} /\ none \in [SUBSET (1..0) -> V]
        OBVIOUS
    <2>2. FoldedBy(0, base, step, none)
        BY <2>1 DEF FoldedBy
    <2> HIDE DEF none
    <2> QED
        BY <2>1, <2>2
<1>2. ASSUME NEW k \in Nat, k \in Good PROVE k + 1 \in Good
    <2>1. CASE k + 1 <= n
        <3>0. k <= n
            BY <2>1
        <3>1. PICK g \in [SUBSET (1..k) -> V] : FoldedBy(k, base, step, g)
            BY <1>2, <3>0, Zenon
        <3>2. \E h \in [SUBSET (1..(k + 1)) -> V] : FoldedBy(k + 1, base, step, h)
            BY <2>1, <3>1, FoldMore
        <3> QED
            BY <3>2
    <2>2. CASE ~ (k + 1 <= n)
        BY <2>2
    <2> QED
        BY <2>1, <2>2
<1>3. \A k \in Nat : k \in Good
    <2> HIDE DEF Good
    <2> QED
        BY <1>1, <1>2, Induction
<1>4. n \in Good /\ n <= n
    <2> HIDE DEF Good
    <2> QED
        BY <1>3
<1> QED
    BY <1>4, Zenon

\* h satisfies the equations of a fold where it is in V.
Unfolds(n, V, base, step, h) ==
    /\ h[{}] = base
    /\ \A s \in SUBSET (1..n) : s # {} /\ h[s \ {Max(s)}] \in V =>
            h[s] = step[Max(s)][h[s \ {Max(s)}]]

\* pre is its value for each prefix of the positions.
FoldPrefixes(n, base, step, h, pre) ==
    /\ pre[0] = base /\ pre[n] = h[1..n]
    /\ \A k \in 1..n : pre[k] = step[k][pre[k - 1]]

\* What satisfies the equations of a fold while it is in V stays in V, and goes
\* through one value for each prefix of the positions.
LEMMA FoldRuns ==
    ASSUME NEW n \in Nat, NEW V, NEW base \in V, NEW step \in [1..n -> [V -> V]],
           NEW h, Unfolds(n, V, base, step, h)
    PROVE  \E pre \in [0..n -> V] : FoldPrefixes(n, base, step, h, pre)
<1> DEFINE Good == {k \in Nat : k <= n => h[1..k] \in V}
<1>0. h[1..0] = base
    <2>1. 1..0 = {}
        OBVIOUS
    <2> QED
        BY <2>1 DEF Unfolds
<1>1. 0 \in Good
    BY <1>0
<1>2. ASSUME NEW k \in Nat, k + 1 <= n, h[1..k] \in V
      PROVE  h[1..(k + 1)] = step[k + 1][h[1..k]]
    <2>1. k + 1 \in 1..(k + 1) /\ (1..(k + 1)) \ {k + 1} = 1..k
        OBVIOUS
    <2>3. Max(1..(k + 1)) = k + 1
        <3>1. 1..(k + 1) \in SUBSET (1..(k + 1)) /\ k + 1 \in 1..(k + 1)
            OBVIOUS
        <3> QED
            BY <3>1, LastIsMax
    <2>2. 1..(k + 1) \in SUBSET (1..n)
        BY <1>2
    <2> HIDE DEF Good
    <2> QED
        BY <2>1, <2>2, <2>3, <1>2 DEF Unfolds
<1>3. ASSUME NEW k \in Nat, k \in Good PROVE k + 1 \in Good
    <2>1. k + 1 <= n => h[1..k] \in V /\ k + 1 \in 1..n
        BY <1>3
    <2> QED
        BY <2>1, <1>2
<1>4. \A k \in Nat : k \in Good
    <2> HIDE DEF Good
    <2> QED
        BY <1>1, <1>3, Induction
<1>5. \A k \in 0..n : h[1..k] \in V
    BY <1>4
<1>6. ASSUME NEW k \in 1..n PROVE h[1..k] = step[k][h[1..(k - 1)]]
    <2>1. k - 1 \in Nat /\ k - 1 \in 0..n /\ (k - 1) + 1 = k
        OBVIOUS
    <2>2. h[1..(k - 1)] \in V
        BY <2>1, <1>5
    <2>3. h[1..((k - 1) + 1)] = step[(k - 1) + 1][h[1..(k - 1)]]
        BY <2>1, <2>2, <1>2
    <2> QED
        BY <2>1, <2>3
<1> DEFINE pre == [k \in 0..n |-> h[1..k]]
<1>7. pre \in [0..n -> V] /\ FoldPrefixes(n, base, step, h, pre)
    <2>1. \A k \in 1..n : k - 1 \in 0..n /\ k \in 0..n
        OBVIOUS
    <2> QED
        BY <1>0, <1>5, <1>6, <2>1 DEF FoldPrefixes
<1> HIDE DEF pre
<1> QED
    BY <1>7
-----------------------------------------------------------------------------
\* f joins the first i sequences, for i up to k.
Joins(k, seqs, f) == \A i \in 1..k : f[i] = IF i = 1 THEN seqs[i] ELSE f[i - 1] \o seqs[i]

Occurs(u, s) == \E j \in DOMAIN s : s[j] = u

LEMMA OccursInBoth ==
    ASSUME NEW U, NEW s \in Seq(U), NEW t \in Seq(U), NEW u, Occurs(u, s) \/ Occurs(u, t)
    PROVE  Occurs(u, s \o t)
<1>1. CASE Occurs(u, s)
    <2>1. PICK j \in 1..Len(s) : s[j] = u
        BY <1>1 DEF Occurs
    <2>2. j \in 1..Len(s \o t) /\ (s \o t)[j] = u
        BY <2>1
    <2> QED
        BY <2>2 DEF Occurs
<1>2. CASE Occurs(u, t)
    <2>1. PICK j \in 1..Len(t) : t[j] = u
        BY <1>2 DEF Occurs
    <2>2. Len(s) + j \in 1..Len(s \o t) /\ (s \o t)[Len(s) + j] = u
        BY <2>1
    <2> QED
        BY <2>2 DEF Occurs
<1> QED
    BY <1>1, <1>2

LEMMA JoinExists ==
    ASSUME NEW n \in Nat, NEW U, NEW seqs \in [1..n -> Seq(U)]
    PROVE  \E f \in [1..n -> Seq(U)] : Joins(n, seqs, f)
<1> DEFINE Good == {k \in Nat : k <= n => \E f \in [1..k -> Seq(U)] : Joins(k, seqs, f)}
<1>1. 0 \in Good
    <2>1. 1..0 = {}
        OBVIOUS
    <2>2. \A f : Joins(0, seqs, f)
        BY <2>1 DEF Joins
    <2>3. [i \in 1..0 |-> <<>>] \in [1..0 -> Seq(U)]
        BY <2>1
    <2> QED
        BY <2>2, <2>3
<1>2. ASSUME NEW k \in Nat, k \in Good PROVE k + 1 \in Good
    <2>1. CASE k + 1 <= n
        <3>0. k <= n
            BY <2>1
        <3>1. PICK f \in [1..k -> Seq(U)] : Joins(k, seqs, f)
            BY <1>2, <3>0, Zenon
        <3> DEFINE next == IF k + 1 = 1 THEN seqs[k + 1] ELSE f[k] \o seqs[k + 1]
                   g == [i \in 1..(k + 1) |-> IF i = k + 1 THEN next ELSE f[i]]
        <3>2. next \in Seq(U)
            <4>1. seqs[k + 1] \in Seq(U) /\ (k + 1 # 1 => f[k] \in Seq(U))
                BY <2>1
            <4> QED
                BY <4>1
        <3>3. g \in [1..(k + 1) -> Seq(U)]
            <4> HIDE DEF next
            <4>1. \A i \in 1..(k + 1) : i # k + 1 => i \in 1..k
                OBVIOUS
            <4> QED
                BY <3>2, <4>1
        <3>4. ASSUME NEW i \in 1..(k + 1)
              PROVE  g[i] = IF i = 1 THEN seqs[i] ELSE g[i - 1] \o seqs[i]
            <4>1. CASE i = k + 1
                <5>1. i # 1 => i - 1 = k /\ k \in 1..(k + 1) /\ k # k + 1
                    BY <4>1
                <5>2. i # 1 => g[i - 1] = f[k]
                    BY <5>1
                <5> QED
                    BY <4>1, <5>2
            <4>2. CASE i # k + 1
                <5>1. i \in 1..k /\ (i # 1 => i - 1 \in 1..(k + 1) /\ i - 1 # k + 1)
                    BY <4>2
                <5>2. g[i] = f[i] /\ (i # 1 => g[i - 1] = f[i - 1])
                    BY <4>2, <5>1
                <5> HIDE DEF g
                <5> QED
                    BY <3>1, <5>1, <5>2 DEF Joins
            <4> QED
                BY <4>1, <4>2
        <3> HIDE DEF g
        <3>5. Joins(k + 1, seqs, g)
            BY <3>4 DEF Joins
        <3> QED
            BY <3>3, <3>5
    <2>2. CASE ~ (k + 1 <= n)
        BY <2>2
    <2> QED
        BY <2>1, <2>2
<1>3. n \in Good
    <2> HIDE DEF Good
    <2> QED
        BY <1>1, <1>2, Induction
<1>4. n <= n
    OBVIOUS
<1> QED
    BY <1>3, <1>4, Zenon

\* FlattenSeq is where the joining ends.
LEMMA FlattenJoins ==
    ASSUME NEW n \in Nat \ {0}, NEW U, NEW seqs \in [1..n -> Seq(U)]
    PROVE  \E f : Joins(n, seqs, f) /\ FlattenSeq(seqs) = f[n]
<1>0. seqs \in Seq(Seq(U)) /\ Len(seqs) = n
    OBVIOUS
<1>1. PICK f \in [1..n -> Seq(U)] : Joins(n, seqs, f)
    BY JoinExists
<1> DEFINE Is(h) == h = [i \in 1..n |-> IF i = 1 THEN seqs[i] ELSE h[i - 1] \o seqs[i]]
           h == CHOOSE g : Is(g)
<1>2. Is(f)
    BY <1>1 DEF Joins
<1>3. Is(h)
    <2> HIDE DEF Is
    <2> QED
        BY <1>2
<1>4. FlattenSeq(seqs) = h[n]
    BY <1>0 DEF FlattenSeq
<1> HIDE DEF h
<1>5. \A i \in 1..n : h[i] = IF i = 1 THEN seqs[i] ELSE h[i - 1] \o seqs[i]
    BY <1>3
<1> QED
    BY <1>4, <1>5, Zenon DEF Joins

\* The elements of all the sequences occur in the one.
LEMMA FlattenIs ==
    ASSUME NEW n \in Nat \ {0}, NEW U, NEW seqs \in [1..n -> Seq(U)]
    PROVE  /\ FlattenSeq(seqs) \in Seq(U)
           /\ \A u : (\E i \in 1..n : Occurs(u, seqs[i])) => Occurs(u, FlattenSeq(seqs))
<1>1. PICK h : Joins(n, seqs, h) /\ FlattenSeq(seqs) = h[n]
    BY FlattenJoins
<1>2. \A i \in 1..n : h[i] = IF i = 1 THEN seqs[i] ELSE h[i - 1] \o seqs[i]
    BY <1>1, Zenon DEF Joins
<1> DEFINE Good == {k \in Nat : k \in 1..n =>
                        /\ h[k] \in Seq(U)
                        /\ \A u : (\E i \in 1..k : Occurs(u, seqs[i])) => Occurs(u, h[k])}
<1>3. 0 \in Good
    OBVIOUS
<1>4. ASSUME NEW k \in Nat, k \in Good PROVE k + 1 \in Good
    <2> SUFFICES ASSUME k + 1 \in 1..n
                 PROVE  /\ h[k + 1] \in Seq(U)
                        /\ \A u : (\E i \in 1..(k + 1) : Occurs(u, seqs[i])) =>
                                Occurs(u, h[k + 1])
        OBVIOUS
    <2>1. h[k + 1] = IF k + 1 = 1 THEN seqs[k + 1] ELSE h[(k + 1) - 1] \o seqs[k + 1]
        BY <1>2, Zenon
    <2>2. seqs[k + 1] \in Seq(U)
        OBVIOUS
    <2>3. CASE k = 0
        <3>1. h[k + 1] = seqs[k + 1] /\ \A i \in 1..(k + 1) : i = k + 1
            BY <2>1, <2>3
        <3> QED
            BY <2>2, <3>1
    <2>4. CASE k # 0
        <3>1. k \in 1..n /\ (k + 1) - 1 = k /\ k + 1 # 1
            BY <2>4
        <3>2. /\ h[k] \in Seq(U)
              /\ \A u : (\E i \in 1..k : Occurs(u, seqs[i])) => Occurs(u, h[k])
            BY <1>4, <3>1, Zenon
        <3>3. h[k + 1] = h[k] \o seqs[k + 1]
            BY <2>1, <3>1
        <3>4. ASSUME NEW u, NEW i \in 1..(k + 1), Occurs(u, seqs[i])
              PROVE  Occurs(u, h[k + 1])
            <4>1. i = k + 1 \/ i \in 1..k
                OBVIOUS
            <4>2. Occurs(u, seqs[k + 1]) \/ Occurs(u, h[k])
                BY <4>1, <3>2, <3>4
            <4> HIDE DEF Good
            <4> QED
                BY <4>2, <3>2, <3>3, <2>2, OccursInBoth
        <3>5. h[k] \o seqs[k + 1] \in Seq(U)
            BY <2>2, <3>2
        <3> QED
            BY <3>3, <3>4, <3>5
    <2> QED
        BY <2>3, <2>4
<1>5. n \in Good
    <2> HIDE DEF Good
    <2> QED
        BY <1>3, <1>4, Induction
<1>6. n \in 1..n
    OBVIOUS
<1> QED
    BY <1>1, <1>5, <1>6
-----------------------------------------------------------------------------
(***************************************************************************)
(* allocate_address is right for every address width and every subnet: the  *)
(* walk neither leaves the subnet nor wraps, and finds the lowest host that  *)
(* check accepts and nobody uses.                                           *)
(***************************************************************************)

\* What does not wrap.
LEMMA NoWrap ==
    ASSUME NEW n \in 0..(Span - 1)
    PROVE  n % Span = n
<1>1. Span \in Nat \ {0}
    BY SpanAssumption
<1> QED
    BY <1>1

\* A multiple k of z below the multiple m leaves room for z.
LEMMA RoomBelow ==
    ASSUME NEW z \in Nat \ {0}, NEW j \in Int, NEW k \in Int, z * j < z * k
    PROVE  z * j + z <= z * k
<1>1. j < k
    OBVIOUS
<1>2. j + 1 <= k
    BY <1>1
<1> QED
    BY <1>2, z * (j + 1) <= z * k

\* Division with remainder.
LEMMA Division ==
    ASSUME NEW a \in Nat, NEW z \in Nat \ {0}
    PROVE  /\ a % z \in 0..(z - 1)
           /\ a \div z \in Nat
           /\ a = z * (a \div z) + (a % z)
    OBVIOUS

\* The multiple of z at or below a is unique.
LEMMA Multiple ==
    ASSUME NEW a \in Nat, NEW z \in Nat \ {0}, NEW k \in Nat,
           z * k <= a, a < z * k + z
    PROVE  Masked(a, z) = z * k
<1> DEFINE q == a \div z
<1>1. /\ a % z \in 0..(z - 1) /\ q \in Nat /\ a = z * q + (a % z)
    BY Division
<1> HIDE DEF q
<1>2. z * q + z > z * k /\ z * k + z > z * q
    BY <1>1
<1>3. ~ (q < k)
    <2> SUFFICES ASSUME q < k PROVE FALSE
        OBVIOUS
    <2>1. q + 1 <= k
        BY <1>1
    <2>2. z * (q + 1) <= z * k
        BY <2>1, <1>1
    <2> QED
        BY <2>2, <1>1, <1>2
<1>4. ~ (k < q)
    <2> SUFFICES ASSUME k < q PROVE FALSE
        OBVIOUS
    <2>1. k + 1 <= q
        BY <1>1
    <2>2. z * (k + 1) <= z * q
        BY <2>1, <1>1
    <2> QED
        BY <2>2, <1>1, <1>2
<1>5. q = k
    BY <1>1, <1>3, <1>4
<1> QED
    BY <1>1, <1>5 DEF Masked

\* A subnet is aligned and lies in the address range.
LEMMA SubnetType ==
    ASSUME NEW s \in Subnets
    PROVE  /\ s.addr \in Word /\ s.size \in 1..Span /\ Span \in Nat \ {0}
           /\ s.addr + s.size <= Span
           /\ \E k \in Nat : s.addr = s.size * k
<1>0. Span \in Nat \ {0}
    BY SpanAssumption
<1>1. PICK c \in Cidr : s = SubnetOf(c)
    BY DEF Subnets
<1> DEFINE z == c.size
           a == c.addr
<1>2. a \in 0..(Span - 1) /\ z \in 1..Span /\ Span % z = 0
    BY <1>1 DEF Cidr, Word, Sizes
<1>3. s.addr = Masked(a, z) /\ s.size = z
    BY <1>1 DEF SubnetOf
<1> HIDE DEF a, z
<1>4. /\ a % z \in 0..(z - 1) /\ a \div z \in Nat /\ a = z * (a \div z) + (a % z)
    <2>1. a \in Nat /\ z \in Nat \ {0}
        BY <1>0, <1>2
    <2> QED
        BY <2>1, Division
<1>5. Span \div z \in Nat /\ Span = z * (Span \div z)
    <2>1. Span \div z \in Nat /\ Span = z * (Span \div z) + (Span % z)
        BY <1>0, <1>2, Division
    <2> QED
        BY <2>1, <1>0, <1>2
<1>6. s.addr = z * (a \div z)
    BY <1>3, <1>4, <1>2 DEF Masked
<1>7. s.addr \in Nat /\ s.addr <= a
    BY <1>6, <1>4, <1>2
<1>8. s.addr + z <= Span
    <2>1. z * (a \div z) < z * (Span \div z)
        BY <1>5, <1>6, <1>7, <1>2
    <2>2. z * (a \div z) + z <= z * (Span \div z)
        <3>1. z \in Nat \ {0} /\ a \div z \in Int /\ Span \div z \in Int
            BY <1>4, <1>5, <1>2
        <3> QED
            BY <2>1, <3>1, RoomBelow
    <2> QED
        BY <2>2, <1>5, <1>6
<1> QED
    BY <1>0, <1>2, <1>3, <1>4, <1>6, <1>7, <1>8 DEF Word

\* An address is in the subnet exactly from the network to the broadcast
\* address.
LEMMA InSubnetIsInterval ==
    ASSUME NEW s \in Subnets, NEW a \in Word
    PROVE  InSubnet(s, a) <=> a \in s.addr..(s.addr + s.size - 1)
<1>1. /\ s.addr \in Word /\ s.size \in 1..Span /\ Span \in Nat \ {0}
      /\ s.addr + s.size <= Span
    BY SubnetType
<1>2. PICK k \in Nat : s.addr = s.size * k
    BY SubnetType
<1> DEFINE z == s.size
<1>3. z \in Nat \ {0} /\ a \in Nat
    BY <1>1 DEF Word
<1>4. ASSUME a \in s.addr..(s.addr + z - 1) PROVE InSubnet(s, a)
    <2>1. z * k <= a /\ a < z * k + z
        BY <1>1, <1>2, <1>3, <1>4 DEF Word
    <2>2. Masked(a, z) = z * k
        BY <2>1, <1>3, Multiple
    <2> QED
        BY <2>2, <1>2 DEF InSubnet
<1>5. ASSUME InSubnet(s, a) PROVE a \in s.addr..(s.addr + z - 1)
    <2>1. a - (a % z) = s.addr
        BY <1>5 DEF InSubnet, Masked
    <2>2. a % z \in 0..(z - 1)
        BY <1>3, Division
    <2> QED
        BY <2>1, <2>2, <1>1, <1>3 DEF Word
<1> QED
    BY <1>4, <1>5

\* The hosts check accepts are those the walk goes through.
LEMMA HostsAreWalked ==
    ASSUME NEW s \in Subnets
    PROVE  /\ HostsOf(s) = (s.addr + 1)..(s.addr + s.size - 2)
           /\ s.size > 2 => FirstHost(s) = s.addr + 1 /\ LastHost(s) = s.addr + s.size - 2
<1>1. /\ s.addr \in 0..(Span - 1) /\ s.size \in 1..Span /\ Span \in Nat \ {0}
      /\ s.addr + s.size <= Span
    BY SubnetType DEF Word
<1>2. HostsOf(s) = (s.addr + 1)..(s.addr + s.size - 2)
    <2>1. \A a \in 0..(Span - 1) : InSubnet(s, a) <=> a \in s.addr..(s.addr + s.size - 1)
        BY InSubnetIsInterval DEF Word
    <2> QED
        BY <2>1, <1>1 DEF HostsOf, Broadcast, Word
<1>3. ASSUME s.size > 2
      PROVE  FirstHost(s) = s.addr + 1 /\ LastHost(s) = s.addr + s.size - 2
    <2>1. \A n \in 0..(Span - 1) : n % Span = n
        BY NoWrap
    <2>2. s.addr + 1 \in 0..(Span - 1) /\ s.addr + s.size - 1 - 1 \in 0..(Span - 1)
        BY <1>1, <1>3
    <2> QED
        BY <2>1, <2>2, <1>1 DEF FirstHost, LastHost, Broadcast, Wrap
<1> QED
    BY <1>2, <1>3
-----------------------------------------------------------------------------
(***************************************************************************)
(* The loop invariant: every host below the one looked at is in use.        *)
(***************************************************************************)
WalkInv ==
    /\ subnet \in Subnets
    /\ phase \in {"idle", "walk", "found", "full"}
    /\ phase \in {"walk", "found"} =>
        /\ host \in HostsOf(subnet)
        /\ subnet.size > 2
        /\ \A g \in HostsOf(subnet) : g < host => g \in used
    /\ phase = "found" => host \notin used
    /\ phase = "full" => HostsOf(subnet) \subseteq used

\* WalkInv gives the property.
LEMMA WalkInvSuffices == WalkInv => AllocatesLowest
<1> SUFFICES ASSUME WalkInv PROVE AllocatesLowest
    OBVIOUS
<1>1. /\ subnet.addr \in 0..(Span - 1) /\ subnet.size \in 1..Span
    BY SubnetType DEF WalkInv, Word
<1>2. HostsOf(subnet) \subseteq Int
    BY <1>1, SpanAssumption DEF HostsOf, Word
<1> QED
    BY <1>2 DEF WalkInv, AllocatesLowest

\* The first host of a subnet that has any.
LEMMA BeginKeeps ==
    ASSUME NEW s \in Subnets, NEW taken, Begin(s, taken), WalkInv
    PROVE  WalkInv'
<1>1. /\ HostsOf(s) = (s.addr + 1)..(s.addr + s.size - 2)
      /\ s.size > 2 => FirstHost(s) = s.addr + 1 /\ LastHost(s) = s.addr + s.size - 2
    BY HostsAreWalked
<1>2. s.addr \in 0..(Span - 1) /\ s.size \in 1..Span /\ Span \in Nat \ {0}
    BY SubnetType DEF Word
<1>3. subnet' = s /\ used' = taken
    BY DEF Begin
<1>4. CASE s.size <= 2
    <2>1. HostsOf(s) = {}
        BY <1>1, <1>2, <1>4
    <2> QED
        BY <2>1, <1>3, <1>4 DEF WalkInv, Begin, HostsOf, InSubnet, Broadcast
<1>5. CASE s.size > 2
    <2>1. phase' = "walk" /\ host' = s.addr + 1
        BY <1>1, <1>2, <1>5 DEF Begin
    <2>2. host' \in HostsOf(s) /\ \A g \in HostsOf(s) : ~ (g < host')
        BY <2>1, <1>1, <1>2, <1>5
    <2> QED
        BY <2>1, <2>2, <1>3, <1>5 DEF WalkInv, HostsOf, InSubnet, Broadcast
<1> QED
    BY <1>2, <1>4, <1>5

\* One iteration goes to the next host, or has seen them all.
LEMMA WalkKeeps ==
    ASSUME WalkInv, Take \/ Step
    PROVE  WalkInv'
<1>1. /\ HostsOf(subnet) = (subnet.addr + 1)..(subnet.addr + subnet.size - 2)
      /\ subnet.size > 2 => LastHost(subnet) = subnet.addr + subnet.size - 2
    BY HostsAreWalked DEF WalkInv
<1>2. /\ subnet.addr \in 0..(Span - 1) /\ subnet.size \in 1..Span /\ Span \in Nat \ {0}
      /\ subnet.addr + subnet.size <= Span
    BY SubnetType DEF WalkInv, Word
<1>3. /\ phase = "walk" /\ subnet' = subnet /\ used' = used
      /\ HostsOf(subnet') = HostsOf(subnet)
    BY DEF Take, Step, HostsOf, InSubnet, Broadcast
<1>4. CASE Take
    BY <1>3, <1>4 DEF WalkInv, Take
<1>5. CASE Step
    <2>1. /\ host \in (subnet.addr + 1)..(subnet.addr + subnet.size - 2)
          /\ \A g \in HostsOf(subnet) : g <= host => g \in used
        BY <1>1, <1>2, <1>3, <1>5 DEF WalkInv, Step
    <2>2. CASE host = LastHost(subnet)
        <3>1. phase' = "full" /\ HostsOf(subnet) \subseteq used
            BY <2>1, <2>2, <1>1, <1>2, <1>3, <1>5 DEF WalkInv, Step
        <3> QED
            BY <3>1, <1>3 DEF WalkInv
    <2>3. CASE host # LastHost(subnet)
        <3>1. phase' = "walk" /\ host' = Wrap(host + 1)
            BY <2>3, <1>5 DEF Step
        <3>2. host + 1 \in 0..(Span - 1) /\ host + 1 <= subnet.addr + subnet.size - 2
            BY <2>1, <2>3, <1>1, <1>2, <1>3 DEF WalkInv
        <3>3. host' = host + 1
            <4>1. (host + 1) % Span = host + 1
                BY <3>2, NoWrap
            <4> QED
                BY <3>1, <4>1 DEF Wrap
        <3>4. /\ host' \in HostsOf(subnet)
              /\ \A g \in HostsOf(subnet) : g < host' => g \in used
            BY <3>2, <3>3, <2>1, <1>1, <1>2
        <3> QED
            BY <3>1, <3>4, <1>3 DEF WalkInv
    <2> QED
        BY <2>2, <2>3
<1> QED
    BY <1>4, <1>5

LEMMA WalkInvInit == Init => WalkInv
<1> SUFFICES ASSUME Init PROVE WalkInv
    OBVIOUS
<1>1. phase = "idle" /\ subnet = [addr |-> 0, size |-> Span]
    BY DEF Init, WalkInit
<1>2. Span \in Sizes /\ 0 \in Word /\ Masked(0, Span) = 0
    BY SpanAssumption DEF Sizes, Word, Masked
<1>3. [addr |-> 0, size |-> Span] \in Cidr
    BY <1>2 DEF Cidr
<1>4. SubnetOf([addr |-> 0, size |-> Span]) = [addr |-> 0, size |-> Span]
    BY <1>2 DEF SubnetOf
<1> QED
    BY <1>1, <1>3, <1>4 DEF WalkInv, Subnets

LEMMA WalkInvHolds == Spec => []WalkInv
<1>1. Init => WalkInv
    BY WalkInvInit
<1>2. WalkInv /\ [Next]_vars => WalkInv'
    <2> SUFFICES ASSUME WalkInv, [Next]_vars PROVE WalkInv'
        OBVIOUS
    <2>1. CASE UNCHANGED walk
        BY <2>1 DEF walk, WalkInv, HostsOf, InSubnet, Broadcast
    <2>2. CASE Decide
        <3>1. CASE /\ table["subnet"] \in Cidr
                   /\ \E taken : Begin(SubnetOf(table["subnet"]), taken)
            <4>1. SubnetOf(table["subnet"]) \in Subnets
                BY <3>1 DEF Subnets
            <4> QED
                BY <4>1, <3>1, BeginKeeps
        <3>2. CASE UNCHANGED walk
            BY <3>2, <2>1
        <3> QED
            BY <2>2, <3>1, <3>2 DEF Decide, Refuse, Return, Answer
    <2>3. CASE Walk
        BY <2>3, WalkKeeps DEF Walk
    <2>4. CASE UNCHANGED vars \/ Ended
        BY <2>1, <2>4 DEF Ended, vars
    <2>5. CASE LoadVars \/ LoadPartials \/ Find \/ Full \/ Author \/ Check \/ Compile
        <3>1. UNCHANGED walk
            BY <2>5 DEF LoadVars, LoadPartials, Find, Delete, Full, Author, Check,
                        Compile, Refuse, Fail, Return, Answer
        <3> QED
            BY <3>1, <2>1
    <2> QED
        BY <2>2, <2>3, <2>4, <2>5 DEF Next, Function
<1> QED
    BY <1>1, <1>2, PTL DEF Spec

\* AllocatesLowest for every width of an address, every subnet and every
\* folder: alloc.cpp finds the lowest address that check.cpp accepts.
THEOREM AllocationCorrect == Spec => []AllocatesLowest
    BY WalkInvHolds, WalkInvSuffices, PTL
-----------------------------------------------------------------------------
(***************************************************************************)
(* The folder: what the command has changed is one file, and Rollback takes  *)
(* just that back.                                                          *)
(***************************************************************************)
Unsuccessful == {"refused", "failed", "present", "absent"}

\* The folder with the new file, or without the old one.
Changed ==
    IF request.op = "add"
    THEN /\ fpath \notin DOMAIN before
         /\ \E lines : folder = With(before, fpath, lines)
    ELSE /\ fpath \in DOMAIN before
         /\ saved = before[fpath]
         /\ folder = Without(before, fpath)

FolderInv ==
    /\ request.op \in {"add", "remove"}
    /\ DOMAIN before \subseteq OldName
    /\ before = [f \in DOMAIN before |-> before[f]]
    /\ fpath \in {None} \cup FileName
    /\ IF fpath = None \/ reply \in Unsuccessful THEN folder = before ELSE Changed
    /\ pc # "done" => reply = "none"
    /\ pc \in {"decide", "walk"} => request.op = "add" /\ fpath = None
    /\ pc = "find" => request.op = "remove" /\ fpath = None

\* An error return puts the folder back.
LEMMA RollbackRestores ==
    ASSUME FolderInv, pc # "done"
    PROVE  Rollback = before
<1>1. reply \notin Unsuccessful
    BY DEF FolderInv, Unsuccessful
<1>2. CASE fpath = None
    BY <1>2 DEF FolderInv, Rollback
<1>3. CASE fpath # None /\ request.op = "add"
    <2>1. PICK lines : folder = With(before, fpath, lines)
        BY <1>1, <1>3 DEF FolderInv, Changed
    <2>2. fpath \notin DOMAIN before
        BY <1>1, <1>3 DEF FolderInv, Changed
    <2>3. /\ DOMAIN folder \ {fpath} = DOMAIN before
          /\ \A f \in DOMAIN before : folder[f] = before[f]
        BY <2>1, <2>2 DEF With
    <2>4. Rollback = [f \in DOMAIN folder \ {fpath} |-> folder[f]]
        BY <1>3 DEF Rollback, Without
    <2>5. Rollback = [f \in DOMAIN before |-> before[f]]
        BY <2>3, <2>4
    <2> QED
        BY <2>5 DEF FolderInv
<1>4. CASE fpath # None /\ request.op = "remove"
    <2>1. /\ fpath \in DOMAIN before /\ saved = before[fpath]
          /\ folder = [f \in DOMAIN before \ {fpath} |-> before[f]]
        BY <1>1, <1>4 DEF FolderInv, Changed, Without
    <2>2. Rollback = With(folder, fpath, saved)
        BY <1>4 DEF Rollback
    <2>3. Rollback = [f \in DOMAIN before |-> before[f]]
        BY <2>1, <2>2 DEF With
    <2> QED
        BY <2>3 DEF FolderInv
<1> QED
    BY <1>2, <1>3, <1>4 DEF FolderInv

LEMMA ReturnKeeps ==
    ASSUME FolderInv, pc # "done", NEW r \in {"refused", "failed"}, Return(r)
    PROVE  FolderInv'
<1>1. folder' = before
    BY RollbackRestores DEF Return
<1> QED
    BY <1>1 DEF FolderInv, Return, given, Unsuccessful

\* There is room for one more name.
LEMMA RoomForOne ==
    ASSUME NEW dir, DOMAIN dir \subseteq OldName, NEW n \in OrderPrefixes(dir)
    PROVE  n \in Nat /\ n + 10 \in FileName
<1>1. n = 0 \/ n \in 0..(LastPrefix - 10)
    BY DEF OrderPrefixes, OldName
<1> QED
    BY <1>1 DEF FileName, LastPrefix

LEMMA OldNames == OldName \subseteq FileName
    BY DEF OldName, FileName, LastPrefix

\* The prefix of the new file is above all others: no file has it.
LEMMA AuthorKeeps ==
    ASSUME FolderInv, Author
    PROVE  FolderInv'
<1>1. CASE Fail
    BY <1>1, ReturnKeeps DEF Author, Fail
<1>2. CASE ~ Fail
    <2>1. PICK highest \in OrderPrefixes(folder) :
            /\ IsHighest(folder, highest)
            /\ fpath' = highest + 10
            /\ folder' = With(folder, fpath', NewPartial)
            /\ pc' = "vars"
            /\ UNCHANGED <<given, saved, network, peers, output, walk>>
        BY <1>2 DEF Author
    <2>2. /\ pc = "walk" /\ folder = before /\ request.op = "add" /\ reply = "none"
        BY DEF Author, FolderInv
    <2>3. DOMAIN folder \subseteq OldName
        BY <2>2 DEF FolderInv
    <2>4. highest \in Nat /\ highest + 10 \in FileName
        BY <2>3, RoomForOne
    <2>5. highest + 10 \notin DOMAIN folder
        <3> SUFFICES ASSUME highest + 10 \in DOMAIN folder PROVE FALSE
            OBVIOUS
        <3>1. highest + 10 \in OrderPrefixes(folder)
            BY <2>4 DEF OrderPrefixes, Unnumbered, FileName
        <3>2. highest + 10 <= highest
            BY <2>1, <3>1 DEF IsHighest
        <3> QED
            BY <3>2, <2>4
    <2>6. fpath' \in FileName /\ fpath' # None
        BY <2>1, <2>4, CasesAssumption
    <2>7. UNCHANGED <<before, request, reply>>
        BY <2>1 DEF given, output
    <2>8. Changed'
        BY <2>1, <2>2, <2>5, <2>7 DEF Changed
    <2> QED
        BY <2>1, <2>2, <2>6, <2>7, <2>8 DEF FolderInv, Unsuccessful
<1> QED
    BY <1>1, <1>2

LEMMA DeleteKeeps ==
    ASSUME FolderInv, pc = "find", NEW f, Delete(f)
    PROVE  FolderInv'
<1>1. CASE Fail
    BY <1>1, ReturnKeeps DEF Fail
<1>2. CASE ~ Fail
    <2>1. /\ f \in DOMAIN folder /\ fpath' = f /\ saved' = folder[f]
          /\ folder' = Without(folder, f)
          /\ pc' = "vars"
          /\ UNCHANGED <<before, request, reply>>
        BY <1>2 DEF Delete, given, output
    <2>2. folder = before /\ request.op = "remove" /\ reply = "none"
        BY DEF FolderInv
    <2>3. Changed'
        BY <2>1, <2>2 DEF Changed
    <2>4. f \in FileName /\ f # None
        BY <2>1, <2>2, CasesAssumption, OldNames DEF FolderInv
    <2> QED
        BY <2>1, <2>2, <2>3, <2>4 DEF FolderInv, Unsuccessful
<1> QED
    BY <1>1, <1>2

\* What leaves the folder alone.
LEMMA FolderStays ==
    ASSUME FolderInv, UNCHANGED <<given, disk>>,
           \/ UNCHANGED <<pc, reply>>
           \/ /\ pc # "done" /\ pc' # "done" /\ UNCHANGED reply
              /\ pc' \in {"decide", "walk"} => request.op = "add" /\ fpath = None
              /\ pc' = "find" => request.op = "remove" /\ fpath = None
           \/ pc # "done" /\ pc' = "done" /\ reply' \in {"added", "removed"}
           \/ /\ pc \in {"decide", "find"} /\ pc' = "done"
              /\ reply' \in {"present", "absent"}
    PROVE  FolderInv'
<1>1. UNCHANGED <<before, request, folder, fpath, saved>>
    BY DEF given, disk
<1>2. Changed' = Changed
    BY <1>1 DEF Changed
<1> QED
    BY <1>1, <1>2 DEF FolderInv, Unsuccessful

LEMMA FolderInvHolds == Spec => []FolderInv
<1>1. Init => FolderInv
    BY CasesAssumption DEF Init, FolderInv, Unsuccessful
<1>2. FolderInv /\ [Next]_vars => FolderInv'
    <2> SUFFICES ASSUME FolderInv, [Next]_vars PROVE FolderInv'
        OBVIOUS
    <2>1. CASE Return("refused") /\ pc # "done"
        BY <2>1, ReturnKeeps
    <2>2. CASE Return("failed") /\ pc # "done"
        BY <2>2, ReturnKeeps
    <2>3. CASE UNCHANGED command
        BY <2>3, FolderStays DEF command, output
    <2>4. CASE LoadVars
        BY <2>4, <2>1, FolderStays DEF LoadVars, Refuse, disk, output
    <2>5. CASE LoadPartials
        <3>1. CASE Refuse
            BY <3>1, <2>1, <2>5 DEF LoadPartials, Refuse
        <3>2. CASE ~ Refuse
            <4>1. /\ pc = "partials" /\ UNCHANGED <<given, disk, reply>>
                  /\ pc' = IF fpath # None THEN "check"
                           ELSE IF request.op = "add" THEN "decide" ELSE "find"
                BY <2>5, <3>2 DEF LoadPartials, output
            <4>2. request.op \in {"add", "remove"}
                BY DEF FolderInv
            <4> QED
                BY <4>1, <4>2, FolderStays
        <3> QED
            BY <3>1, <3>2
    <2>6. CASE Decide
        <3>1. CASE Refuse
            BY <3>1, <2>1, <2>6 DEF Decide, Refuse
        <3>2. CASE Answer("present")
            BY <3>2, <2>6, FolderStays DEF Decide, Answer
        <3>3. CASE pc' = "walk" /\ UNCHANGED <<given, disk, output>>
            <4>1. request.op = "add" /\ fpath = None /\ pc = "decide"
                BY <2>6 DEF Decide, FolderInv
            <4> QED
                BY <3>3, <4>1, FolderStays DEF output
        <3> QED
            BY <2>6, <3>1, <3>2, <3>3 DEF Decide
    <2>7. CASE Find
        <3>1. CASE Refuse
            BY <3>1, <2>1, <2>7 DEF Find, Refuse
        <3>2. CASE Answer("absent")
            BY <3>2, <2>7, FolderStays DEF Find, Answer
        <3>3. CASE \E i \in DOMAIN partials : Delete(partials[i].path)
            BY <3>3, <2>7, DeleteKeeps DEF Find
        <3> QED
            BY <2>7, <3>1, <3>2, <3>3 DEF Find
    <2>8. CASE Walk
        BY <2>8, <2>3 DEF Walk
    <2>9. CASE Full
        BY <2>9, <2>1 DEF Full, Refuse
    <2>10. CASE Author
        BY <2>10, AuthorKeeps
    <2>11. CASE Check
        BY <2>11, <2>1, FolderStays DEF Check, Refuse, output
    <2>12. CASE Compile
        BY <2>12, <2>2, FolderStays DEF Compile, Fail
    <2>13. CASE Ended \/ UNCHANGED vars
        BY <2>13, <2>3 DEF Ended, vars
    <2> QED
        BY <2>4, <2>5, <2>6, <2>7, <2>8, <2>9, <2>10, <2>11, <2>12, <2>13
           DEF Next, Function
<1> QED
    BY <1>1, <1>2, PTL DEF Spec

\* Restored for every folder and every request, wherever a command fails.
THEOREM RollbackComplete == Spec => []Restored
<1>1. FolderInv => Restored
    BY DEF FolderInv, Restored, Unsuccessful
<1> QED
    BY <1>1, FolderInvHolds, PTL

\* OthersUntouched for every folder and every request: no name that the folder
\* holds is written over, and no file but the key's is deleted.
THEOREM OneFileOnly == Spec => []OthersUntouched
<1>1. FolderInv => OthersUntouched
    <2> SUFFICES ASSUME FolderInv, NEW f \in DOMAIN before
                 PROVE  \/ f = fpath /\ request.op = "remove"
                        \/ f \in DOMAIN folder /\ folder[f] = before[f]
        BY DEF OthersUntouched
    <2>1. CASE folder = before
        BY <2>1
    <2>2. CASE Changed /\ request.op = "add"
        BY <2>2 DEF Changed, With
    <2>3. CASE Changed /\ request.op = "remove"
        BY <2>3 DEF Changed, Without
    <2> QED
        BY <2>1, <2>2, <2>3 DEF FolderInv
<1> QED
    BY <1>1, FolderInvHolds, PTL
-----------------------------------------------------------------------------
(***************************************************************************)
(* Layers of variables: the last of the lines that assign one wins.         *)
(***************************************************************************)
Tab == [Variable -> Value \cup {None}]

\* The line assigns in the environment.
Sets(l, env) == l.t = "var" /\ l.val.env = env

\* pre is what the layer makes of each prefix of the lines.
LayerPrefixes(n, lines, env, table0, pre) ==
    /\ pre[0] = table0 /\ pre[n] = Layer(table0, lines, env)
    /\ \A k \in 1..n :
        pre[k] = IF Sets(lines[k], env)
                 THEN [pre[k - 1] EXCEPT ![lines[k].val.name] = lines[k].val.value]
                 ELSE pre[k - 1]

\* Layer goes through one table for each prefix of the lines.
LEMMA LayerRuns ==
    ASSUME NEW n \in Nat, NEW lines, DOMAIN lines = 1..n, NEW env, NEW table0 \in Tab,
           \A k \in 1..n : Sets(lines[k], env) =>
                lines[k].val.name \in Variable /\ lines[k].val.value \in Value
    PROVE  \E pre \in [0..n -> Tab] : LayerPrefixes(n, lines, env, table0, pre)
<1> DEFINE Set(tab, l) == IF l.t = "var" /\ l.val.env = env
                          THEN [tab EXCEPT ![l.val.name] = l.val.value] ELSE tab
           step == [k \in 1..n |-> [tab \in Tab |-> Set(tab, lines[k])]]
           Iterates(it) ==
              it = [s \in SUBSET (DOMAIN lines) |->
                        IF s = {} THEN table0 ELSE Set(it[s \ {Max(s)}], lines[Max(s)])]
           h == CHOOSE it : Iterates(it)
<1>1. ASSUME NEW k \in 1..n, NEW tab \in Tab PROVE Set(tab, lines[k]) \in Tab
    BY DEF Tab, Sets
<1>2. step \in [1..n -> [Tab -> Tab]]
    <2> HIDE DEF Set
    <2> QED
        BY <1>1
<1>3. PICK g \in [SUBSET (1..n) -> Tab] : FoldedBy(n, table0, step, g)
    <2> HIDE DEF step
    <2> QED
        BY <1>2, FoldExists
<1>4. Iterates(g)
    <2> HIDE DEF Set
    <2>1. ASSUME NEW s \in SUBSET (1..n), s # {}
          PROVE  g[s] = Set(g[s \ {Max(s)}], lines[Max(s)])
        <3>1. g[s] = step[Max(s)][g[s \ {Max(s)}]]
            <4> HIDE DEF step
            <4> QED
                BY <1>3, <2>1 DEF FoldedBy
        <3>2. Max(s) \in 1..n /\ g[s \ {Max(s)}] \in Tab
            BY <2>1, MaxOfPositions
        <3> QED
            BY <3>1, <3>2
    <2>2. g[{}] = table0
        <3> HIDE DEF step
        <3>1. {} \in SUBSET (1..n)
            OBVIOUS
        <3> QED
            BY <1>3, <3>1, Zenon DEF FoldedBy
    <2>3. g = [s \in SUBSET (1..n) |-> g[s]]
        OBVIOUS
    <2>4. \A s \in SUBSET (1..n) :
             g[s] = IF s = {} THEN table0 ELSE Set(g[s \ {Max(s)}], lines[Max(s)])
        BY <2>1, <2>2, Zenon
    <2>5. DOMAIN lines = 1..n
        OBVIOUS
    <2> HIDE DEF step
    <2> QED
        BY <2>3, <2>4, <2>5, Zenon
<1>5. Iterates(h)
    <2> HIDE DEF Iterates
    <2> QED
        BY <1>4
<1>6. Layer(table0, lines, env) = h[1..n]
    BY DEF Layer, FoldLeft, MapThenFoldSet
<1> HIDE DEF h
<1>7. /\ h[{}] = table0
      /\ \A s \in SUBSET (1..n) : s # {} => h[s] = Set(h[s \ {Max(s)}], lines[Max(s)])
    <2> HIDE DEF Set
    <2> QED
        BY <1>5
<1>8. \A s \in SUBSET (1..n) : s # {} /\ h[s \ {Max(s)}] \in Tab =>
            h[s] = step[Max(s)][h[s \ {Max(s)}]]
    <2> HIDE DEF Set, Iterates
    <2> QED
        BY <1>7, MaxOfPositions
<1>9. PICK pre \in [0..n -> Tab] : FoldPrefixes(n, table0, step, h, pre)
    <2> HIDE DEF step, Iterates
    <2>1. h[{}] = table0
        BY <1>7, Zenon
    <2>2. Unfolds(n, Tab, table0, step, h)
        BY <2>1, <1>8, Zenon DEF Unfolds
    <2> QED
        BY <1>2, <2>2, FoldRuns
<1>10. \A k \in 1..n : pre[k] = Set(pre[k - 1], lines[k])
    <2> HIDE DEF Set, Iterates
    <2>1. \A k \in 1..n : k - 1 \in 0..n
        OBVIOUS
    <2> QED
        BY <1>9, <2>1 DEF FoldPrefixes
<1> HIDE DEF step, Iterates
<1> QED
    <2>1. LayerPrefixes(n, lines, env, table0, pre)
        BY <1>6, <1>9, <1>10 DEF Sets, FoldPrefixes, LayerPrefixes
    <2> QED
        BY <2>1

\* The lines up to k that assign v in the environment, and the last of a set.
Setters(lines, k, env, v) == {i \in 1..k : Sets(lines[i], env) /\ lines[i].val.name = v}
LastOf(S) == CHOOSE i \in S : \A j \in S : j <= i

Latest(table0, lines, k, env, v) ==
    IF Setters(lines, k, env, v) # {}
    THEN lines[LastOf(Setters(lines, k, env, v))].val.value ELSE table0[v]

\* The lines up to k + 1 assign v as those up to k, or line k + 1 does.
LEMMA LatestMore ==
    ASSUME NEW k \in Nat, NEW lines, NEW env, NEW table0, NEW v
    PROVE  Latest(table0, lines, k + 1, env, v) =
                IF Sets(lines[k + 1], env) /\ lines[k + 1].val.name = v
                THEN lines[k + 1].val.value ELSE Latest(table0, lines, k, env, v)
<1> DEFINE Here == Sets(lines[k + 1], env) /\ lines[k + 1].val.name = v
           S == Setters(lines, k, env, v)
           T == Setters(lines, k + 1, env, v)
<1>0. 1..(k + 1) = (1..k) \cup {k + 1}
    OBVIOUS
<1>1. CASE Here
    <2>1. T \subseteq 1..(k + 1) /\ k + 1 \in T
        BY <1>0, <1>1 DEF Setters
    <2> HIDE DEF T
    <2>2. \A i \in T : (\A j \in T : j <= i) => i = k + 1
        <3>1. \A i \in 1..(k + 1) : k + 1 <= i => i = k + 1
            OBVIOUS
        <3> QED
            BY <2>1, <3>1
    <2>3. \A j \in T : j <= k + 1
        BY <2>1
    <2>4. LastOf(T) = k + 1
        BY <2>1, <2>2, <2>3 DEF LastOf
    <2> QED
        BY <1>1, <2>1, <2>4 DEF Latest, T
<1>2. CASE ~ Here
    <2>1. T = S
        BY <1>0, <1>2 DEF Setters
    <2> HIDE DEF S, T
    <2> QED
        BY <1>2, <2>1 DEF Latest, S, T
<1> QED
    BY <1>1, <1>2

\* A layer gives each variable the last line's value.
LEMMA LayerIs ==
    ASSUME NEW n \in Nat, NEW lines, DOMAIN lines = 1..n, NEW env, NEW table0 \in Tab,
           \A k \in 1..n : Sets(lines[k], env) =>
                lines[k].val.name \in Variable /\ lines[k].val.value \in Value
    PROVE  /\ Layer(table0, lines, env) \in Tab
           /\ \A v \in Variable :
                Layer(table0, lines, env)[v] = Latest(table0, lines, n, env, v)
<1>0. PICK pre \in [0..n -> Tab] : LayerPrefixes(n, lines, env, table0, pre)
    BY LayerRuns
<1>1. /\ pre[0] = table0 /\ pre[n] = Layer(table0, lines, env)
      /\ \A k \in 1..n :
            pre[k] = IF Sets(lines[k], env)
                     THEN [pre[k - 1] EXCEPT ![lines[k].val.name] = lines[k].val.value]
                     ELSE pre[k - 1]
    BY <1>0 DEF LayerPrefixes
<1> DEFINE Good == {k \in Nat : k <= n => \A v \in Variable :
                        pre[k][v] = Latest(table0, lines, k, env, v)}
<1>2. 0 \in Good
    <2>1. \A v : Setters(lines, 0, env, v) = {}
        <3>1. 1..0 = {}
            OBVIOUS
        <3> QED
            BY <3>1 DEF Setters
    <2> QED
        BY <1>1, <2>1 DEF Latest
<1>3. ASSUME NEW k \in Nat, k \in Good PROVE k + 1 \in Good
    <2> SUFFICES ASSUME k + 1 <= n, NEW v \in Variable
                 PROVE  pre[k + 1][v] = Latest(table0, lines, k + 1, env, v)
        OBVIOUS
    <2>1. k \in 0..n /\ k + 1 \in 1..n /\ (k + 1) - 1 = k /\ k <= n
        OBVIOUS
    <2>2. pre[k][v] = Latest(table0, lines, k, env, v)
        BY <1>3, <2>1, Zenon
    <2>3. pre[k + 1] = IF Sets(lines[k + 1], env)
                       THEN [pre[k] EXCEPT ![lines[k + 1].val.name] = lines[k + 1].val.value]
                       ELSE pre[k]
        <3>1. pre[k + 1] =
                IF Sets(lines[k + 1], env)
                THEN [pre[(k + 1) - 1] EXCEPT ![lines[k + 1].val.name] = lines[k + 1].val.value]
                ELSE pre[(k + 1) - 1]
            BY <1>1, <2>1, Zenon
        <3> QED
            BY <2>1, <3>1
    <2>4. pre[k] \in Tab
        BY <2>1
    <2> HIDE DEF Good
    <2>5. pre[k + 1][v] = IF Sets(lines[k + 1], env) /\ lines[k + 1].val.name = v
                          THEN lines[k + 1].val.value ELSE pre[k][v]
        BY <2>3, <2>4 DEF Tab
    <2> QED
        BY <2>2, <2>5, LatestMore
<1>4. n \in Good
    <2> HIDE DEF Good
    <2> QED
        BY <1>2, <1>3, Induction
<1>5. \A v \in Variable : pre[n][v] = Latest(table0, lines, n, env, v)
    BY <1>4
<1>6. pre[n] \in Tab
    BY n \in 0..n
<1> QED
    BY <1>1, <1>5, <1>6
-----------------------------------------------------------------------------
(***************************************************************************)
(* The listing of a folder names every file once, in the order of names.    *)
(***************************************************************************)
LEMMA PrecedesOrders ==
    ASSUME NEW f \in FileName, NEW g \in FileName, NEW h \in FileName
    PROVE  /\ Precedes(f, f)
           /\ Precedes(f, g) \/ Precedes(g, f)
           /\ Precedes(f, g) /\ Precedes(g, f) => f = g
           /\ Precedes(f, g) /\ Precedes(g, h) => Precedes(f, h)
    BY DEF Precedes, Scaled, Digits, FileName, Unnumbered

\* The files up to f, and how many they are.
UpTo(dir, f) == {g \in DOMAIN dir : Precedes(g, f)}
Place(dir, f) == Cardinality(UpTo(dir, f))

LEMMA PlaceType ==
    ASSUME NEW dir, IsFiniteSet(DOMAIN dir), DOMAIN dir \subseteq FileName,
           NEW f \in DOMAIN dir
    PROVE  /\ IsFiniteSet(UpTo(dir, f))
           /\ Cardinality(DOMAIN dir) \in Nat
           /\ Place(dir, f) \in 1..Cardinality(DOMAIN dir)
<1>1. UpTo(dir, f) \in SUBSET (DOMAIN dir) /\ f \in UpTo(dir, f)
    BY PrecedesOrders DEF UpTo
<1>2. IsFiniteSet(UpTo(dir, f)) /\ Cardinality(UpTo(dir, f)) <= Cardinality(DOMAIN dir)
    BY <1>1, FS_Subset
<1>3. Cardinality(UpTo(dir, f)) \in Nat /\ Cardinality(DOMAIN dir) \in Nat
    BY <1>2, FS_CardinalityType
<1>4. Cardinality(UpTo(dir, f)) # 0
    BY <1>1, <1>2, FS_EmptySet
<1> QED
    BY <1>2, <1>3, <1>4 DEF Place

\* Two files have two places.
LEMMA PlacesDiffer ==
    ASSUME NEW dir, IsFiniteSet(DOMAIN dir), DOMAIN dir \subseteq FileName,
           NEW f \in DOMAIN dir, NEW g \in DOMAIN dir, Place(dir, f) = Place(dir, g)
    PROVE  f = g
<1>1. ASSUME NEW x \in DOMAIN dir, NEW y \in DOMAIN dir,
             Precedes(x, y), Place(dir, x) = Place(dir, y)
      PROVE  x = y
    <2>1. UpTo(dir, x) \in SUBSET UpTo(dir, y)
        BY <1>1, PrecedesOrders DEF UpTo
    <2>2. IsFiniteSet(UpTo(dir, y))
        BY PlaceType
    <2>3. UpTo(dir, y) = UpTo(dir, x)
        BY <2>1, <2>2, <1>1, FS_Subset DEF Place
    <2>4. y \in UpTo(dir, x)
        BY <2>3, PrecedesOrders DEF UpTo
    <2> QED
        BY <2>4, <1>1, PrecedesOrders DEF UpTo
<1>2. Precedes(f, g) \/ Precedes(g, f)
    BY PrecedesOrders
<1> QED
    BY <1>1, <1>2

\* Listing is a sequence of all the files, each at its place.
LEMMA ListingIs ==
    ASSUME NEW dir, IsFiniteSet(DOMAIN dir), DOMAIN dir \subseteq FileName
    PROVE  /\ Listing(dir) \in Seq(DOMAIN dir)
           /\ Len(Listing(dir)) = Cardinality(DOMAIN dir)
           /\ Cardinality(DOMAIN dir) \in Nat
           /\ \A f \in DOMAIN dir : \E i \in 1..Len(Listing(dir)) : Listing(dir)[i] = f
           /\ \A f \in DOMAIN dir : Listing(dir)[Place(dir, f)] = f
           /\ \A j \in 1..Len(Listing(dir)) :
                Listing(dir)[j] \in DOMAIN dir /\ Place(dir, Listing(dir)[j]) = j
<1> DEFINE D == DOMAIN dir
           n == Cardinality(D)
           place == [f \in D |-> Place(dir, f)]
<1>1. n \in Nat
    BY FS_CardinalityType
<1>2. place \in [D -> 1..n]
    BY PlaceType
<1>3. place \in Injection(D, 1..n)
    BY <1>2, PlacesDiffer DEF Injection, IsInjective
<1>4. IsFiniteSet(1..n) /\ Cardinality(1..n) = n
    BY <1>1, FS_Interval
<1>5. place \in Surjection(D, 1..n)
    <2> HIDE DEF place
    <2> QED
        BY <1>3, <1>4, FS_Injection
<1>6. \A i \in 1..n : \E f \in D : Place(dir, f) = i
    BY <1>5 DEF Surjection
<1>7. Listing(dir) = [i \in 1..n |-> CHOOSE f \in D : Place(dir, f) = i]
    BY DEF Listing, Place, UpTo
<1>8. Listing(dir) \in [1..n -> D]
    BY <1>6, <1>7
<1>9. Listing(dir) \in Seq(D) /\ Len(Listing(dir)) = n
    BY <1>1, <1>8
<1>10. ASSUME NEW f \in D PROVE Listing(dir)[Place(dir, f)] = f
    <2>1. Place(dir, f) \in 1..n
        BY PlaceType
    <2>2. Listing(dir)[Place(dir, f)] = CHOOSE g \in D : Place(dir, g) = Place(dir, f)
        BY <2>1, <1>7
    <2>3. \A g \in D : Place(dir, g) = Place(dir, f) => g = f
        BY PlacesDiffer
    <2> QED
        BY <2>2, <2>3
<1>11. ASSUME NEW j \in 1..n
       PROVE  Listing(dir)[j] \in D /\ Place(dir, Listing(dir)[j]) = j
    <2>1. Listing(dir)[j] \in D
        BY <1>8
    <2>2. PICK f \in D : Place(dir, f) = j
        BY <1>6
    <2> QED
        BY <2>1, <2>2, <1>10
<1> QED
    BY <1>1, <1>9, <1>10, <1>11, PlaceType
-----------------------------------------------------------------------------
(***************************************************************************)
(* The lines of the folder, whatever the command has done to it.            *)
(***************************************************************************)
\* No folder has a header with a remark, and no name at the command line makes one.
Noted(l) == l.t = "interface" /\ l.val = "noted"
Noteless ==
    \A c \in Cases :
        /\ \A f \in DOMAIN c.folder : \A l \in ToSet(c.folder[f]) : ~ Noted(l)
        /\ \A l \in ToSet(c.request.label) : ~ Noted(l)

Lines(s) ==
    /\ s \in Seq(ToSet(s))
    /\ \A l \in ToSet(s) : IsLine(l) /\ (Noteless => ~ Noted(l))

Dir(d) ==
    /\ IsFiniteSet(DOMAIN d) /\ DOMAIN d \subseteq FileName
    /\ \A f \in DOMAIN d : Lines(d[f])

TextInv ==
    /\ Dir(before) /\ Dir(folder)
    /\ request.key \in Key
    /\ Lines(request.label) /\ request.label # <<>> /\ request.label[1].t = "name"

LEMMA WithIsDir ==
    ASSUME NEW d, Dir(d), NEW f \in FileName, NEW lines, Lines(lines)
    PROVE  Dir(With(d, f, lines))
<1>1. DOMAIN With(d, f, lines) = DOMAIN d \cup {f}
    BY DEF With
<1>2. IsFiniteSet(DOMAIN d \cup {f})
    BY FS_AddElement DEF Dir
<1>3. \A g \in DOMAIN d \cup {f} : Lines(With(d, f, lines)[g])
    BY DEF With, Dir
<1> QED
    BY <1>1, <1>2, <1>3 DEF Dir

LEMMA WithoutIsDir ==
    ASSUME NEW d, Dir(d), NEW f
    PROVE  Dir(Without(d, f))
<1>1. DOMAIN Without(d, f) = DOMAIN d \ {f}
    BY DEF Without
<1>2. IsFiniteSet(DOMAIN d \ {f})
    BY FS_RemoveElement DEF Dir
<1>3. \A g \in DOMAIN d \ {f} : Lines(Without(d, f)[g])
    BY DEF Without, Dir
<1> QED
    BY <1>1, <1>2, <1>3 DEF Dir

\* What stands in the one or the other.
LEMMA ToSetOfBoth ==
    ASSUME NEW U, NEW a \in Seq(U), NEW b \in Seq(U)
    PROVE  ToSet(a \o b) = ToSet(a) \cup ToSet(b)
<1> DEFINE m == Len(a)
           n == Len(b)
           ab == a \o b
<1>1. /\ m \in Nat /\ n \in Nat /\ DOMAIN a = 1..m /\ DOMAIN b = 1..n
      /\ DOMAIN ab = 1..(m + n)
    OBVIOUS
<1>2. /\ \A i \in 1..m : ab[i] = a[i]
      /\ \A i \in 1..n : ab[m + i] = b[i]
    OBVIOUS
<1> HIDE DEF m, n, ab
<1>3. ASSUME NEW i \in 1..(m + n) PROVE ab[i] \in ToSet(a) \cup ToSet(b)
    <2>1. CASE i \in 1..m
        BY <1>1, <1>2, <2>1 DEF ToSet
    <2>2. CASE i \notin 1..m
        <3>1. i - m \in 1..n /\ m + (i - m) = i
            BY <1>1, <2>2
        <3>2. ab[m + (i - m)] = b[i - m]
            BY <1>2, <3>1
        <3> QED
            BY <1>1, <3>1, <3>2 DEF ToSet
    <2> QED
        BY <2>1, <2>2
<1>4. \A i \in 1..m : i \in 1..(m + n)
    BY <1>1
<1>5. \A i \in 1..n : m + i \in 1..(m + n)
    BY <1>1
<1>6. ToSet(a) \subseteq ToSet(ab) /\ ToSet(b) \subseteq ToSet(ab)
    BY <1>1, <1>2, <1>4, <1>5 DEF ToSet
<1>7. ToSet(ab) \subseteq ToSet(a) \cup ToSet(b)
    BY <1>1, <1>3 DEF ToSet
<1> QED
    BY <1>6, <1>7 DEF ab

LEMMA LinesInARow ==
    ASSUME NEW a, NEW b, Lines(a), Lines(b)
    PROVE  Lines(a \o b)
<1> DEFINE A == ToSet(a)
           B == ToSet(b)
           U == A \cup B
<1>1. a \in Seq(A) /\ b \in Seq(B)
    BY DEF Lines
<1> HIDE DEF A, B
<1>2. a \in Seq(U) /\ b \in Seq(U)
    BY <1>1
<1>3. a \o b \in Seq(U) /\ ToSet(a \o b) = U
    BY <1>2, ToSetOfBoth DEF A, B
<1>4. \A l \in U : IsLine(l) /\ (Noteless => ~ Noted(l))
    BY DEF Lines, A, B
<1> QED
    BY <1>3, <1>4 DEF Lines

\* The lines of the block that an add writes.
NewBlock(key, addr) ==
    <<Line("peer", None), Line("key", key), Line("ips", [addr |-> addr, size |-> 1])>>

LEMMA NewBlockIsLines ==
    ASSUME NEW key \in Key, NEW addr \in Word
    PROVE  Lines(NewBlock(key, addr))
<1> DEFINE ips == Line("ips", [addr |-> addr, size |-> 1])
           block == NewBlock(key, addr)
           new == {Line("peer", None), Line("key", key), ips}
<1>1. 1 \in Sizes
    BY SpanAssumption DEF Sizes
<1>2. [addr |-> addr, size |-> 1] \in Value
    BY <1>1 DEF Value, Cidr
<1>3. \A l \in new : IsLine(l) /\ l.t # "interface"
    BY <1>2 DEF IsLine, Line
<1>4. ToSet(block) = new /\ block \in Seq(new)
    <2>1. DOMAIN block = 1..3
        BY DEF NewBlock
    <2>2. block[1] = Line("peer", None) /\ block[2] = Line("key", key) /\ block[3] = ips
        BY DEF NewBlock
    <2>3. block \in Seq(new)
        BY DEF NewBlock
    <2> HIDE DEF ips, block
    <2>4. 1..3 = {1, 2, 3}
        OBVIOUS
    <2> QED
        BY <2>1, <2>2, <2>3, <2>4 DEF ToSet
<1> HIDE DEF new, block
<1> QED
    BY <1>3, <1>4 DEF Lines, Noted, block

\* What the command writes is lines.
LEMMA NewPartialIsLines ==
    ASSUME TextInv, WalkInv, phase = "found"
    PROVE  Lines(NewPartial)
<1>1. host \in Word
    BY SpanAssumption DEF WalkInv, HostsOf
<1>2. Lines(NewBlock(request.key, host))
    BY <1>1, NewBlockIsLines DEF TextInv
<1>3. NewPartial = request.label \o NewBlock(request.key, host)
    BY DEF NewPartial, NewBlock
<1> QED
    BY <1>2, <1>3, LinesInARow DEF TextInv

LEMMA TextInvHolds == Spec => []TextInv
<1>1. Init => TextInv
    <2> SUFFICES ASSUME Init PROVE TextInv
        OBVIOUS
    <2>1. PICK c \in Cases : folder = c.folder /\ before = c.folder /\ request = c.request
        BY DEF Init
    <2>2. Dir(c.folder)
        BY CasesAssumption, OldNames DEF Dir, Lines, Noteless
    <2>3. Lines(c.request.label)
        BY CasesAssumption DEF Lines, Noteless
    <2> QED
        BY <2>1, <2>2, <2>3, CasesAssumption DEF TextInv
<1>2. TextInv /\ FolderInv /\ WalkInv /\ [Next]_vars => TextInv'
    <2> SUFFICES ASSUME TextInv, FolderInv, WalkInv, [Next]_vars PROVE TextInv'
        OBVIOUS
    <2>0. UNCHANGED given
        BY DEF Next, Function, LoadVars, LoadPartials, Decide, Find, Walk, Full, Author,
               Check, Compile, Ended, Refuse, Fail, Return, Answer, Delete, command, vars
    <2>1. CASE UNCHANGED folder
        BY <2>0, <2>1 DEF TextInv, given
    <2>2. CASE pc # "done" /\ \E r : Return(r)
        <3>1. folder' = before
            BY <2>2, RollbackRestores DEF Return
        <3> QED
            BY <3>1, <2>0 DEF TextInv, given
    <2>3. CASE Find
        <3>1. CASE \E f : folder' = Without(folder, f)
            BY <3>1, <2>0, WithoutIsDir DEF TextInv, given
        <3> QED
            BY <3>1, <2>1, <2>2, <2>3 DEF Find, Delete, Refuse, Fail, Answer, disk
    <2>4. CASE Author
        <3>1. CASE \E highest \in OrderPrefixes(folder) :
                        folder' = With(folder, highest + 10, NewPartial)
            <4>1. PICK highest \in OrderPrefixes(folder) :
                        folder' = With(folder, highest + 10, NewPartial)
                BY <3>1
            <4>2. highest + 10 \in FileName
                BY <2>4, RoomForOne DEF Author, FolderInv
            <4>3. Lines(NewPartial)
                BY <2>4, NewPartialIsLines DEF Author
            <4>4. Dir(With(folder, highest + 10, NewPartial))
                BY <4>2, <4>3, WithIsDir DEF TextInv
            <4> QED
                BY <4>1, <4>4, <2>0 DEF TextInv, given
        <3> QED
            BY <3>1, <2>2, <2>4 DEF Author, Fail
    <2>5. CASE LoadVars \/ LoadPartials \/ Decide \/ Full \/ Check \/ Compile
        BY <2>5, <2>1, <2>2 DEF LoadVars, LoadPartials, Decide, Full, Check, Compile,
                                Refuse, Fail, Answer, disk
    <2>6. CASE Walk \/ Ended \/ UNCHANGED vars
        BY <2>6, <2>1 DEF Walk, Ended, vars, command, disk
    <2> QED
        BY <2>3, <2>4, <2>5, <2>6 DEF Next, Function
<1>3. Spec => []WalkInv
    BY WalkInvHolds
<1> QED
    BY <1>1, <1>2, <1>3, FolderInvHolds, PTL DEF Spec
-----------------------------------------------------------------------------
(***************************************************************************)
(* The variables: two layers over the lines of the first file.              *)
(***************************************************************************)
TableInv ==
    /\ table \in Tab
    /\ pc = "partials" =>
        /\ Listing(folder) # <<>>
        /\ table = Table(folder[Listing(folder)[1]], request.env)

\* A variable has the value of the environment's last line for it, or else of
\* the last base line.
LEMMA TableIs ==
    ASSUME NEW lines, Lines(lines), NEW env
    PROVE  /\ Table(lines, env) \in Tab
           /\ \A v \in Variable :
                LET n == Len(lines)
                    base == [u \in Variable |-> None]
                IN  Table(lines, env)[v] =
                        IF env # None /\ Setters(lines, n, env, v) # {}
                        THEN lines[LastOf(Setters(lines, n, env, v))].val.value
                        ELSE Latest(base, lines, n, None, v)
<1> DEFINE n == Len(lines)
           none == [u \in Variable |-> None]
           base == Layer(none, lines, None)
<1>1. n \in Nat /\ DOMAIN lines = 1..n /\ \A k \in 1..n : IsLine(lines[k])
    BY Elements DEF Lines
<1>2. \A e : \A k \in 1..n : Sets(lines[k], e) =>
            lines[k].val.name \in Variable /\ lines[k].val.value \in Value
    BY <1>1 DEF IsLine, Sets
<1>3. none \in Tab
    BY DEF Tab
<1> HIDE DEF n, none
<1>4. base \in Tab /\ \A v \in Variable : base[v] = Latest(none, lines, n, None, v)
    BY <1>1, <1>2, <1>3, LayerIs
<1>5. CASE env = None
    BY <1>4, <1>5 DEF Table, n, none
<1>6. CASE env # None
    <2> HIDE DEF base
    <2>1. /\ Layer(base, lines, env) \in Tab
          /\ \A v \in Variable : Layer(base, lines, env)[v] = Latest(base, lines, n, env, v)
        BY <1>1, <1>2, <1>4, LayerIs
    <2>2. Table(lines, env) = Layer(base, lines, env)
        BY <1>6 DEF Table, base, none
    <2>3. \A v \in Variable : Latest(base, lines, n, env, v) =
                IF Setters(lines, n, env, v) # {}
                THEN lines[LastOf(Setters(lines, n, env, v))].val.value
                ELSE Latest(none, lines, n, None, v)
        BY <1>4 DEF Latest
    <2> QED
        BY <1>6, <2>1, <2>2, <2>3 DEF n, none
<1> QED
    BY <1>5, <1>6

\* The first file of a folder that has one.
LEMMA FirstFile ==
    ASSUME NEW d, Dir(d), Listing(d) # <<>>
    PROVE  Listing(d)[1] \in DOMAIN d /\ Lines(d[Listing(d)[1]])
<1>1. Listing(d) \in Seq(DOMAIN d)
    BY ListingIs DEF Dir
<1>2. Listing(d)[1] \in DOMAIN d
    BY <1>1
<1> QED
    BY <1>2 DEF Dir

LEMMA TableInvHolds == Spec => []TableInv
<1>1. Init => TableInv
    BY DEF Init, TableInv, Tab
<1>2. TableInv /\ TextInv /\ [Next]_vars => TableInv'
    <2> SUFFICES ASSUME TableInv, TextInv, [Next]_vars PROVE TableInv'
        OBVIOUS
    <2>1. CASE UNCHANGED table /\ pc' # "partials"
        BY <2>1 DEF TableInv, Tab
    <2>2. CASE LoadVars
        <3>1. CASE Misplaced(folder, request.env)
            BY <2>2, <3>1, <2>1 DEF LoadVars, Refuse, Return, network
        <3>2. CASE ~ Misplaced(folder, request.env)
            <4>1. /\ table' = Table(folder[Listing(folder)[1]], request.env)
                  /\ UNCHANGED <<folder, request>>
                BY <2>2, <3>2 DEF LoadVars, given, disk
            <4>2. Listing(folder) # <<>>
                BY <3>2 DEF Misplaced
            <4>3. Lines(folder[Listing(folder)[1]])
                BY <4>2, FirstFile DEF TextInv
            <4>4. table' \in Tab
                BY <4>1, <4>3, TableIs
            <4> QED
                BY <4>1, <4>2, <4>4 DEF TableInv, Tab
        <3> QED
            BY <3>1, <3>2
    <2>3. CASE LoadPartials \/ Decide \/ Find \/ Full \/ Author \/ Check \/ Compile
        <3>1. UNCHANGED table /\ pc' # "partials"
            BY <2>3 DEF LoadPartials, Decide, Find, Full, Author, Check, Compile,
                        Refuse, Fail, Return, Answer, Delete, network
        <3> QED
            BY <3>1, <2>1
    <2>4. CASE Walk \/ Ended \/ UNCHANGED vars
        <3>1. UNCHANGED <<table, pc, folder, request>>
            BY <2>4 DEF Walk, Ended, vars, command, network, disk, given
        <3> QED
            BY <3>1 DEF TableInv, Tab
    <2> QED
        BY <2>2, <2>3, <2>4 DEF Next, Function
<1> QED
    BY <1>1, <1>2, TextInvHolds, PTL DEF Spec

\* Overlaid for every folder, every environment and every order of the lines:
\* VarTable::load looks a name up in the environment's layer first.
THEOREM EnvironmentOverBase == Spec => []Overlaid
<1>1. TableInv /\ TextInv => Overlaid
    <2> SUFFICES ASSUME TableInv, TextInv, pc = "partials" PROVE Overlaid
        BY DEF Overlaid
    <2> DEFINE lines == folder[Listing(folder)[1]]
               of(e, v) == {i \in DOMAIN lines :
                                /\ lines[i].t = "var"
                                /\ lines[i].val.env = e /\ lines[i].val.name = v}
               last(S) == lines[CHOOSE i \in S : \A j \in S : j <= i].val.value
    <2>1. Lines(lines) /\ table = Table(lines, request.env)
        BY FirstFile DEF TableInv, TextInv
    <2>2. DOMAIN lines = 1..Len(lines)
        BY <2>1, Elements DEF Lines
    <2> HIDE DEF lines
    <2>3. \A e, v : of(e, v) = Setters(lines, Len(lines), e, v)
        BY <2>2 DEF Setters, Sets
    <2>4. \A S : last(S) = lines[LastOf(S)].val.value
        BY DEF LastOf
    <2>5. \A v \in Variable :
            table[v] = IF request.env # None /\ Setters(lines, Len(lines), request.env, v) # {}
                       THEN lines[LastOf(Setters(lines, Len(lines), request.env, v))].val.value
                       ELSE IF Setters(lines, Len(lines), None, v) # {}
                            THEN lines[LastOf(Setters(lines, Len(lines), None, v))].val.value
                            ELSE None
        BY <2>1, TableIs DEF Latest
    <2> HIDE DEF of, last
    <2>6. \A v \in Variable :
            table[v] = IF request.env # None /\ of(request.env, v) # {}
                       THEN last(of(request.env, v))
                       ELSE IF of(None, v) # {} THEN last(of(None, v)) ELSE None
        BY <2>3, <2>4, <2>5
    <2> QED
        BY <2>6 DEF Overlaid, of, last, lines
<1> QED
    BY <1>1, TableInvHolds, TextInvHolds, PTL
-----------------------------------------------------------------------------
(***************************************************************************)
(* The partials: the lines of every file with their placeholders filled.    *)
(***************************************************************************)
Ready(l) ==
    /\ l.t \in {"var", "name", "interface", "peer", "key", "ips", "text"}
    /\ l.t = "interface" =>
        /\ l.val \in {"plain", "noted", "upper"}
        /\ Noteless => l.val # "noted"
    /\ l.t = "name" => l.val \in Label \cup {None} \cup Value
    /\ l.t = "key" => l.val \in Key \cup Value
    /\ l.t = "ips" => l.val \in Value

Part(p) ==
    /\ p.path \in FileName
    /\ p.lines \in Seq(ToSet(p.lines))
    /\ \A l \in ToSet(p.lines) : Ready(l)

Parts(ps) == ps \in Seq(ToSet(ps)) /\ \A p \in ToSet(ps) : Part(p)

LEMMA SubstitutedIsReady ==
    ASSUME NEW l, IsLine(l), Noteless => ~ (l.t = "interface" /\ l.val = "noted"),
           NEW tab \in Tab, ~ Undefined(l, tab)
    PROVE  Ready(Substituted(l, tab))
<1>1. CASE l.t = "text"
    BY <1>1 DEF Substituted, Ready, Line
<1>2. CASE l.t = "var" \/ (l.t # "text" /\ l.ref = None)
    <2>1. Substituted(l, tab) = l
        BY <1>2 DEF Substituted
    <2> QED
        BY <1>2, <2>1 DEF IsLine, Ready
<1>3. CASE l.t \notin {"text", "var"} /\ l.ref # None
    <2>1. Substituted(l, tab) = Line(l.t, tab[l.ref])
        BY <1>3 DEF Substituted
    <2>2. l.t \in {"name", "key", "ips"} /\ tab[l.ref] \in Value
        BY <1>3 DEF IsLine, Tab, Undefined
    <2> QED
        BY <2>1, <2>2 DEF Line, Ready
<1> QED
    BY <1>1, <1>2, <1>3

LEMMA LoadedIsParts ==
    ASSUME NEW d, Dir(d), NEW tab \in Tab,
           \A f \in DOMAIN d : \A l \in ToSet(d[f]) : ~ Undefined(l, tab)
    PROVE  Parts(Loaded(d, tab))
<1> DEFINE files == Listing(d)
           lines(f) == [j \in DOMAIN d[f] |-> Substituted(d[f][j], tab)]
           part(f) == [path |-> f, lines |-> lines(f)]
<1>1. files \in Seq(DOMAIN d)
    BY ListingIs DEF Dir
<1>2. ASSUME NEW f \in DOMAIN d PROVE Part(part(f))
    <2>1. /\ Len(d[f]) \in Nat /\ DOMAIN d[f] = 1..Len(d[f])
          /\ \A j \in 1..Len(d[f]) : d[f][j] \in ToSet(d[f])
        BY Elements DEF Dir, Lines
    <2>2. \A j \in 1..Len(d[f]) : Ready(Substituted(d[f][j], tab))
        BY <2>1, SubstitutedIsReady DEF Dir, Lines, Noted
    <2>3. /\ DOMAIN lines(f) = 1..Len(d[f])
          /\ \A j \in 1..Len(d[f]) : lines(f)[j] = Substituted(d[f][j], tab)
        BY <2>1
    <2>4. lines(f) = [j \in 1..Len(d[f]) |-> lines(f)[j]]
        BY <2>1
    <2> DEFINE ls == lines(f)
    <2>5. ToSet(ls) = {ls[j] : j \in 1..Len(d[f])}
        BY <2>3 DEF ToSet
    <2>6. \A l \in ToSet(ls) : Ready(l)
        BY <2>2, <2>3, <2>5
    <2>7. f \in FileName
        BY DEF Dir
    <2>8. part(f).path = f /\ part(f).lines = ls
        OBVIOUS
    <2> HIDE DEF ls, lines
    <2>9. ls \in Seq(ToSet(ls))
        <3>1. ls \in [1..Len(d[f]) -> ToSet(ls)]
            BY <2>4, <2>5 DEF ls
        <3> QED
            BY <3>1, <2>1
    <2> HIDE DEF part
    <2> QED
        BY <2>6, <2>7, <2>8, <2>9 DEF Part
<1>3. Loaded(d, tab) = [i \in DOMAIN files |-> part(files[i])]
    BY DEF Loaded
<1> DEFINE n == Len(files)
           ps == Loaded(d, tab)
<1>4. n \in Nat /\ DOMAIN files = 1..n /\ \A i \in 1..n : files[i] \in DOMAIN d
    BY <1>1
<1> HIDE DEF part, files, n
<1>5. DOMAIN ps = 1..n /\ ps = [i \in 1..n |-> ps[i]] /\ \A i \in 1..n : Part(ps[i])
    BY <1>2, <1>3, <1>4
<1> HIDE DEF ps
<1>6. ToSet(ps) = {ps[i] : i \in 1..n}
    BY <1>5 DEF ToSet
<1>7. ps \in Seq(ToSet(ps))
    <2>1. ps \in [1..n -> ToSet(ps)]
        BY <1>5, <1>6
    <2> QED
        BY <1>4, <2>1
<1> QED
    BY <1>5, <1>6, <1>7 DEF Parts, ps

LEMMA PartsHold == Spec => []Parts(partials)
<1>1. Init => Parts(partials)
    <2>1. ToSet(<<>>) = {} /\ <<>> \in Seq({})
        BY DEF ToSet
    <2> QED
        BY <2>1 DEF Init, Parts
<1>2. Parts(partials) /\ TextInv /\ TableInv /\ [Next]_vars => Parts(partials)'
    <2> SUFFICES ASSUME Parts(partials), TextInv, TableInv, [Next]_vars
                 PROVE  Parts(partials)'
        OBVIOUS
    <2>1. CASE UNCHANGED partials
        BY <2>1 DEF Parts, Part, Ready
    <2>2. CASE LoadPartials
        <3>1. CASE \E f \in DOMAIN folder : \E l \in ToSet(folder[f]) : Undefined(l, table)
            BY <3>1, <2>1, <2>2 DEF LoadPartials, Refuse, Return, network
        <3>2. CASE \A f \in DOMAIN folder : \A l \in ToSet(folder[f]) : ~ Undefined(l, table)
            <4>1. partials' = Loaded(folder, table)
                BY <2>2, <3>2 DEF LoadPartials
            <4>2. Parts(Loaded(folder, table))
                BY <3>2, LoadedIsParts DEF TextInv, TableInv
            <4> QED
                BY <4>1, <4>2 DEF Parts, Part, Ready
        <3> QED
            BY <3>1, <3>2
    <2>3. CASE LoadVars \/ Decide \/ Find \/ Full \/ Author \/ Check \/ Compile
        BY <2>1, <2>3 DEF LoadVars, Decide, Find, Full, Author, Check, Compile,
                          Refuse, Fail, Return, Answer, Delete, network
    <2>4. CASE Walk \/ Ended \/ UNCHANGED vars
        BY <2>1, <2>4 DEF Walk, Ended, vars, command, network
    <2> QED
        BY <2>2, <2>3, <2>4 DEF Next, Function
<1> QED
    BY <1>1, <1>2, TextInvHolds, TableInvHolds, PTL DEF Spec
-----------------------------------------------------------------------------
(***************************************************************************)
(* The conf: the lines of the partials in a row, the key under the first    *)
(* header.                                                                  *)
(***************************************************************************)
\* pre is what Emit makes of each prefix of the lines.
EmitPrefixes(key, n, lines, out, pre) ==
    /\ pre[0] = <<>> /\ pre[n] = out
    /\ \A k \in 1..n : pre[k] = Emit(key, pre[k - 1], lines[k])

\* The lines of a conf.
ConfLine(U) == U \cup {Line("private", None)}

LEMMA EmitType ==
    ASSUME NEW key, NEW U, NEW out \in Seq(ConfLine(U)), NEW l \in U
    PROVE  Emit(key, out, l) \in Seq(ConfLine(U))
<1>1. <<l, Line("private", None)>> \in Seq(ConfLine(U))
    BY DEF ConfLine
<1>2. l \in ConfLine(U)
    BY DEF ConfLine
<1> QED
    BY <1>1, <1>2 DEF Emit

\* The conf goes through one sequence for each prefix of the lines.
LEMMA EmitRuns ==
    ASSUME NEW key, NEW n \in Nat, NEW U, NEW lines, DOMAIN lines = 1..n,
           \A k \in 1..n : lines[k] \in U
    PROVE  \E pre \in [0..n -> Seq(ConfLine(U))] :
                EmitPrefixes(key, n, lines, Emitted(key, lines), pre)
<1> DEFINE V == Seq(ConfLine(U))
           step == [k \in 1..n |-> [out \in V |-> Emit(key, out, lines[k])]]
           Iterates(it) ==
              it = [s \in SUBSET (DOMAIN lines) |->
                        IF s = {} THEN <<>> ELSE Emit(key, it[s \ {Max(s)}], lines[Max(s)])]
           h == CHOOSE it : Iterates(it)
<1>0. <<>> \in V
    OBVIOUS
<1>1. ASSUME NEW k \in 1..n, NEW out \in V PROVE Emit(key, out, lines[k]) \in V
    BY EmitType
<1> HIDE DEF V
<1>2. step \in [1..n -> [V -> V]]
    BY <1>1
<1>3. PICK g \in [SUBSET (1..n) -> V] : FoldedBy(n, <<>>, step, g)
    <2> HIDE DEF step
    <2> QED
        BY <1>0, <1>2, FoldExists
<1>4. Iterates(g)
    <2>1. ASSUME NEW s \in SUBSET (1..n), s # {}
          PROVE  g[s] = Emit(key, g[s \ {Max(s)}], lines[Max(s)])
        <3>1. g[s] = step[Max(s)][g[s \ {Max(s)}]]
            <4> HIDE DEF step
            <4> QED
                BY <1>3, <2>1 DEF FoldedBy
        <3>2. Max(s) \in 1..n /\ g[s \ {Max(s)}] \in V
            BY <2>1, MaxOfPositions
        <3> QED
            BY <3>1, <3>2
    <2>2. g[{}] = <<>>
        <3> HIDE DEF step
        <3>1. {} \in SUBSET (1..n)
            OBVIOUS
        <3> QED
            BY <1>3, <3>1, Zenon DEF FoldedBy
    <2>3. g = [s \in SUBSET (1..n) |-> g[s]]
        OBVIOUS
    <2>4. \A s \in SUBSET (1..n) :
             g[s] = IF s = {} THEN <<>> ELSE Emit(key, g[s \ {Max(s)}], lines[Max(s)])
        BY <2>1, <2>2, Zenon
    <2>5. DOMAIN lines = 1..n
        OBVIOUS
    <2> HIDE DEF step
    <2> QED
        BY <2>3, <2>4, <2>5, Zenon
<1>5. Iterates(h)
    <2> HIDE DEF Iterates
    <2> QED
        BY <1>4
<1>6. Emitted(key, lines) = h[1..n]
    BY DEF Emitted, FoldLeft, MapThenFoldSet
<1> HIDE DEF h
<1>7. /\ h[{}] = <<>>
      /\ \A s \in SUBSET (1..n) : s # {} => h[s] = Emit(key, h[s \ {Max(s)}], lines[Max(s)])
    BY <1>5
<1>8. \A s \in SUBSET (1..n) : s # {} /\ h[s \ {Max(s)}] \in V =>
            h[s] = step[Max(s)][h[s \ {Max(s)}]]
    <2> HIDE DEF Iterates
    <2> QED
        BY <1>7, MaxOfPositions
<1>9. PICK pre \in [0..n -> V] : FoldPrefixes(n, <<>>, step, h, pre)
    <2> HIDE DEF step, Iterates
    <2>1. h[{}] = <<>>
        BY <1>7, Zenon
    <2>2. Unfolds(n, V, <<>>, step, h)
        BY <2>1, <1>8, Zenon DEF Unfolds
    <2> QED
        BY <1>0, <1>2, <2>2, FoldRuns
<1>10. \A k \in 1..n : pre[k] = Emit(key, pre[k - 1], lines[k])
    <2> HIDE DEF Iterates
    <2>1. \A k \in 1..n : k - 1 \in 0..n
        OBVIOUS
    <2> QED
        BY <1>9, <2>1 DEF FoldPrefixes
<1> HIDE DEF step, Iterates
<1>11. EmitPrefixes(key, n, lines, Emitted(key, lines), pre)
    BY <1>6, <1>9, <1>10 DEF FoldPrefixes, EmitPrefixes
<1> QED
    BY <1>11 DEF V

\* No header yet, or one with the key under it and nothing else private.
Unkeyed(out) == \A i \in DOMAIN out : out[i].t \notin {"interface", "private"}
Keyed(out) ==
    \E i \in DOMAIN out :
        /\ out[i].t = "interface"
        /\ \A j \in 1..(i - 1) : out[j].t # "interface"
        /\ {j \in DOMAIN out : out[j].t = "private"} = {i + 1}

\* No key at all.
NoPrivate(out) == \A i \in DOMAIN out : out[i].t # "private"

LEMMA EmitFirst ==
    ASSUME NEW U, NEW out \in Seq(ConfLine(U)), NEW l \in U, Unkeyed(out),
           l.t # "private", l.t = "interface" => IsHeader(l)
    PROVE  IF l.t = "interface" THEN Keyed(Emit(TRUE, out, l)) ELSE Unkeyed(Emit(TRUE, out, l))
<1> DEFINE n == Len(out)
<1>1. n \in Nat /\ DOMAIN out = 1..n /\ \A i \in 1..n : out[i].t \notin {"interface", "private"}
    BY DEF Unkeyed
<1>2. CASE l.t = "interface"
    <2> DEFINE new == out \o <<l, Line("private", None)>>
    <2>1. Emit(TRUE, out, l) = new
        BY <1>1, <1>2 DEF Emit
    <2>2. /\ DOMAIN new = 1..(n + 2)
          /\ \A i \in 1..n : new[i] = out[i]
          /\ new[n + 1] = l /\ new[n + 2] = Line("private", None)
        BY <1>1
    <2> HIDE DEF new, n
    <2>3. new[n + 1].t = "interface" /\ new[n + 2].t = "private"
        BY <1>2, <2>2 DEF Line
    <2>4. \A j \in 1..((n + 1) - 1) : new[j].t # "interface"
        BY <1>1, <2>2
    <2>5. {j \in DOMAIN new : new[j].t = "private"} = {(n + 1) + 1}
        <3>1. \A j \in 1..(n + 2) : j \in 1..n \/ j = n + 1 \/ j = n + 2
            BY <1>1
        <3>2. (n + 1) + 1 = n + 2 /\ n + 2 \in 1..(n + 2)
            BY <1>1
        <3>3. \A j \in 1..(n + 2) : new[j].t = "private" <=> j = n + 2
            BY <1>1, <2>2, <2>3, <3>1, <1>2
        <3> QED
            BY <2>2, <3>2, <3>3
    <2>6. n + 1 \in DOMAIN new
        BY <1>1, <2>2
    <2>7. Keyed(new)
        BY <2>3, <2>4, <2>5, <2>6 DEF Keyed
    <2> QED
        BY <1>2, <2>1, <2>7
<1>3. CASE l.t # "interface"
    <2>1. Emit(TRUE, out, l) = Append(out, l)
        BY <1>3 DEF Emit, IsHeader
    <2>2. \A i \in 1..(n + 1) : Append(out, l)[i] = IF i = n + 1 THEN l ELSE out[i]
        OBVIOUS
    <2>3. DOMAIN Append(out, l) = 1..(n + 1)
        OBVIOUS
    <2>4. Unkeyed(Append(out, l))
        <3>1. \A i \in 1..(n + 1) : i = n + 1 \/ i \in 1..n
            BY <1>1
        <3> HIDE DEF n
        <3> QED
            BY <1>1, <1>3, <2>2, <2>3, <3>1 DEF Unkeyed
    <2> QED
        BY <1>3, <2>1, <2>4
<1> QED
    BY <1>2, <1>3

LEMMA EmitMore ==
    ASSUME NEW U, NEW out \in Seq(ConfLine(U)), NEW l \in U, Keyed(out), l.t # "private"
    PROVE  Keyed(Emit(TRUE, out, l))
<1> DEFINE n == Len(out)
<1>1. n \in Nat /\ DOMAIN out = 1..n
    OBVIOUS
<1>2. PICK i \in 1..n :
        /\ out[i].t = "interface"
        /\ \A j \in 1..(i - 1) : out[j].t # "interface"
        /\ {j \in 1..n : out[j].t = "private"} = {i + 1}
    BY <1>1 DEF Keyed
<1>3. i + 1 \in 1..n /\ out[i + 1].t = "private"
    BY <1>2
<1>4. Emit(TRUE, out, l) = Append(out, l)
    BY <1>1, <1>3 DEF Emit
<1> DEFINE new == Append(out, l)
<1>5. /\ DOMAIN new = 1..(n + 1)
      /\ \A j \in 1..n : new[j] = out[j]
      /\ new[n + 1] = l
    OBVIOUS
<1> HIDE DEF new, n
<1>6. {j \in DOMAIN new : new[j].t = "private"} = {i + 1}
    <2>1. \A j \in 1..(n + 1) : j \in 1..n \/ j = n + 1
        BY <1>1
    <2>2. 1..n \subseteq 1..(n + 1)
        BY <1>1
    <2> QED
        BY <1>2, <1>3, <1>5, <2>1, <2>2
<1>7. i \in 1..(n + 1) /\ new[i] = out[i] /\ \A j \in 1..(i - 1) : j \in 1..n
    BY <1>1, <1>2, <1>5
<1>8. Keyed(new)
    <2>1. new[i].t = "interface"
        BY <1>2, <1>7
    <2>2. \A j \in 1..(i - 1) : new[j].t # "interface"
        BY <1>2, <1>5, <1>7
    <2> QED
        BY <2>1, <2>2, <1>5, <1>6, <1>7 DEF Keyed
<1> QED
    BY <1>4, <1>8 DEF new

\* Among the first k lines is a header.
HeaderUpTo(lines, k) == \E i \in 1..k : lines[i].t = "interface"

\* The key goes under the first of the headers.
LEMMA EmittedIsKeyed ==
    ASSUME NEW n \in Nat, NEW U, NEW lines, DOMAIN lines = 1..n,
           \A k \in 1..n : lines[k] \in U,
           \A l \in U : l.t # "private" /\ (l.t = "interface" => IsHeader(l)),
           HeaderUpTo(lines, n)
    PROVE  Keyed(Emitted(TRUE, lines))
<1> DEFINE V == Seq(ConfLine(U))
<1>1. PICK pre \in [0..n -> V] : EmitPrefixes(TRUE, n, lines, Emitted(TRUE, lines), pre)
    BY EmitRuns
<1> DEFINE Right(k) == IF HeaderUpTo(lines, k) THEN Keyed(pre[k]) ELSE Unkeyed(pre[k])
           Good == {k \in Nat : k \in 0..n => Right(k)}
<1> HIDE DEF V
<1>2. 0 \in Good
    <2>1. 1..0 = {}
        OBVIOUS
    <2>2. ~ HeaderUpTo(lines, 0)
        BY <2>1 DEF HeaderUpTo
    <2>3. pre[0] = <<>>
        BY <1>1 DEF EmitPrefixes
    <2>4. Unkeyed(<<>>)
        BY DEF Unkeyed
    <2> QED
        BY <2>2, <2>3, <2>4
<1>3. ASSUME NEW k \in Nat, k \in Good PROVE k + 1 \in Good
    <2> SUFFICES ASSUME k + 1 \in 0..n PROVE Right(k + 1)
        OBVIOUS
    <2>1. k \in 0..n /\ k + 1 \in 1..n /\ (k + 1) - 1 = k
        OBVIOUS
    <2>2. Right(k)
        BY <1>3, <2>1, Zenon
    <2>3. pre[k + 1] = Emit(TRUE, pre[k], lines[k + 1])
        <3>1. pre[k + 1] = Emit(TRUE, pre[(k + 1) - 1], lines[k + 1])
            BY <1>1, <2>1, Zenon DEF EmitPrefixes
        <3> QED
            BY <2>1, <3>1
    <2>4. pre[k] \in V /\ lines[k + 1] \in U
        BY <2>1
    <2>5. HeaderUpTo(lines, k + 1) <=>
            HeaderUpTo(lines, k) \/ lines[k + 1].t = "interface"
        <3>1. 1..(k + 1) = (1..k) \cup {k + 1}
            OBVIOUS
        <3> QED
            BY <3>1 DEF HeaderUpTo
    <2> HIDE DEF Good
    <2> DEFINE l == lines[k + 1]
               out == pre[k]
    <2>6. l \in U /\ out \in Seq(ConfLine(U)) /\ l.t # "private"
          /\ (l.t = "interface" => IsHeader(l))
        BY <2>4 DEF V
    <2>7. /\ HeaderUpTo(lines, k) => Keyed(out)
          /\ ~ HeaderUpTo(lines, k) => Unkeyed(out)
        BY <2>2
    <2>8. pre[k + 1] = Emit(TRUE, out, l) /\
          (HeaderUpTo(lines, k + 1) <=> HeaderUpTo(lines, k) \/ l.t = "interface")
        BY <2>3, <2>5
    <2> HIDE DEF l, out
    <2>9. CASE HeaderUpTo(lines, k)
        <3>1. Keyed(Emit(TRUE, out, l))
            BY <2>6, <2>7, <2>9, EmitMore
        <3> QED
            BY <2>8, <2>9, <3>1
    <2>10. CASE ~ HeaderUpTo(lines, k)
        <3>1. IF l.t = "interface" THEN Keyed(Emit(TRUE, out, l)) ELSE Unkeyed(Emit(TRUE, out, l))
            BY <2>6, <2>7, <2>10, EmitFirst
        <3> QED
            BY <2>8, <2>10, <3>1
    <2> QED
        BY <2>9, <2>10
<1>4. n \in Good
    <2> HIDE DEF Good
    <2> QED
        BY <1>2, <1>3, Induction
<1>5. n \in 0..n
    OBVIOUS
<1>6. Right(n)
    BY <1>4, <1>5, Zenon
<1> QED
    BY <1>1, <1>6 DEF EmitPrefixes

\* Without a key the conf is the lines as they are.
LEMMA EmittedWithout ==
    ASSUME NEW n \in Nat, NEW U, NEW lines, DOMAIN lines = 1..n,
           \A k \in 1..n : lines[k] \in U,
           \A l \in U : l.t # "private"
    PROVE  NoPrivate(Emitted(FALSE, lines))
<1> DEFINE V == Seq(ConfLine(U))
<1>1. PICK pre \in [0..n -> V] : EmitPrefixes(FALSE, n, lines, Emitted(FALSE, lines), pre)
    BY EmitRuns
<1> DEFINE Good == {k \in Nat : k \in 0..n => NoPrivate(pre[k])}
<1> HIDE DEF V
<1>2. 0 \in Good
    <2>1. pre[0] = <<>>
        BY <1>1 DEF EmitPrefixes
    <2>2. NoPrivate(<<>>)
        BY DEF NoPrivate
    <2> QED
        BY <2>1, <2>2
<1>3. ASSUME NEW k \in Nat, k \in Good PROVE k + 1 \in Good
    <2> SUFFICES ASSUME k + 1 \in 0..n PROVE NoPrivate(pre[k + 1])
        OBVIOUS
    <2>1. k \in 0..n /\ k + 1 \in 1..n /\ (k + 1) - 1 = k
        OBVIOUS
    <2>2. NoPrivate(pre[k])
        BY <1>3, <2>1, Zenon
    <2>3. pre[k + 1] = Emit(FALSE, pre[k], lines[k + 1])
        <3>1. pre[k + 1] = Emit(FALSE, pre[(k + 1) - 1], lines[k + 1])
            BY <1>1, <2>1, Zenon DEF EmitPrefixes
        <3> QED
            BY <2>1, <3>1
    <2>4. pre[k] \in V /\ lines[k + 1] \in U
        BY <2>1
    <2> HIDE DEF Good
    <2> DEFINE l == lines[k + 1]
               out == pre[k]
    <2>5. out \in Seq(ConfLine(U)) /\ l.t # "private" /\ NoPrivate(out)
          /\ pre[k + 1] = Append(out, l)
        BY <2>2, <2>3, <2>4 DEF V, Emit
    <2> HIDE DEF l, out
    <2>6. /\ Len(out) \in Nat /\ DOMAIN out = 1..Len(out)
          /\ DOMAIN Append(out, l) = 1..(Len(out) + 1)
          /\ \A i \in 1..(Len(out) + 1) :
                Append(out, l)[i] = IF i = Len(out) + 1 THEN l ELSE out[i]
        BY <2>5
    <2>7. \A i \in 1..(Len(out) + 1) : i = Len(out) + 1 \/ i \in 1..Len(out)
        BY <2>6
    <2> QED
        BY <2>5, <2>6, <2>7 DEF NoPrivate
<1>4. n \in Good
    <2> HIDE DEF Good
    <2> QED
        BY <1>2, <1>3, Induction
<1>5. n \in 0..n
    OBVIOUS
<1>6. NoPrivate(pre[n])
    BY <1>4, <1>5, Zenon
<1> QED
    BY <1>1, <1>6 DEF EmitPrefixes

\* The lines of the partials.
LinesOf(ps) == UNION {ToSet(p.lines) : p \in ToSet(ps)}

LEMMA PartLines ==
    ASSUME NEW ps, Parts(ps)
    PROVE  \A i \in 1..Len(ps) : ps[i].lines \in Seq(LinesOf(ps))
<1> SUFFICES ASSUME NEW i \in 1..Len(ps) PROVE ps[i].lines \in Seq(LinesOf(ps))
    OBVIOUS
<1> DEFINE ls == ps[i].lines
<1>1. ps[i] \in ToSet(ps) /\ Part(ps[i])
    BY Elements DEF Parts
<1>2. ls \in Seq(ToSet(ls)) /\ ToSet(ls) \subseteq LinesOf(ps)
    BY <1>1 DEF Part, LinesOf
<1> HIDE DEF ls
<1>3. /\ Len(ls) \in Nat /\ DOMAIN ls = 1..Len(ls)
      /\ \A j \in 1..Len(ls) : ls[j] \in LinesOf(ps)
    BY <1>2, Elements
<1>4. ls = [j \in 1..Len(ls) |-> ls[j]]
    BY <1>2
<1>5. ls \in [1..Len(ls) -> LinesOf(ps)]
    BY <1>3, <1>4
<1>6. ls \in Seq(LinesOf(ps))
    BY <1>3, <1>5
<1> QED
    BY <1>6 DEF ls

LEMMA CompiledIsKeyed ==
    ASSUME NEW ps, Parts(ps), HasInterface(ps), Noteless
    PROVE  Keyed(Compiled(ps, TRUE))
<1> DEFINE n == Len(ps)
           U == LinesOf(ps)
           seqs == [i \in DOMAIN ps |-> ps[i].lines]
           flat == FlattenSeq(seqs)
<1>1. n \in Nat /\ DOMAIN ps = 1..n /\ \A i \in 1..n : ps[i] \in ToSet(ps) /\ Part(ps[i])
    BY Elements DEF Parts
<1>2. \A l \in U : Ready(l)
    BY DEF Parts, Part, LinesOf
<1>3. \A l \in U : l.t # "private" /\ (l.t = "interface" => IsHeader(l))
    <2> HIDE DEF U
    <2> QED
        BY <1>2 DEF Ready, IsHeader
<1>4. \A i \in 1..n : ps[i].lines \in Seq(U)
    BY PartLines
<1>5. PICK p \in ToSet(ps) : \E l \in ToSet(p.lines) : l.t = "interface"
    BY DEF HasInterface
<1>6. PICK i \in 1..n : \E j \in DOMAIN ps[i].lines : ps[i].lines[j].t = "interface"
    BY <1>1, <1>5 DEF ToSet
<1>7. PICK j \in DOMAIN ps[i].lines : ps[i].lines[j].t = "interface"
    BY <1>6
<1> HIDE DEF U, n
<1>8. n \in Nat \ {0} /\ seqs \in [1..n -> Seq(U)] /\ \A k \in 1..n : seqs[k] = ps[k].lines
    BY <1>1, <1>4
<1>9. Occurs(ps[i].lines[j], seqs[i])
    BY <1>8 DEF Occurs
<1> HIDE DEF seqs
<1>10. flat \in Seq(U) /\ Occurs(ps[i].lines[j], flat)
    BY <1>8, <1>9, FlattenIs
<1> HIDE DEF flat
<1>11. PICK k \in DOMAIN flat : flat[k].t = "interface"
    BY <1>7, <1>10 DEF Occurs
<1>12. Len(flat) \in Nat /\ DOMAIN flat = 1..Len(flat) /\ \A m \in 1..Len(flat) : flat[m] \in U
    BY <1>10
<1>13. HeaderUpTo(flat, Len(flat))
    BY <1>11, <1>12 DEF HeaderUpTo
<1>14. Keyed(Emitted(TRUE, flat))
    BY <1>3, <1>12, <1>13, EmittedIsKeyed
<1> QED
    BY <1>14 DEF Compiled, flat, seqs

LEMMA CompiledWithout ==
    ASSUME NEW ps, Parts(ps), HasInterface(ps)
    PROVE  NoPrivate(Compiled(ps, FALSE))
<1> DEFINE n == Len(ps)
           U == LinesOf(ps)
           seqs == [i \in DOMAIN ps |-> ps[i].lines]
           flat == FlattenSeq(seqs)
<1>1. n \in Nat /\ DOMAIN ps = 1..n /\ \A i \in 1..n : ps[i] \in ToSet(ps) /\ Part(ps[i])
    BY Elements DEF Parts
<1>2. \A l \in U : l.t # "private"
    BY DEF Parts, Part, LinesOf, Ready
<1>3. \A i \in 1..n : ps[i].lines \in Seq(U)
    BY PartLines
<1>4. n # 0
    BY <1>1 DEF HasInterface, ToSet
<1> HIDE DEF U, n
<1>5. n \in Nat \ {0} /\ seqs \in [1..n -> Seq(U)]
    BY <1>1, <1>3, <1>4
<1> HIDE DEF seqs
<1>6. flat \in Seq(U)
    BY <1>5, FlattenIs
<1> HIDE DEF flat
<1>7. Len(flat) \in Nat /\ DOMAIN flat = 1..Len(flat) /\ \A m \in 1..Len(flat) : flat[m] \in U
    BY <1>6
<1>8. NoPrivate(Emitted(FALSE, flat))
    BY <1>2, <1>7, EmittedWithout
<1> QED
    BY <1>8 DEF Compiled, flat, seqs

KeyInv ==
    /\ hasKey \in BOOLEAN
    /\ pc = "compile" => HasInterface(partials)
    /\ pc # "done" => reply = "none"
    /\ reply \in {"added", "removed"} => IF hasKey THEN Keyed(conf) ELSE NoPrivate(conf)

\* KeyOnce for every folder without a remark after a header: compile_network
\* injects the private key once, under the first header, or none if it is blank.
THEOREM KeyInjectedOnce ==
    ASSUME Noteless
    PROVE  Spec => []KeyOnce
<1>1. Init => KeyInv
    BY CasesAssumption DEF Init, KeyInv
<1>2. KeyInv /\ Parts(partials) /\ [Next]_vars => KeyInv'
    <2> SUFFICES ASSUME KeyInv, Parts(partials), [Next]_vars PROVE KeyInv'
        OBVIOUS
    <2>0. hasKey' = hasKey
        BY DEF Next, Function, LoadVars, LoadPartials, Decide, Find, Walk, Full, Author,
               Check, Compile, Ended, Refuse, Fail, Return, Answer, Delete, command, vars, given
    <2>1. CASE pc # "done" /\ \E r \in {"refused", "failed"} : Return(r)
        BY <2>0, <2>1 DEF Return, KeyInv
    <2>2. CASE pc # "done" /\ \E r \in {"present", "absent"} : Answer(r)
        BY <2>0, <2>2 DEF Answer, KeyInv
    <2>3. CASE pc # "done" /\ pc' \notin {"compile", "done"} /\ UNCHANGED <<conf, reply>>
        BY <2>0, <2>3 DEF KeyInv
    <2>4. CASE Check
        <3>1. CASE Accepts(partials, table)
            BY <2>0, <2>4, <3>1 DEF Check, Accepts, KeyInv, output, network, HasInterface
        <3> QED
            BY <2>1, <2>4, <3>1 DEF Check, Refuse
    <2>5. CASE Compile
        <3>1. CASE conf' = Compiled(partials, hasKey) /\ pc' = "done"
            <4>1. HasInterface(partials)
                BY <2>5 DEF Compile, KeyInv
            <4>2. CASE hasKey = TRUE
                <5>1. Keyed(conf')
                    BY <3>1, <4>1, <4>2, CompiledIsKeyed
                <5> QED
                    BY <2>0, <3>1, <4>2, <5>1 DEF KeyInv, Keyed
            <4>3. CASE hasKey = FALSE
                <5>1. NoPrivate(conf')
                    BY <3>1, <4>1, <4>3, CompiledWithout
                <5> QED
                    BY <2>0, <3>1, <4>3, <5>1 DEF KeyInv, NoPrivate
            <4> QED
                BY <4>2, <4>3 DEF KeyInv
        <3> QED
            BY <2>1, <2>5, <3>1 DEF Compile, Fail
    <2>6. CASE LoadVars \/ LoadPartials \/ Decide \/ Find \/ Full \/ Author
        BY <2>6, <2>1, <2>2, <2>3
           DEF LoadVars, LoadPartials, Decide, Find, Delete, Full, Author, Refuse, Fail, output
    <2>7. CASE Walk \/ Ended \/ UNCHANGED vars
        <3>1. UNCHANGED <<pc, partials, conf, reply>>
            BY <2>7 DEF Walk, Ended, vars, command, network, output
        <3> QED
            BY <2>0, <3>1 DEF KeyInv, HasInterface, Keyed, NoPrivate
    <2> QED
        BY <2>4, <2>5, <2>6, <2>7 DEF Next, Function
<1>3. KeyInv => KeyOnce
    BY DEF KeyInv, KeyOnce, Keyed, NoPrivate
<1> QED
    BY <1>1, <1>2, <1>3, PartsHold, PTL DEF Spec
-----------------------------------------------------------------------------
(***************************************************************************)
(* The scan: what it is in the middle of, and what it has found.            *)
(***************************************************************************)
Named == Label \cup {None} \cup Value
ScanState ==
    [inPeer : BOOLEAN,
     cur    : [key : Key \cup Value \cup {None}, addr : Word \cup {None},
               name : Named, file : FileName \cup {None}],
     name   : Named,
     file   : FileName \cup {None},
     out    : Seq(Assignment),
     bad    : BOOLEAN]

\* A block that is open belongs to a file.
Scanning == {s \in ScanState : s.inPeer => s.cur.file \in FileName}
InFile == {s \in Scanning : s.file \in FileName}

\* A block that is neither empty nor half is a peer.
LEMMA BlockIsPeer ==
    ASSUME NEW s \in Scanning, s.inPeer, ~ Half(s.cur), ~ Stub(s.cur)
    PROVE  s.cur \in Assignment
    BY DEF Scanning, ScanState, Half, Stub, Assignment, Named

LEMMA FlushType ==
    ASSUME NEW s \in Scanning
    PROVE  Flush(s) \in Scanning /\ Flush(s).file = s.file
<1>1. CASE ~ s.inPeer
    BY <1>1 DEF Flush
<1>2. CASE s.inPeer /\ Half(s.cur)
    BY <1>2 DEF Flush, Scanning, ScanState
<1>3. CASE s.inPeer /\ ~ Half(s.cur)
    <2> DEFINE out == IF Stub(s.cur) THEN s.out ELSE Append(s.out, s.cur)
    <2>1. out \in Seq(Assignment)
        BY <1>3, BlockIsPeer DEF Scanning, ScanState
    <2>2. Flush(s) = [s EXCEPT !.inPeer = FALSE, !.out = out]
        BY <1>3 DEF Flush
    <2> HIDE DEF out
    <2> QED
        BY <2>1, <2>2 DEF Scanning, ScanState
<1> QED
    BY <1>1, <1>2, <1>3

\* What is read of a label is again a name.
LEMMA NameRead ==
    ASSUME NEW val \in Named
    PROVE  ReadName(val) \in Named
<1>1. \A x \in Label : Bare[x] \in Label \cup {None}
    BY CasesAssumption
<1> QED
    BY <1>1 DEF ReadName, Named

LEMMA ScanType ==
    ASSUME NEW s \in InFile, NEW l, Ready(l)
    PROVE  Scan(s, l) \in InFile
<1>1. CASE s.bad \/ l.t \in {"var", "text"}
    BY <1>1 DEF Scan
<1>2. CASE ~ s.bad /\ l.t = "name"
    <2>1. ReadName(l.val) \in Named
        BY <1>2, NameRead DEF Ready, Named
    <2>2. Scan(s, l) = [s EXCEPT !.name = ReadName(l.val)]
        BY <1>2 DEF Scan
    <2> QED
        BY <2>1, <2>2 DEF InFile, Scanning, ScanState
<1>3. CASE ~ s.bad /\ l.t = "interface"
    BY <1>3, FlushType DEF Scan, InFile
<1>4. CASE ~ s.bad /\ l.t = "peer"
    <2> DEFINE f == Flush(s)
    <2>1. f \in Scanning
        BY FlushType DEF InFile
    <2>2. Scan(s, l) = [f EXCEPT !.inPeer = TRUE, !.name = None,
                                 !.cur = Opened(s.name, s.file)]
        BY <1>4 DEF Scan
    <2>3. f.file \in FileName
        BY FlushType DEF InFile
    <2> HIDE DEF f
    <2>4. s.name \in Named /\ s.file \in FileName
        BY DEF InFile, Scanning, ScanState
    <2>5. Opened(s.name, s.file) \in [key : Key \cup Value \cup {None}, addr : Word \cup {None},
                                      name : Named, file : FileName \cup {None}]
          /\ Opened(s.name, s.file).file \in FileName
        BY <2>4 DEF Opened
    <2>6. None \in Named
        BY DEF Named
    <2> QED
        BY <2>1, <2>2, <2>3, <2>5, <2>6 DEF InFile, Scanning, ScanState
<1>5. CASE ~ s.bad /\ l.t = "key"
    <2>1. l.val \in Key \cup Value
        BY <1>5 DEF Ready
    <2>2. Scan(s, l) = IF s.inPeer THEN [s EXCEPT !.cur.key = l.val] ELSE s
        BY <1>5 DEF Scan
    <2> QED
        BY <2>1, <2>2 DEF InFile, Scanning, ScanState
<1>6. CASE ~ s.bad /\ l.t = "ips"
    <2>1. l.val.addr \in Word
        BY <1>6, SpanAssumption DEF Ready, Value, NotACidr, Cidr, Word
    <2>2. Scan(s, l) = IF s.inPeer
                       THEN IF l.val = NotACidr THEN [s EXCEPT !.bad = TRUE]
                            ELSE [s EXCEPT !.cur.addr = l.val.addr]
                       ELSE s
        BY <1>6 DEF Scan
    <2>3. CASE s.inPeer /\ l.val # NotACidr
        <3>1. Scan(s, l) = [s EXCEPT !.cur.addr = l.val.addr]
            BY <2>2, <2>3
        <3> QED
            BY <2>1, <3>1 DEF InFile, Scanning, ScanState
    <2>4. CASE ~ (s.inPeer /\ l.val # NotACidr)
        BY <2>2, <2>4 DEF InFile, Scanning, ScanState
    <2> QED
        BY <2>3, <2>4
<1> QED
    BY <1>1, <1>2, <1>3, <1>4, <1>5, <1>6 DEF Ready

\* pre is what the scan has found after each prefix of the lines of a file.
ScanPrefixes(n, lines, base, pre) ==
    /\ pre[0] = base /\ pre[n] = FoldLeft(Scan, base, lines)
    /\ \A k \in 1..n : pre[k] = Scan(pre[k - 1], lines[k])

LEMMA ScanRuns ==
    ASSUME NEW n \in Nat, NEW lines, DOMAIN lines = 1..n,
           \A k \in 1..n : Ready(lines[k]), NEW base \in InFile
    PROVE  \E pre \in [0..n -> InFile] : ScanPrefixes(n, lines, base, pre)
<1> DEFINE step == [k \in 1..n |-> [t \in InFile |-> Scan(t, lines[k])]]
           Iterates(it) ==
              it = [s \in SUBSET (DOMAIN lines) |->
                        IF s = {} THEN base ELSE Scan(it[s \ {Max(s)}], lines[Max(s)])]
           h == CHOOSE it : Iterates(it)
<1>1. ASSUME NEW k \in 1..n, NEW t \in InFile PROVE Scan(t, lines[k]) \in InFile
    BY ScanType
<1>2. step \in [1..n -> [InFile -> InFile]]
    BY <1>1
<1>3. PICK g \in [SUBSET (1..n) -> InFile] : FoldedBy(n, base, step, g)
    <2> HIDE DEF step
    <2> QED
        BY <1>2, FoldExists
<1>4. Iterates(g)
    <2>1. ASSUME NEW s \in SUBSET (1..n), s # {}
          PROVE  g[s] = Scan(g[s \ {Max(s)}], lines[Max(s)])
        <3>1. g[s] = step[Max(s)][g[s \ {Max(s)}]]
            <4> HIDE DEF step
            <4> QED
                BY <1>3, <2>1 DEF FoldedBy
        <3>2. Max(s) \in 1..n /\ g[s \ {Max(s)}] \in InFile
            BY <2>1, MaxOfPositions
        <3> QED
            BY <3>1, <3>2
    <2>2. g[{}] = base
        <3> HIDE DEF step
        <3>1. {} \in SUBSET (1..n)
            OBVIOUS
        <3> QED
            BY <1>3, <3>1, Zenon DEF FoldedBy
    <2>3. g = [s \in SUBSET (1..n) |-> g[s]]
        OBVIOUS
    <2>4. \A s \in SUBSET (1..n) :
             g[s] = IF s = {} THEN base ELSE Scan(g[s \ {Max(s)}], lines[Max(s)])
        BY <2>1, <2>2, Zenon
    <2>5. DOMAIN lines = 1..n
        OBVIOUS
    <2> HIDE DEF step
    <2> QED
        BY <2>3, <2>4, <2>5, Zenon
<1>5. Iterates(h)
    <2> HIDE DEF Iterates
    <2> QED
        BY <1>4
<1>6. FoldLeft(Scan, base, lines) = h[1..n]
    BY DEF FoldLeft, MapThenFoldSet
<1> HIDE DEF h
<1>7. /\ h[{}] = base
      /\ \A s \in SUBSET (1..n) : s # {} => h[s] = Scan(h[s \ {Max(s)}], lines[Max(s)])
    BY <1>5
<1>8. \A s \in SUBSET (1..n) : s # {} /\ h[s \ {Max(s)}] \in InFile =>
            h[s] = step[Max(s)][h[s \ {Max(s)}]]
    <2> HIDE DEF Iterates
    <2> QED
        BY <1>7, MaxOfPositions
<1>9. PICK pre \in [0..n -> InFile] : FoldPrefixes(n, base, step, h, pre)
    <2> HIDE DEF step, Iterates
    <2>1. h[{}] = base
        BY <1>7, Zenon
    <2>2. Unfolds(n, InFile, base, step, h)
        BY <2>1, <1>8, Zenon DEF Unfolds
    <2> QED
        BY <1>2, <2>2, FoldRuns
<1>10. \A k \in 1..n : pre[k] = Scan(pre[k - 1], lines[k])
    <2> HIDE DEF Iterates
    <2>1. \A k \in 1..n : k - 1 \in 0..n
        OBVIOUS
    <2> QED
        BY <1>9, <2>1 DEF FoldPrefixes
<1> HIDE DEF step, Iterates
<1>11. ScanPrefixes(n, lines, base, pre)
    BY <1>6, <1>9, <1>10 DEF FoldPrefixes, ScanPrefixes
<1> QED
    BY <1>11

LEMMA ScanFileType ==
    ASSUME NEW s \in Scanning, NEW part, Part(part)
    PROVE  ScanFile(s, part) \in Scanning
<1> DEFINE lines == part.lines
           base == [s EXCEPT !.name = None, !.file = part.path]
<1>1. Len(lines) \in Nat /\ DOMAIN lines = 1..Len(lines) /\ \A k \in 1..Len(lines) : Ready(lines[k])
    BY Elements DEF Part
<1>2. base \in InFile
    <2>1. part.path \in FileName /\ None \in Named
        BY DEF Part, Named
    <2> QED
        BY <2>1 DEF InFile, Scanning, ScanState
<1> HIDE DEF lines, base
<1>3. FoldLeft(Scan, base, lines) \in Scanning
    <2> DEFINE n == Len(lines)
    <2>1. PICK pre \in [0..n -> InFile] : ScanPrefixes(n, lines, base, pre)
        BY <1>1, <1>2, ScanRuns
    <2>2. pre[n] \in InFile
        BY <1>1, n \in 0..n
    <2> QED
        BY <2>1, <2>2 DEF ScanPrefixes, InFile
<1>4. ScanFile(s, part) = Flush(FoldLeft(Scan, base, lines))
    BY DEF ScanFile, lines, base
<1> QED
    BY <1>3, <1>4, FlushType

\* pre is what the scan has found after each prefix of the files.
FilePrefixes(n, parts, base, pre) ==
    /\ pre[0] = base /\ pre[n] = FoldLeft(ScanFile, base, parts)
    /\ \A k \in 1..n : pre[k] = ScanFile(pre[k - 1], parts[k])

LEMMA FileRuns ==
    ASSUME NEW n \in Nat, NEW parts, DOMAIN parts = 1..n,
           \A k \in 1..n : Part(parts[k]), NEW base \in Scanning
    PROVE  \E pre \in [0..n -> Scanning] : FilePrefixes(n, parts, base, pre)
<1> DEFINE step == [k \in 1..n |-> [t \in Scanning |-> ScanFile(t, parts[k])]]
           Iterates(it) ==
              it = [s \in SUBSET (DOMAIN parts) |->
                        IF s = {} THEN base ELSE ScanFile(it[s \ {Max(s)}], parts[Max(s)])]
           h == CHOOSE it : Iterates(it)
<1>1. ASSUME NEW k \in 1..n, NEW t \in Scanning PROVE ScanFile(t, parts[k]) \in Scanning
    BY ScanFileType
<1>2. step \in [1..n -> [Scanning -> Scanning]]
    BY <1>1
<1>3. PICK g \in [SUBSET (1..n) -> Scanning] : FoldedBy(n, base, step, g)
    <2> HIDE DEF step
    <2> QED
        BY <1>2, FoldExists
<1>4. Iterates(g)
    <2>1. ASSUME NEW s \in SUBSET (1..n), s # {}
          PROVE  g[s] = ScanFile(g[s \ {Max(s)}], parts[Max(s)])
        <3>1. g[s] = step[Max(s)][g[s \ {Max(s)}]]
            <4> HIDE DEF step
            <4> QED
                BY <1>3, <2>1 DEF FoldedBy
        <3>2. Max(s) \in 1..n /\ g[s \ {Max(s)}] \in Scanning
            BY <2>1, MaxOfPositions
        <3> QED
            BY <3>1, <3>2
    <2>2. g[{}] = base
        <3> HIDE DEF step
        <3>1. {} \in SUBSET (1..n)
            OBVIOUS
        <3> QED
            BY <1>3, <3>1, Zenon DEF FoldedBy
    <2>3. g = [s \in SUBSET (1..n) |-> g[s]]
        OBVIOUS
    <2>4. \A s \in SUBSET (1..n) :
             g[s] = IF s = {} THEN base ELSE ScanFile(g[s \ {Max(s)}], parts[Max(s)])
        BY <2>1, <2>2, Zenon
    <2>5. DOMAIN parts = 1..n
        OBVIOUS
    <2> HIDE DEF step
    <2> QED
        BY <2>3, <2>4, <2>5, Zenon
<1>5. Iterates(h)
    <2> HIDE DEF Iterates
    <2> QED
        BY <1>4
<1>6. FoldLeft(ScanFile, base, parts) = h[1..n]
    BY DEF FoldLeft, MapThenFoldSet
<1> HIDE DEF h
<1>7. /\ h[{}] = base
      /\ \A s \in SUBSET (1..n) : s # {} => h[s] = ScanFile(h[s \ {Max(s)}], parts[Max(s)])
    BY <1>5
<1>8. \A s \in SUBSET (1..n) : s # {} /\ h[s \ {Max(s)}] \in Scanning =>
            h[s] = step[Max(s)][h[s \ {Max(s)}]]
    <2> HIDE DEF Iterates
    <2> QED
        BY <1>7, MaxOfPositions
<1>9. PICK pre \in [0..n -> Scanning] : FoldPrefixes(n, base, step, h, pre)
    <2> HIDE DEF step, Iterates
    <2>1. h[{}] = base
        BY <1>7, Zenon
    <2>2. Unfolds(n, Scanning, base, step, h)
        BY <2>1, <1>8, Zenon DEF Unfolds
    <2> QED
        BY <1>2, <2>2, FoldRuns
<1>10. \A k \in 1..n : pre[k] = ScanFile(pre[k - 1], parts[k])
    <2> HIDE DEF Iterates
    <2>1. \A k \in 1..n : k - 1 \in 0..n
        OBVIOUS
    <2> QED
        BY <1>9, <2>1 DEF FoldPrefixes
<1> HIDE DEF step, Iterates
<1>11. FilePrefixes(n, parts, base, pre)
    BY <1>6, <1>9, <1>10 DEF FoldPrefixes, FilePrefixes
<1> QED
    BY <1>11

\* The scan of the partials finds peers.
LEMMA CollectedType ==
    ASSUME NEW ps, Parts(ps)
    PROVE  Collected(ps) \in Scanning
<1> DEFINE base == [inPeer |-> FALSE, cur |-> Opened(None, None), name |-> None,
                    file |-> None, out |-> <<>>, bad |-> FALSE]
<1>1. base \in Scanning
    <2>1. <<>> \in Seq(Assignment)
        OBVIOUS
    <2> QED
        BY <2>1 DEF Scanning, ScanState, Opened, Named
<1>2. Len(ps) \in Nat /\ DOMAIN ps = 1..Len(ps) /\ \A k \in 1..Len(ps) : Part(ps[k])
    BY Elements DEF Parts
<1>3. Collected(ps) = FoldLeft(ScanFile, base, ps)
    BY DEF Collected
<1> HIDE DEF base
<1> QED
    <2> DEFINE n == Len(ps)
    <2>1. PICK pre \in [0..n -> Scanning] : FilePrefixes(n, ps, base, pre)
        BY <1>1, <1>2, FileRuns
    <2>2. pre[n] \in Scanning
        BY <1>2, n \in 0..n
    <2> QED
        BY <2>1, <2>2, <1>3 DEF FilePrefixes

Pcs == {"vars", "partials", "decide", "find", "walk", "check", "compile", "done"}
Replies == {"none", "present", "added", "absent", "removed", "refused", "failed"}

\* What the scan finds are assignments.
LEMMA FoundType ==
    ASSUME NEW ps, Parts(ps)
    PROVE  ToSet(Collected(ps).out) \subseteq Assignment
<1>1. Collected(ps).out \in Seq(Assignment)
    BY CollectedType DEF Scanning, ScanState
<1> QED
    BY <1>1 DEF ToSet

\* TypeOK for every folder and every request.
THEOREM TypeCorrect == Spec => []TypeOK
<1> DEFINE Rest ==
            /\ WalkTypeOK
            /\ pc \in Pcs /\ reply \in Replies
            /\ ToSet(existing) \cup ToSet(assigns) \subseteq Assignment
<1>1. Init => Rest
    <2> SUFFICES ASSUME Init PROVE Rest
        OBVIOUS
    <2>1. ToSet(<<>>) = {}
        BY DEF ToSet
    <2>2. WalkTypeOK
        BY WalkInvInit, SpanAssumption DEF Init, WalkInit, WalkTypeOK, WalkInv, Word
    <2> QED
        BY <2>1, <2>2 DEF Init, Pcs, Replies
<1>2. Rest /\ Parts(partials) /\ WalkInv /\ WalkInv' /\ TableInv /\ [Next]_vars => Rest'
    <2> SUFFICES ASSUME Rest, Parts(partials), WalkInv, WalkInv', TableInv, [Next]_vars
                 PROVE  Rest'
        OBVIOUS
    <2>1. CASE UNCHANGED <<walk, peers>> /\ pc' \in Pcs /\ reply' \in Replies
        BY <2>1 DEF walk, peers, WalkTypeOK
    <2>2. CASE \E r \in {"refused", "failed"} : Return(r)
        BY <2>2, <2>1 DEF Return, Pcs, Replies
    <2>3. CASE (\E r \in {"present", "absent"} : Answer(r)) /\ UNCHANGED walk
        BY <2>3, <2>1 DEF Answer, Pcs, Replies
    <2>4. CASE Decide
        <3>1. CASE Refuse
            BY <3>1, <2>2 DEF Refuse
        <3>2. CASE Answer("present")
            BY <3>2, <2>3 DEF Answer
        <3>3. CASE \E found, known :
                    /\ found = Collected(partials) /\ known = ToSet(found.out)
                    /\ table["subnet"] \in Cidr /\ table["address"] \in Cidr
                    /\ Begin(SubnetOf(table["subnet"]), Taken(table, known))
                    /\ existing' = found.out
                    /\ pc' = "walk"
                    /\ UNCHANGED <<assigns, output>>
            <4> DEFINE known == ToSet(Collected(partials).out)
            <4>1. /\ table["address"] \in Cidr
                  /\ Begin(SubnetOf(table["subnet"]), Taken(table, known))
                  /\ existing' = Collected(partials).out /\ pc' = "walk"
                  /\ UNCHANGED <<assigns, reply>>
                BY <3>3 DEF output
            <4>2. known \subseteq Assignment
                BY FoundType
            <4> HIDE DEF known
            <4>3. Taken(table, known) \in SUBSET Word
                BY <4>1, <4>2 DEF Taken, Cidr, Assignment
            <4>4. used' \in SUBSET Word
                BY <4>1, <4>3 DEF Begin
            <4>5. host' \in Word
                BY <4>1 DEF Begin, WalkInv, HostsOf, WalkTypeOK
            <4>6. WalkTypeOK'
                BY <4>4, <4>5 DEF WalkTypeOK, WalkInv
            <4>7. ToSet(existing') \subseteq Assignment
                BY <4>1, <4>2 DEF known
            <4> QED
                BY <4>1, <4>6, <4>7 DEF Pcs
        <3> QED
            BY <2>4, <3>1, <3>2, <3>3 DEF Decide
    <2>5. CASE Find
        <3>1. CASE Refuse \/ Fail
            BY <3>1, <2>2 DEF Refuse, Fail
        <3>2. CASE Answer("absent")
            BY <3>2, <2>3 DEF Answer
        <3>3. CASE \E i \in DOMAIN partials : Delete(partials[i].path) /\ ~ Fail
            <4>1. /\ existing' = Collected(partials).out /\ pc' = "vars"
                  /\ UNCHANGED <<assigns, reply, walk>>
                BY <3>3 DEF Delete, output
            <4>2. ToSet(Collected(partials).out) \subseteq Assignment
                BY FoundType
            <4> QED
                BY <4>1, <4>2 DEF Pcs, walk, WalkTypeOK
        <3> QED
            BY <2>5, <3>1, <3>2, <3>3 DEF Find
    <2>6. CASE Walk
        <3>1. UNCHANGED <<pc, reply, existing, assigns, used>>
            BY <2>6 DEF Walk, command, output, peers, Take, Step
        <3>2. host' \in Word
            BY <2>6 DEF Walk, Take, Step, WalkInv, HostsOf, WalkTypeOK
        <3>3. WalkTypeOK'
            BY <3>1, <3>2 DEF WalkTypeOK, WalkInv
        <3> QED
            BY <3>1, <3>3
    <2>7. CASE Check
        <3>1. CASE Accepts(partials, table)
            <4>1. /\ assigns' = Collected(partials).out /\ pc' = "compile"
                  /\ UNCHANGED <<existing, reply, walk>>
                BY <2>7, <3>1 DEF Check, output
            <4>2. ToSet(Collected(partials).out) \subseteq Assignment
                BY FoundType
            <4> QED
                BY <4>1, <4>2 DEF Pcs, walk, WalkTypeOK
        <3> QED
            BY <2>2, <2>7, <3>1 DEF Check, Refuse
    <2>8. CASE LoadVars \/ LoadPartials \/ Full \/ Author \/ Compile
        BY <2>8, <2>1, <2>2 DEF LoadVars, LoadPartials, Full, Author, Compile, Refuse, Fail,
                                output, Pcs, Replies
    <2>9. CASE Ended \/ UNCHANGED vars
        BY <2>9, <2>1 DEF Ended, vars, command, output
    <2> QED
        BY <2>4, <2>5, <2>6, <2>7, <2>8, <2>9 DEF Next, Function
<1>3. Rest /\ TextInv /\ TableInv /\ FolderInv => TypeOK
    BY DEF TypeOK, Pcs, Replies, TextInv, Dir, TableInv, Tab, FolderInv
<1> QED
    BY <1>1, <1>2, <1>3, PartsHold, WalkInvHolds, TableInvHolds, TextInvHolds, FolderInvHolds,
       PTL DEF Spec
=============================================================================
