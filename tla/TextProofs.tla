----------------------------- MODULE TextProofs -----------------------------
(***************************************************************************)
(* Theorem about Sources for every text: what scan_placeholders cuts it into *)
(* renders the values, escapes and characters that vars.h describes by      *)
(* their positions.                                                         *)
(*                                                                          *)
(* Tokens recurs towards the end of the text, and the argument goes from    *)
(* there to its beginning: at a position that no placeholder straddles, the  *)
(* tokens from it on render the pieces from it on.                          *)
(***************************************************************************)
EXTENDS SourcesProofs

(***************************************************************************)
(* Searching forward, and the placeholders that stand in a text.            *)
(***************************************************************************)
LEMMA LeastIs ==
    ASSUME NEW S \in SUBSET Nat, S # {}
    PROVE  \E m \in S : \A x \in S : m <= x
<1>1. PICK m \in S : \A x \in S : ~ (<<x, m>> \in OpToRel(<, Nat))
    BY NatLessThanWellFounded, WFMin
<1>2. \A x \in S : ~ (x < m)
    <2>1. m \in Nat /\ \A x \in S : x \in Nat
        OBVIOUS
    <2>2. \A x \in Nat : <<x, m>> \in OpToRel(<, Nat) <=> x < m
        BY <2>1, Zenon DEF OpToRel
    <2> QED
        BY <1>1, <2>1, <2>2, Zenon
<1>3. \A x \in S : x \in Nat
    OBVIOUS
<1> QED
    BY <1>2, <1>3

\* j is the first position from i on whose character is in S, or n + 1.
First(text, n, i, S, j) ==
    /\ j \in 1..(n + 1)
    /\ j <= n => i <= j /\ text[j] \in S
    /\ \A k \in 1..n : i <= k /\ k < j => text[k] \notin S

LEMMA FirstOfIs ==
    ASSUME NEW text, NEW n \in Nat, Len(text) = n, NEW i \in Nat \ {0},
           NEW S, NEW P, P = {k \in i..n : text[k] \in S}
    PROVE  First(text, n, i, S, FirstOf(text, P))
<1> DEFINE all == P \cup {n + 1}
           Is(m) == \A x \in all : m <= x
           j == CHOOSE m \in all : Is(m)
<1>1. all \in SUBSET Nat /\ all # {}
    OBVIOUS
<1>2. j \in all /\ Is(j)
    <2> HIDE DEF all
    <2>1. \E m \in all : Is(m)
        BY <1>1, LeastIs
    <2> HIDE DEF Is
    <2> QED
        BY <2>1, Zenon
<1>3. FirstOf(text, P) = j
    BY DEF FirstOf
<1> HIDE DEF j
<1>4. j \in 1..(n + 1) /\ (j <= n => i <= j /\ text[j] \in S)
    BY <1>2
<1>5. ASSUME NEW k \in 1..n, i <= k, k < j PROVE text[k] \notin S
    <2>1. k \notin all
        BY <1>2, <1>4, <1>5
    <2> QED
        BY <2>1, <1>5
<1> QED
    BY <1>3, <1>4, <1>5 DEF First

LEMMA CloserIs ==
    ASSUME NEW text, NEW n \in Nat, Len(text) = n, NEW i \in Nat \ {0}
    PROVE  First(text, n, i, {Close}, Closer(text, i))
<1>1. {k \in i..n : text[k] = Close} = {k \in i..n : text[k] \in {Close}}
    OBVIOUS
<1> QED
    BY <1>1, FirstOfIs DEF Closer

\* No name goes on at this character.
NotIdent(text) == ToSet(text) \ Ident

LEMMA NameEndIs ==
    ASSUME NEW text, text \in Seq(ToSet(text)), NEW n \in Nat, Len(text) = n,
           NEW i \in Nat \ {0}
    PROVE  First(text, n, i, NotIdent(text), NameEnd(text, i))
<1>1. \A k \in i..n : text[k] \in ToSet(text)
    BY Elements
<1>2. {k \in i..n : text[k] \notin Ident} = {k \in i..n : text[k] \in NotIdent(text)}
    BY <1>1 DEF NotIdent
<1> QED
    BY <1>2, FirstOfIs DEF NameEnd

\* A placeholder by its characters.
PlacedAt(text, n, p) ==
    /\ p = <<p[1], p[2]>> /\ p[1] \in 1..n /\ p[2] \in 1..n /\ p[1] + 2 < p[2]
    /\ text[p[1]] = Dollar /\ text[p[1] + 1] = Open /\ text[p[2]] = Close
    /\ \A k \in 1..n : p[1] + 2 <= k /\ k < p[2] => text[k] \in Ident

LEMMA PlacedIs ==
    ASSUME NEW text, text \in Seq(ToSet(text)), NEW n \in Nat, Len(text) = n, NEW p
    PROVE  p \in Placed(text) <=> PlacedAt(text, n, p)
<1>1. DOMAIN text = 1..n
    BY Elements
<1>2. ASSUME p \in Placed(text) PROVE PlacedAt(text, n, p)
    <2>1. p \in (1..n) \X (1..n) /\ Stands(text, p[1], p[2])
        BY <1>2 DEF Placed
    <2>2. p = <<p[1], p[2]>> /\ p[1] \in 1..n /\ p[2] \in 1..n
        BY <2>1
    <2> QED
        BY <1>1, <2>1, <2>2 DEF Stands, CharAt, PlacedAt
<1>3. ASSUME PlacedAt(text, n, p) PROVE p \in Placed(text)
    <2>1. p \in (1..n) \X (1..n)
        BY <1>3 DEF PlacedAt
    <2>2. Stands(text, p[1], p[2])
        BY <1>1, <1>3 DEF Stands, CharAt, PlacedAt
    <2> QED
        BY <2>1, <2>2 DEF Placed
<1> QED
    BY <1>2, <1>3

\* After its $, a placeholder has no other, and no } before its last.
LEMMA Inside ==
    ASSUME NEW text, NEW n \in Nat, NEW p, PlacedAt(text, n, p), NEW k \in 1..n
    PROVE  /\ p[1] < k /\ k <= p[2] => text[k] # Dollar
           /\ p[1] < k /\ k < p[2] => text[k] # Close
<1>1. p[1] < k /\ k < p[2] => k = p[1] + 1 \/ p[1] + 2 <= k
    BY DEF PlacedAt
<1>2. p[1] < k /\ k <= p[2] => k = p[2] \/ k < p[2]
    BY DEF PlacedAt
<1> QED
    BY <1>1, <1>2, CharactersAssumption DEF PlacedAt

\* Two placeholders that overlap are one.
LEMMA Disjoint ==
    ASSUME NEW text, NEW n \in Nat, NEW p, PlacedAt(text, n, p), NEW q, PlacedAt(text, n, q),
           p[1] <= q[2], q[1] <= p[2]
    PROVE  p = q
<1>1. p[1] = q[1]
    <2>1. ~ (p[1] < q[1])
        BY Inside DEF PlacedAt
    <2>2. ~ (q[1] < p[1])
        BY Inside DEF PlacedAt
    <2> QED
        BY <2>1, <2>2 DEF PlacedAt
<1>2. p[2] = q[2]
    <2>1. ~ (p[2] < q[2])
        BY <1>1, Inside DEF PlacedAt
    <2>2. ~ (q[2] < p[2])
        BY <1>1, Inside DEF PlacedAt
    <2> QED
        BY <2>1, <2>2 DEF PlacedAt
<1> QED
    BY <1>1, <1>2 DEF PlacedAt
-----------------------------------------------------------------------------
(***************************************************************************)
(* The recursion of Tokens, a step at a time.                               *)
(***************************************************************************)
ScanStep(text, scan, i, start) ==
    LET n == Len(text)
        literal == Literal(text, start, i - 1)
        close == Closer(text, i + 2)
        end == NameEnd(text, i + 2)
        escape == /\ CharAt(text, i, Dollar)
                  /\ CharAt(text, i + 1, Dollar)
                  /\ CharAt(text, i + 2, Open)
        named == /\ CharAt(text, i, Dollar)
                 /\ CharAt(text, i + 1, Open)
                 /\ end > i + 2 /\ CharAt(text, end, Close)
    IN
    CASE i > n -> literal
      [] escape /\ close <= n ->
            literal \o Escaped(text, i, close) \o scan[close + 1][close + 1]
      [] escape /\ close > n -> literal \o scan[i + 1][start]
      [] named ->
            literal \o Token("placeholder", SubSeq(text, i + 2, end - 1))
                    \o scan[end + 1][end + 1]
      [] OTHER -> scan[i + 1][start]

AtEscape(text, i) ==
    CharAt(text, i, Dollar) /\ CharAt(text, i + 1, Dollar) /\ CharAt(text, i + 2, Open)
AtName(text, i) ==
    /\ CharAt(text, i, Dollar) /\ CharAt(text, i + 1, Open)
    /\ NameEnd(text, i + 2) > i + 2 /\ CharAt(text, NameEnd(text, i + 2), Close)

\* No two cases of a step apply.
LEMMA StepCases ==
    ASSUME NEW text, text \in Seq(ToSet(text)), NEW n \in Nat, Len(text) = n, NEW i \in Nat
    PROVE  /\ i > n => ~ AtEscape(text, i) /\ ~ AtName(text, i)
           /\ ~ (AtEscape(text, i) /\ AtName(text, i))
<1>1. DOMAIN text = 1..n
    BY Elements
<1> QED
    BY <1>1, CharactersAssumption DEF AtEscape, AtName, CharAt

LEMMA StepAtEnd ==
    ASSUME NEW text, text \in Seq(ToSet(text)), NEW n \in Nat, Len(text) = n, NEW scan, NEW start
    PROVE  ScanStep(text, scan, n + 1, start) = Literal(text, start, n)
<1>1. ~ AtEscape(text, n + 1) /\ ~ AtName(text, n + 1)
    BY StepCases
<1>2. n + 1 > n /\ (n + 1) - 1 = n
    OBVIOUS
<1> QED
    BY <1>1, <1>2 DEF ScanStep, AtEscape, AtName

LEMMA StepAtEscape ==
    ASSUME NEW text, text \in Seq(ToSet(text)), NEW i \in 1..Len(text),
           NEW scan, NEW start, AtEscape(text, i), Closer(text, i + 2) \in 1..Len(text)
    PROVE  ScanStep(text, scan, i, start) =
                Literal(text, start, i - 1) \o Escaped(text, i, Closer(text, i + 2))
                    \o scan[Closer(text, i + 2) + 1][Closer(text, i + 2) + 1]
<1>0. Len(text) \in Nat
    OBVIOUS
<1>1. ~ AtName(text, i) /\ ~ (i > Len(text))
    BY <1>0, StepCases
<1>2. Closer(text, i + 2) <= Len(text) /\ ~ (Closer(text, i + 2) > Len(text))
    OBVIOUS
<1> QED
    BY <1>1, <1>2 DEF ScanStep, AtEscape, AtName

LEMMA StepAtOpenEscape ==
    ASSUME NEW text, text \in Seq(ToSet(text)), NEW i \in 1..Len(text),
           NEW scan, NEW start, AtEscape(text, i), Closer(text, i + 2) = Len(text) + 1
    PROVE  ScanStep(text, scan, i, start) = Literal(text, start, i - 1) \o scan[i + 1][start]
<1>0. Len(text) \in Nat
    OBVIOUS
<1>1. ~ AtName(text, i) /\ ~ (i > Len(text))
    BY <1>0, StepCases
<1>2. ~ (Closer(text, i + 2) <= Len(text)) /\ Closer(text, i + 2) > Len(text)
    BY <1>0
<1> QED
    BY <1>1, <1>2 DEF ScanStep, AtEscape, AtName

LEMMA StepAtName ==
    ASSUME NEW text, text \in Seq(ToSet(text)), NEW i \in 1..Len(text),
           NEW scan, NEW start, AtName(text, i)
    PROVE  ScanStep(text, scan, i, start) =
                Literal(text, start, i - 1)
                    \o Token("placeholder", SubSeq(text, i + 2, NameEnd(text, i + 2) - 1))
                    \o scan[NameEnd(text, i + 2) + 1][NameEnd(text, i + 2) + 1]
<1>0. Len(text) \in Nat
    OBVIOUS
<1>1. ~ AtEscape(text, i) /\ ~ (i > Len(text))
    BY <1>0, StepCases
<1> QED
    BY <1>1 DEF ScanStep, AtEscape, AtName

LEMMA StepElsewhere ==
    ASSUME NEW text, text \in Seq(ToSet(text)), NEW i \in 1..Len(text),
           NEW scan, NEW start, ~ AtEscape(text, i), ~ AtName(text, i)
    PROVE  ScanStep(text, scan, i, start) = scan[i + 1][start]
<1>0. Len(text) \in Nat
    OBVIOUS
<1>1. ~ (i > Len(text))
    OBVIOUS
<1> QED
    BY <1>1 DEF ScanStep, AtEscape, AtName

\* scan satisfies the recursion from position b on.
Scanned(text, n, b, scan) ==
    scan = [i \in b..(n + 1) |-> [start \in 1..i |-> ScanStep(text, scan, i, start)]]

\* The two agree after position i.
Agree(n, i, f, g) == \A j \in 1..(n + 1) : i < j => f[j] = g[j]

\* A step depends on what follows only.
LEMMA ScanAgrees ==
    ASSUME NEW text, text \in Seq(ToSet(text)), NEW f, NEW g, NEW i \in 1..(Len(text) + 1),
           NEW start, Agree(Len(text), i, f, g)
    PROVE  ScanStep(text, f, i, start) = ScanStep(text, g, i, start)
<1> DEFINE close == Closer(text, i + 2)
           end == NameEnd(text, i + 2)
           literal == Literal(text, start, i - 1)
           name == Token("placeholder", SubSeq(text, i + 2, end - 1))
<1>0. i + 2 \in Nat \ {0} /\ Len(text) \in Nat
    OBVIOUS
<1>1. close \in 1..(Len(text) + 1) /\ (close <= Len(text) => i < close)
    <2>1. First(text, Len(text), i + 2, {Close}, close)
        BY <1>0, CloserIs
    <2> HIDE DEF close
    <2> QED
        BY <2>1 DEF First
<1>2. CharAt(text, end, Close) => i < end /\ end \in 1..Len(text)
    <2>1. First(text, Len(text), i + 2, NotIdent(text), end)
        BY <1>0, NameEndIs
    <2>2. DOMAIN text = 1..Len(text)
        BY Elements
    <2> HIDE DEF end
    <2> QED
        BY <2>1, <2>2 DEF First, CharAt
<1>3. CASE i = Len(text) + 1
    BY <1>0, <1>3, StepAtEnd
<1>4. CASE i \in 1..Len(text) /\ AtEscape(text, i) /\ close \in 1..Len(text)
    <2>1. \A h : ScanStep(text, h, i, start) =
                    literal \o Escaped(text, i, close) \o h[close + 1][close + 1]
        BY <1>4, StepAtEscape
    <2> HIDE DEF close, literal
    <2>2. f[close + 1] = g[close + 1]
        BY <1>1, <1>4 DEF Agree
    <2> QED
        BY <2>1, <2>2, Zenon
<1>5. CASE i \in 1..Len(text) /\ AtEscape(text, i) /\ close = Len(text) + 1
    <2>1. \A h : ScanStep(text, h, i, start) = literal \o h[i + 1][start]
        BY <1>5, StepAtOpenEscape, Zenon
    <2>2. f[i + 1] = g[i + 1]
        BY <1>5 DEF Agree
    <2> HIDE DEF literal
    <2> QED
        BY <2>1, <2>2, Zenon
<1>6. CASE i \in 1..Len(text) /\ AtName(text, i)
    <2>1. \A h : ScanStep(text, h, i, start) = literal \o name \o h[end + 1][end + 1]
        BY <1>6, StepAtName
    <2>2. CharAt(text, end, Close)
        BY <1>6 DEF AtName
    <2> HIDE DEF end, literal, name
    <2>3. f[end + 1] = g[end + 1]
        BY <1>2, <2>2 DEF Agree
    <2> QED
        BY <2>1, <2>3, Zenon
<1>7. CASE i \in 1..Len(text) /\ ~ AtEscape(text, i) /\ ~ AtName(text, i)
    <2>1. \A h : ScanStep(text, h, i, start) = h[i + 1][start]
        BY <1>7, StepElsewhere
    <2>2. f[i + 1] = g[i + 1]
        BY <1>7 DEF Agree
    <2> QED
        BY <2>1, <2>2, Zenon
<1>8. i = Len(text) + 1 \/ i \in 1..Len(text)
    OBVIOUS
<1>9. close \in 1..Len(text) \/ close = Len(text) + 1
    <2> HIDE DEF close
    <2> QED
        BY <1>0, <1>1
<1> QED
    BY <1>3, <1>4, <1>5, <1>6, <1>7, <1>8, <1>9, Zenon

LEMMA ScanMore ==
    ASSUME NEW text, text \in Seq(ToSet(text)), NEW n \in Nat, Len(text) = n,
           NEW b \in 1..n, NEW f, Scanned(text, n, b + 1, f)
    PROVE  \E g : Scanned(text, n, b, g)
<1> DEFINE g == [i \in b..(n + 1) |->
                    IF i = b THEN [start \in 1..i |-> ScanStep(text, f, i, start)] ELSE f[i]]
<1>1. \A i \in (b + 1)..(n + 1) : f[i] = [start \in 1..i |-> ScanStep(text, f, i, start)]
    BY Zenon DEF Scanned
<1>2. \A j \in 1..(n + 1) : b < j => f[j] = g[j]
    OBVIOUS
<1>3. ASSUME NEW i \in b..(n + 1)
      PROVE  g[i] = [start \in 1..i |-> ScanStep(text, g, i, start)]
    <2>1. g[i] = [start \in 1..i |-> ScanStep(text, f, i, start)]
        <3>1. CASE i = b
            BY <3>1
        <3>2. CASE i # b
            <4>1. i \in (b + 1)..(n + 1) /\ g[i] = f[i]
                BY <3>2
            <4> QED
                BY <1>1, <4>1, Zenon
        <3> QED
            BY <3>1, <3>2
    <2> HIDE DEF g
    <2>2. i \in 1..(n + 1) /\ Agree(n, i, f, g)
        BY <1>2 DEF Agree
    <2>3. \A start : ScanStep(text, f, i, start) = ScanStep(text, g, i, start)
        BY <2>2, ScanAgrees
    <2> QED
        BY <2>1, <2>3, Zenon
<1>4. g = [i \in b..(n + 1) |-> g[i]]
    OBVIOUS
<1> HIDE DEF g
<1>5. Scanned(text, n, b, g)
    BY <1>3, <1>4, Zenon DEF Scanned
<1> QED
    BY <1>5

LEMMA ScanExists ==
    ASSUME NEW text, text \in Seq(ToSet(text)), NEW n \in Nat, Len(text) = n
    PROVE  \E f : Scanned(text, n, 1, f)
<1> DEFINE Good == {m \in Nat : m <= n => \E f : Scanned(text, n, (n + 1) - m, f)}
<1>1. 0 \in Good
    <2> DEFINE f == [i \in (n + 1)..(n + 1) |-> [start \in 1..i |-> Literal(text, start, i - 1)]]
    <2>1. \A h, start : ScanStep(text, h, n + 1, start) = Literal(text, start, n)
        BY StepAtEnd
    <2>2. \A i \in (n + 1)..(n + 1) : i = n + 1 /\ i - 1 = n
        OBVIOUS
    <2>3. Scanned(text, n, n + 1, f)
        <3>1. ASSUME NEW i \in (n + 1)..(n + 1)
              PROVE  f[i] = [start \in 1..i |-> ScanStep(text, f, i, start)]
            <4>1. \A start : Literal(text, start, i - 1) = ScanStep(text, f, i, start)
                <5> HIDE DEF f
                <5> QED
                    BY <2>1, <2>2, Zenon
            <4>2. f[i] = [start \in 1..i |-> Literal(text, start, i - 1)]
                OBVIOUS
            <4> HIDE DEF f
            <4> QED
                BY <4>1, <4>2, Zenon
        <3>2. f = [i \in (n + 1)..(n + 1) |-> f[i]]
            OBVIOUS
        <3> HIDE DEF f
        <3> QED
            BY <3>1, <3>2, Zenon DEF Scanned
    <2>4. (n + 1) - 0 = n + 1
        OBVIOUS
    <2> HIDE DEF f
    <2> QED
        BY <2>3, <2>4
<1>2. ASSUME NEW m \in Nat, m \in Good PROVE m + 1 \in Good
    <2>1. CASE m + 1 <= n
        <3>1. m <= n /\ n - m \in 1..n /\ (n + 1) - m = (n - m) + 1 /\ (n + 1) - (m + 1) = n - m
            BY <2>1
        <3>2. PICK f : Scanned(text, n, (n + 1) - m, f)
            BY <1>2, <3>1, Zenon
        <3>3. \E g : Scanned(text, n, n - m, g)
            BY <3>1, <3>2, ScanMore
        <3> QED
            BY <3>1, <3>3
    <2>2. CASE ~ (m + 1 <= n)
        BY <2>2
    <2> QED
        BY <2>1, <2>2
<1>3. \A m \in Nat : m \in Good
    <2> HIDE DEF Good
    <2> QED
        BY <1>1, <1>2, Induction
<1>4. n \in Good /\ n <= n /\ (n + 1) - n = 1
    <2> HIDE DEF Good
    <2> QED
        BY <1>3
<1> QED
    BY <1>4, Zenon

\* What Tokens is.
LEMMA TokensAre ==
    ASSUME NEW text, text \in Seq(ToSet(text)), NEW n \in Nat, Len(text) = n
    PROVE  \E scan :
              /\ Tokens(text) = scan[1][1]
              /\ \A i \in 1..(n + 1) : \A start \in 1..i :
                    scan[i][start] = ScanStep(text, scan, i, start)
<1> DEFINE Is(h) == h = [i \in 1..(Len(text) + 1) |->
                            [start \in 1..i |-> ScanStep(text, h, i, start)]]
           scan == CHOOSE h : Is(h)
<1>1. Is(scan)
    <2>1. PICK f : Scanned(text, n, 1, f)
        BY ScanExists
    <2>2. Is(f)
        BY <2>1 DEF Scanned
    <2> HIDE DEF Is
    <2> QED
        BY <2>2
<1>2. Tokens(text) = scan[1][1]
    BY DEF Tokens, ScanStep
<1> HIDE DEF scan
<1>3. \A i \in 1..(n + 1) : scan[i] = [start \in 1..i |-> ScanStep(text, scan, i, start)]
    BY <1>1, Zenon
<1>4. \A i \in 1..(n + 1) : \A start \in 1..i : scan[i][start] = ScanStep(text, scan, i, start)
    BY <1>3, Zenon
<1> QED
    BY <1>2, <1>4
-----------------------------------------------------------------------------
(***************************************************************************)
(* What each character of a text stands for.                                *)
(***************************************************************************)
\* Names, Value, Covered and Piece are those of SubstitutedAsDocumented.
Names(text) == {p \in Placed(text) : ~ IsEscaped(text, p)}
Valued(text, tab, p) == Get(Name(text, p), tab)
Covered(text, i) ==
    \/ \E p \in Names(text) : i \in (p[1] + 1)..p[2]
    \/ \E p \in Placed(text) \ Names(text) : i = p[1] - 1
Piece(text, tab, i) ==
    IF \E p \in Names(text) : p[1] = i
    THEN <<Valued(text, tab, CHOOSE p \in Names(text) : p[1] = i)>>
    ELSE IF Covered(text, i) THEN <<>> ELSE <<text[i]>>

\* Where a placeholder begins, with the $ that escapes it.
Begins(text, p) == IF IsEscaped(text, p) THEN p[1] - 1 ELSE p[1]

\* No placeholder goes on from before i; none has i.
Clear(text, i) == \A p \in Placed(text) : ~ (Begins(text, p) < i /\ i <= p[2])
Plain(text, i) == \A p \in Placed(text) : ~ (Begins(text, p) <= i /\ i <= p[2])

LEMMA EscapedIs ==
    ASSUME NEW text, text \in Seq(ToSet(text)), NEW p \in Placed(text)
    PROVE  /\ PlacedAt(text, Len(text), p)
           /\ IsEscaped(text, p) <=> p[1] > 1 /\ text[p[1] - 1] = Dollar
           /\ Begins(text, p) = p[1] \/ Begins(text, p) = p[1] - 1
           /\ p \in Names(text) <=> ~ IsEscaped(text, p)
<1>1. Len(text) \in Nat /\ DOMAIN text = 1..Len(text)
    OBVIOUS
<1>2. PlacedAt(text, Len(text), p)
    BY <1>1, PlacedIs
<1>3. IsEscaped(text, p) <=> p[1] > 1 /\ text[p[1] - 1] = Dollar
    BY <1>1, <1>2 DEF IsEscaped, CharAt, PlacedAt
<1>4. Begins(text, p) = p[1] \/ Begins(text, p) = p[1] - 1
    BY Zenon DEF Begins
<1>5. p \in Names(text) <=> ~ IsEscaped(text, p)
    BY DEF Names
<1> QED
    BY <1>2, <1>3, <1>4, <1>5

LEMMA PlainPiece ==
    ASSUME NEW text, text \in Seq(ToSet(text)), NEW tab, NEW i \in 1..Len(text), Plain(text, i)
    PROVE  Piece(text, tab, i) = <<text[i]>>
<1>1. ASSUME NEW p \in Placed(text)
      PROVE  /\ p \in Names(text) => p[1] # i /\ i \notin (p[1] + 1)..p[2]
             /\ p \notin Names(text) => i # p[1] - 1
    BY EscapedIs DEF Plain, Begins, PlacedAt
<1>2. \A p \in Names(text) : p \in Placed(text)
    BY DEF Names
<1>3. ~ Covered(text, i)
    BY <1>1, <1>2 DEF Covered
<1> QED
    BY <1>1, <1>2, <1>3 DEF Piece

\* After a placeholder nothing goes on.
LEMMA ClearAfter ==
    ASSUME NEW text, text \in Seq(ToSet(text)), NEW p \in Placed(text)
    PROVE  Clear(text, p[2] + 1)
<1> SUFFICES ASSUME NEW q \in Placed(text), Begins(text, q) < p[2] + 1, p[2] + 1 <= q[2]
             PROVE  FALSE
    BY DEF Clear
<1>1. /\ Len(text) \in Nat
      /\ PlacedAt(text, Len(text), p) /\ PlacedAt(text, Len(text), q)
    BY EscapedIs
<1>2. ~ (q[1] <= p[2])
    <2> SUFFICES ASSUME q[1] <= p[2] PROVE FALSE
        OBVIOUS
    <2>1. p[1] <= q[2]
        BY <1>1 DEF PlacedAt
    <2>2. p = q
        BY <1>1, <2>1, Disjoint, Zenon
    <2>3. p[2] \in 1..Len(text) /\ p[2] + 1 <= p[2]
        BY <1>1, <2>2 DEF PlacedAt
    <2> QED
        BY <2>3
<1>3. q[1] - 1 = p[2] /\ IsEscaped(text, q)
    <2>1. q[1] \in 1..Len(text) /\ p[2] \in 1..Len(text)
        BY <1>1 DEF PlacedAt
    <2>2. CASE IsEscaped(text, q)
        <3>1. q[1] - 1 < p[2] + 1
            BY <2>2 DEF Begins
        <3> QED
            BY <1>2, <2>1, <2>2, <3>1
    <2>3. CASE ~ IsEscaped(text, q)
        <3>1. q[1] < p[2] + 1
            BY <2>3 DEF Begins
        <3> QED
            BY <1>2, <2>1, <3>1
    <2> QED
        BY <2>2, <2>3
<1>4. text[p[2]] = Dollar /\ text[p[2]] = Close
    BY <1>1, <1>3, EscapedIs DEF PlacedAt
<1> QED
    BY <1>4, CharactersAssumption

\* The only placeholder at or around a character of one is itself.
LEMMA Around ==
    ASSUME NEW text, text \in Seq(ToSet(text)), NEW p \in Placed(text), NEW q \in Placed(text),
           NEW k \in Int, p[1] <= k, k <= p[2], Begins(text, q) <= k, k <= q[2]
    PROVE  p = q
<1>1. /\ Len(text) \in Nat
      /\ PlacedAt(text, Len(text), p) /\ PlacedAt(text, Len(text), q)
    BY EscapedIs
<1>2. CASE q[1] <= k
    <2>1. p[1] <= q[2] /\ q[1] <= p[2]
        BY <1>1, <1>2 DEF PlacedAt
    <2> QED
        BY <1>1, <2>1, Disjoint
<1>3. CASE ~ (q[1] <= k)
    <2>1. q[1] - 1 = k /\ IsEscaped(text, q)
        BY <1>1, <1>3 DEF Begins, PlacedAt
    <2>2. text[k] = Dollar /\ k \in 1..Len(text)
        BY <1>1, <2>1, EscapedIs DEF PlacedAt
    <2>3. k = p[1]
        <3>1. p[1] \in 1..Len(text)
            BY <1>1 DEF PlacedAt
        <3>2. p[1] < k => text[k] # Dollar
            BY <1>1, <2>2, Inside
        <3> QED
            BY <2>2, <3>1, <3>2
    <2>4. text[p[1] + 1] = Open /\ text[q[1]] = Dollar /\ q[1] = p[1] + 1
        BY <1>1, <2>1, <2>3 DEF PlacedAt
    <2> QED
        BY <2>4, CharactersAssumption
<1> QED
    BY <1>2, <1>3

\* From a $$ on, the first $ is left out and the rest stands as it is.
LEMMA AtEscapeIs ==
    ASSUME NEW text, text \in Seq(ToSet(text)), NEW tab, EscapesClosed(text),
           NEW i \in 1..Len(text), AtEscape(text, i)
    PROVE  \E p \in Placed(text) :
              /\ p[1] = i + 1 /\ Closer(text, i + 2) = p[2] /\ p[2] \in 1..Len(text)
              /\ Piece(text, tab, i) = <<>>
              /\ \A k \in 1..Len(text) : i < k /\ k <= p[2] => Piece(text, tab, k) = <<text[k]>>
              /\ \A q \in Names(text) : ~ (i <= q[1] /\ q[1] <= p[2])
<1>0. Len(text) \in Nat /\ DOMAIN text = 1..Len(text)
    OBVIOUS
<1>1. PICK p \in Placed(text) : p[1] = i + 1
    <2>1. /\ i + 1 \in 2..Len(text) /\ (i + 1) - 1 = i /\ (i + 1) + 1 = i + 2
        BY <1>0 DEF AtEscape, CharAt
    <2> QED
        BY <2>1 DEF EscapesClosed, AtEscape
<1>2. PlacedAt(text, Len(text), p)
    BY EscapedIs
<1>3. p[2] \in 1..Len(text) /\ i + 1 < p[2] /\ text[i] = Dollar
    BY <1>0, <1>1, <1>2 DEF PlacedAt, AtEscape, CharAt
<1>4. IsEscaped(text, p) /\ p \notin Names(text) /\ Begins(text, p) = i
    BY <1>1, <1>3, EscapedIs DEF Begins
<1>5. Closer(text, i + 2) = p[2]
    <2> DEFINE close == Closer(text, i + 2)
    <2>1. i + 2 \in Nat \ {0}
        OBVIOUS
    <2>2. First(text, Len(text), i + 2, {Close}, close)
        BY <1>0, <2>1, CloserIs
    <2> HIDE DEF close
    <2>3. ~ (p[2] < close)
        BY <1>0, <1>2, <1>3, <2>2 DEF First, PlacedAt
    <2>4. ~ (close < p[2])
        <3> SUFFICES ASSUME close < p[2] PROVE FALSE
            OBVIOUS
        <3>1. close \in 1..Len(text) /\ text[close] = Close /\ p[1] < close
            BY <1>0, <1>1, <1>3, <2>2 DEF First
        <3> QED
            BY <1>0, <1>2, <3>1, Inside
    <2>5. close \in 1..(Len(text) + 1)
        BY <2>2 DEF First
    <2> QED
        BY <1>3, <2>3, <2>4, <2>5 DEF close
<1>6. ASSUME NEW q \in Names(text), NEW k \in 1..Len(text), i <= k, k <= p[2]
      PROVE  ~ (q[1] <= k /\ k <= q[2])
    <2>0. q \in Placed(text) /\ q # p /\ Begins(text, q) = q[1] /\ PlacedAt(text, Len(text), q)
        BY <1>4, <1>6, EscapedIs DEF Names, Begins
    <2>1. CASE i < k
        BY <1>1, <1>6, <2>0, <2>1, Around
    <2>2. CASE k = i
        <3> SUFFICES ASSUME q[1] <= i, i <= q[2] PROVE FALSE
            BY <2>2
        <3>1. text[q[1] + 1] = Open /\ text[i + 1] = Dollar
            BY <1>1, <1>2, <2>0 DEF PlacedAt
        <3>2. q[1] # i
            BY <3>1, CharactersAssumption
        <3>3. q[1] < i
            BY <2>0, <3>2 DEF PlacedAt
        <3> QED
            BY <1>0, <1>3, <2>0, <3>3, Inside
    <2> QED
        BY <1>6, <2>1, <2>2
<1>7. Piece(text, tab, i) = <<>>
    <2>1. ~ \E q \in Names(text) : q[1] = i
        <3> SUFFICES ASSUME NEW q \in Names(text), q[1] = i PROVE FALSE
            OBVIOUS
        <3>1. i <= q[2]
            BY EscapedIs DEF Names, PlacedAt
        <3> QED
            BY <1>3, <1>6, <3>1
    <2>2. Covered(text, i)
        BY <1>1, <1>4 DEF Covered
    <2> QED
        BY <2>1, <2>2 DEF Piece
<1>8. ASSUME NEW k \in 1..Len(text), i < k, k <= p[2]
      PROVE  Piece(text, tab, k) = <<text[k]>>
    <2>1. ASSUME NEW q \in Names(text) PROVE q[1] # k /\ k \notin (q[1] + 1)..q[2]
        <3>1. ~ (q[1] <= k /\ k <= q[2])
            BY <1>6, <1>8
        <3>2. PlacedAt(text, Len(text), q)
            BY EscapedIs DEF Names
        <3> QED
            BY <3>1, <3>2 DEF PlacedAt
    <2>2. ASSUME NEW q \in Placed(text) \ Names(text), k = q[1] - 1 PROVE FALSE
        <3>1. PlacedAt(text, Len(text), q) /\ Begins(text, q) = k /\ k <= q[2]
            BY <2>2, EscapedIs DEF Begins, PlacedAt
        <3>2. p = q
            BY <1>1, <1>8, <3>1, Around
        <3> QED
            BY <1>1, <1>8, <2>2, <3>2
    <2>3. ~ Covered(text, k)
        BY <2>1, <2>2 DEF Covered
    <2> QED
        BY <2>1, <2>3 DEF Piece
<1>9. ASSUME NEW q \in Names(text) PROVE ~ (i <= q[1] /\ q[1] <= p[2])
    <2>1. q[1] \in 1..Len(text) /\ q[1] <= q[2]
        BY EscapedIs DEF Names, PlacedAt
    <2> QED
        BY <1>6, <2>1
<1> QED
    BY <1>1, <1>3, <1>5, <1>7, <1>8, <1>9

NamedFrom(text, tab, i, end, p) ==
    /\ p = <<i, end>> /\ end \in 1..Len(text) /\ i < end
    /\ Piece(text, tab, i) = <<Valued(text, tab, p)>>
    /\ \A k \in 1..Len(text) : i < k /\ k <= end => Piece(text, tab, k) = <<>>
    /\ \A q \in Names(text) : i <= q[1] /\ q[1] <= end => q = p

\* At a name that is not escaped its value stands, and nothing in its place.
LEMMA AtNameIs ==
    ASSUME NEW text, text \in Seq(ToSet(text)), NEW tab, NEW i \in 1..Len(text),
           AtName(text, i), Clear(text, i)
    PROVE  \E p \in Names(text) : NamedFrom(text, tab, i, NameEnd(text, i + 2), p)
<1> DEFINE end == NameEnd(text, i + 2)
           p == <<i, end>>
<1>0. Len(text) \in Nat /\ DOMAIN text = 1..Len(text)
    OBVIOUS
<1>1. end \in 1..Len(text) /\ text[end] = Close /\ i + 2 < end
    <2>1. CharAt(text, end, Close) /\ end > i + 2
        BY DEF AtName
    <2> HIDE DEF end
    <2>2. end \in 1..Len(text) /\ text[end] = Close
        BY <1>0, <2>1 DEF CharAt
    <2> QED
        BY <2>1, <2>2
<1>2. ASSUME NEW k \in 1..Len(text), i + 2 <= k, k < end PROVE text[k] \in Ident
    <2>1. i + 2 \in Nat \ {0}
        OBVIOUS
    <2>2. First(text, Len(text), i + 2, NotIdent(text), end)
        BY <1>0, <2>1, NameEndIs
    <2> HIDE DEF end
    <2>3. text[k] \notin NotIdent(text)
        BY <1>2, <2>2 DEF First
    <2>4. text[k] \in ToSet(text)
        BY Elements
    <2> QED
        BY <2>3, <2>4 DEF NotIdent
<1>3. text[i] = Dollar /\ text[i + 1] = Open
    BY <1>0 DEF AtName, CharAt
<1> HIDE DEF end
<1>4. PlacedAt(text, Len(text), p)
    BY <1>1, <1>2, <1>3 DEF PlacedAt
<1>5. p \in Placed(text)
    <2> HIDE DEF p
    <2> QED
        BY <1>0, <1>4, PlacedIs
<1>6. p[1] = i /\ p[2] = end
    OBVIOUS
<1> HIDE DEF p
<1>7. p \in Names(text)
    <2> SUFFICES ASSUME IsEscaped(text, p) PROVE FALSE
        BY <1>5, EscapedIs
    <2>1. Begins(text, p) < i /\ i <= p[2]
        BY <1>1, <1>6 DEF Begins
    <2> QED
        BY <1>5, <2>1 DEF Clear
<1>8. ASSUME NEW q \in Names(text), i <= q[1], q[1] <= end PROVE q = p
    <2>1. q \in Placed(text) /\ PlacedAt(text, Len(text), q) /\ Begins(text, q) = q[1]
        BY EscapedIs DEF Names, Begins
    <2>2. q[1] \in Int /\ q[1] <= q[2]
        BY <2>1 DEF PlacedAt
    <2> QED
        BY <1>5, <1>6, <1>8, <2>1, <2>2, Around
<1>9. Piece(text, tab, i) = <<Valued(text, tab, p)>>
    <2>1. \A q \in Names(text) : q[1] = i <=> q = p
        <3>1. i <= i /\ i <= end
            BY <1>1
        <3> QED
            BY <1>6, <1>8, <3>1
    <2>2. (CHOOSE q \in Names(text) : q[1] = i) = p
        BY <1>7, <2>1
    <2> QED
        BY <1>6, <1>7, <2>2 DEF Piece
<1>10. ASSUME NEW k \in 1..Len(text), i < k, k <= end PROVE Piece(text, tab, k) = <<>>
    <2>1. ASSUME NEW q \in Names(text), q[1] = k PROVE FALSE
        <3>1. q = p
            BY <1>8, <1>10, <2>1
        <3> QED
            BY <1>6, <1>10, <2>1, <3>1
    <2>2. k \in (p[1] + 1)..p[2]
        BY <1>1, <1>6, <1>10
    <2>3. Covered(text, k)
        BY <1>7, <2>2 DEF Covered
    <2> QED
        BY <2>1, <2>3 DEF Piece
<1>11. end = NameEnd(text, i + 2)
    BY DEF end
<1>12. i < end
    BY <1>1
<1> QED
    BY <1>1, <1>7, <1>8, <1>9, <1>10, <1>11, <1>12 DEF p, NamedFrom

\* Elsewhere a character stands for itself.
LEMMA ElsewhereIs ==
    ASSUME NEW text, text \in Seq(ToSet(text)), NEW i \in 1..Len(text),
           ~ AtEscape(text, i), ~ AtName(text, i), Clear(text, i)
    PROVE  Plain(text, i) /\ Clear(text, i + 1)
<1>0. Len(text) \in Nat /\ DOMAIN text = 1..Len(text)
    OBVIOUS
<1>1. ASSUME NEW p \in Placed(text), Begins(text, p) <= i, i <= p[2] PROVE FALSE
    <2>1. PlacedAt(text, Len(text), p)
        BY EscapedIs
    <2>2. p[1] \in 1..Len(text) /\ p[2] \in 1..Len(text)
        BY <2>1 DEF PlacedAt
    <2>3. Begins(text, p) = i
        <3>1. ~ (Begins(text, p) < i)
            BY <1>1 DEF Clear
        <3>2. Begins(text, p) \in Int
            BY <2>2 DEF Begins
        <3> QED
            BY <1>1, <3>1, <3>2
    <2>4. CASE IsEscaped(text, p)
        <3>1. p[1] = i + 1
            BY <2>2, <2>3, <2>4 DEF Begins
        <3>2. text[i] = Dollar /\ (i + 1) + 1 = i + 2
            BY <2>4, <3>1, EscapedIs
        <3>3. text[i + 1] = Dollar /\ text[i + 2] = Open /\ i + 2 \in 1..Len(text)
            BY <2>1, <3>1, <3>2 DEF PlacedAt
        <3>4. AtEscape(text, i)
            BY <1>0, <3>2, <3>3 DEF AtEscape, CharAt
        <3> QED
            BY <3>4
    <2>5. CASE ~ IsEscaped(text, p)
        <3> DEFINE end == NameEnd(text, i + 2)
        <3>1. p[1] = i
            BY <2>3, <2>5 DEF Begins
        <3>2. i + 2 \in Nat \ {0}
            OBVIOUS
        <3>3. First(text, Len(text), i + 2, NotIdent(text), end)
            BY <1>0, <3>2, NameEndIs
        <3> HIDE DEF end
        <3>4. end \in 1..(Len(text) + 1)
            BY <3>3 DEF First
        <3>5. text[p[2]] = Close /\ i + 2 < p[2]
            BY <2>1, <3>1 DEF PlacedAt
        <3>6. ~ (p[2] < end)
            <4> SUFFICES ASSUME p[2] < end PROVE FALSE
                OBVIOUS
            <4>1. text[p[2]] \notin NotIdent(text)
                BY <2>2, <3>3, <3>5 DEF First
            <4>2. text[p[2]] \in ToSet(text)
                BY <2>2, Elements
            <4> QED
                BY <3>5, <4>1, <4>2, CharactersAssumption DEF NotIdent
        <3>7. ~ (end < p[2])
            <4> SUFFICES ASSUME end < p[2] PROVE FALSE
                OBVIOUS
            <4>1. end \in 1..Len(text) /\ i + 2 <= end
                BY <2>2, <3>3, <3>4 DEF First
            <4>2. text[end] \in NotIdent(text)
                BY <3>3, <4>1 DEF First
            <4> QED
                BY <2>1, <3>1, <4>1, <4>2 DEF PlacedAt, NotIdent
        <3>8. end = p[2]
            BY <2>2, <3>4, <3>6, <3>7
        <3>9. end > i + 2 /\ CharAt(text, end, Close)
            BY <1>0, <2>2, <3>5, <3>8 DEF CharAt
        <3>10. text[i] = Dollar /\ text[i + 1] = Open /\ i + 1 \in 1..Len(text)
            BY <2>1, <2>2, <3>1, <3>5 DEF PlacedAt
        <3>11. CharAt(text, i, Dollar) /\ CharAt(text, i + 1, Open)
            BY <1>0, <3>10 DEF CharAt
        <3> QED
            BY <3>9, <3>11 DEF AtName, end
    <2> QED
        BY <2>4, <2>5
<1>2. Plain(text, i)
    BY <1>1 DEF Plain
<1>3. ASSUME NEW p \in Placed(text), Begins(text, p) < i + 1, i + 1 <= p[2] PROVE FALSE
    <2>1. p[1] \in Int /\ p[2] \in Int
        BY EscapedIs DEF PlacedAt
    <2>2. Begins(text, p) \in Int
        BY <2>1 DEF Begins
    <2> QED
        BY <1>1, <1>3, <2>1, <2>2
<1> QED
    BY <1>2, <1>3 DEF Clear
-----------------------------------------------------------------------------
(***************************************************************************)
(* Joining the pieces, and rendering the tokens.                            *)
(***************************************************************************)
LEMMA Associates ==
    ASSUME NEW U, NEW r \in Seq(U), NEW s \in Seq(U), NEW t \in Seq(U)
    PROVE  (r \o s) \o t = r \o (s \o t)
    OBVIOUS

\* joined has the pieces up to each position, one after the other.
JoinedUpTo(n, pieces, joined) ==
    joined[0] = <<>> /\ \A k \in 1..n : joined[k] = joined[k - 1] \o pieces[k]

LEMMA JoinedUpToAll ==
    ASSUME NEW n \in Nat, NEW U, NEW pieces \in [1..n -> Seq(U)]
    PROVE  \E joined \in [0..n -> Seq(U)] :
                JoinedUpTo(n, pieces, joined) /\ FlattenSeq(pieces) = joined[n]
<1>1. CASE n = 0
    <2> DEFINE joined == [k \in 0..n |-> <<>>]
    <2>1. joined \in [0..n -> Seq(U)] /\ joined[0] = <<>> /\ joined[n] = <<>>
        BY <1>1
    <2>2. Len(pieces) = 0 /\ pieces = <<>>
        BY <1>1
    <2>3. FlattenSeq(pieces) = <<>>
        BY <2>2 DEF FlattenSeq
    <2>4. \A k \in 1..n : FALSE
        BY <1>1
    <2> HIDE DEF joined
    <2> QED
        BY <2>1, <2>3, <2>4 DEF JoinedUpTo
<1>2. CASE n # 0
    <2>1. PICK f : Joins(n, pieces, f) /\ FlattenSeq(pieces) = f[n]
        BY <1>2, FlattenJoins
    <2>2. \A k \in 1..n : f[k] = IF k = 1 THEN pieces[k] ELSE f[k - 1] \o pieces[k]
        BY <2>1, Zenon DEF Joins
    <2> DEFINE joined == [k \in 0..n |-> IF k = 0 THEN <<>> ELSE f[k]]
               Typed(k) == k <= n => joined[k] \in Seq(U)
               Good == {k \in Nat : Typed(k)}
    <2>3. ASSUME NEW k \in 0..n, k + 1 <= n, joined[k] \in Seq(U)
          PROVE  joined[k + 1] = joined[k] \o pieces[k + 1] /\ joined[k + 1] \in Seq(U)
        <3>1. k + 1 \in 1..n /\ (k + 1) - 1 = k /\ pieces[k + 1] \in Seq(U)
            BY <2>3
        <3>2. joined[k + 1] = f[k + 1]
            BY <3>1
        <3>3. CASE k = 0
            <4>1. f[k + 1] = pieces[k + 1] /\ joined[k] = <<>>
                BY <2>2, <3>1, <3>3
            <4> HIDE DEF joined
            <4> QED
                BY <3>1, <3>2, <4>1
        <3>4. CASE k # 0
            <4>0. joined[k] = f[k]
                BY <2>3, <3>4
            <4>1. f[k + 1] = f[k] \o pieces[k + 1] /\ joined[k] = f[k]
                <5> HIDE DEF joined
                <5>1. k + 1 # 1
                    BY <3>4
                <5>2. f[k + 1] = f[(k + 1) - 1] \o pieces[k + 1]
                    BY <2>2, <3>1, <5>1
                <5> QED
                    BY <3>1, <4>0, <5>2
            <4> HIDE DEF joined
            <4> QED
                BY <2>3, <3>1, <3>2, <4>1
        <3> QED
            BY <3>3, <3>4
    <2>4. joined[0] = <<>> /\ joined[n] = f[n]
        BY <1>2
    <2>5. joined = [k \in 0..n |-> joined[k]]
        OBVIOUS
    <2> HIDE DEF joined
    <2>6. \A k \in Nat : k \in Good
        <3>1. 0 \in Good
            <4>1. Typed(0)
                BY <2>4
            <4> QED
                BY <4>1, Zenon
        <3>2. ASSUME NEW k \in Nat, k \in Good PROVE k + 1 \in Good
            <4>1. Typed(k) => Typed(k + 1)
                <5> SUFFICES ASSUME Typed(k), k + 1 <= n PROVE joined[k + 1] \in Seq(U)
                    OBVIOUS
                <5>1. k \in 0..n /\ joined[k] \in Seq(U)
                    OBVIOUS
                <5> QED
                    BY <2>3, <5>1
            <4> HIDE DEF Typed
            <4> QED
                BY <3>2, <4>1
        <3> HIDE DEF Good
        <3> QED
            BY <3>1, <3>2, Induction
    <2>7. \A k \in 0..n : joined[k] \in Seq(U)
        BY <2>6
    <2>8. ASSUME NEW k \in 1..n PROVE joined[k] = joined[k - 1] \o pieces[k]
        <3>1. k - 1 \in 0..n /\ (k - 1) + 1 = k /\ k <= n
            OBVIOUS
        <3> QED
            BY <2>3, <2>7, <3>1
    <2>9. joined \in [0..n -> Seq(U)]
        BY <2>5, <2>7
    <2> QED
        BY <2>1, <2>4, <2>8, <2>9 DEF JoinedUpTo
<1> QED
    BY <1>1, <1>2

LEMMA SubSeqMore ==
    ASSUME NEW U, NEW text \in Seq(U), NEW s \in 1..(Len(text) + 1), NEW k \in Nat,
           s <= k + 1, k + 1 <= Len(text)
    PROVE  SubSeq(text, s, k + 1) = SubSeq(text, s, k) \o <<text[k + 1]>>
    OBVIOUS
-----------------------------------------------------------------------------
Kinds == {"literal", "escaped", "placeholder"}
TokenOf(U) == [kind : Kinds, piece : Seq(U)]

\* The characters of a text and the values of its names.
Chars(text, tab) == ToSet(text) \cup {None} \cup {tab[Spelling[x]] : x \in DOMAIN Spelling}

RenderedAs(token, tab) ==
    IF token.kind = "placeholder" THEN <<Get(token.piece, tab)>> ELSE token.piece

\* Rendering the tokens goes on from a to b.
Renders(ts, tab, a, b) ==
    \A pre : /\ pre[0] = a
             /\ \A k \in 1..Len(ts) : pre[k] = pre[k - 1] \o RenderedAs(ts[k], tab)
             => pre[Len(ts)] = b

\* A token's name has no value.
Unset(token, tab) == token.kind = "placeholder" /\ Get(token.piece, tab) = None
Fails(ts, tab) == \E k \in 1..Len(ts) : Unset(ts[k], tab)

LEMMA CharsAre ==
    ASSUME NEW text, text \in Seq(ToSet(text)), NEW tab
    PROVE  /\ \A x : Get(x, tab) \in Chars(text, tab)
           /\ text \in Seq(Chars(text, tab))
           /\ \A i \in 1..Len(text) : Piece(text, tab, i) \in Seq(Chars(text, tab))
<1>1. \A x : Get(x, tab) \in Chars(text, tab)
    BY DEF Get, Chars
<1>2. \A i \in 1..Len(text) : text[i] \in Chars(text, tab)
    BY Elements DEF Chars
<1>3. text \in Seq(Chars(text, tab))
    BY <1>2
<1>4. \A i \in 1..Len(text) : Piece(text, tab, i) \in Seq(Chars(text, tab))
    BY <1>1, <1>2 DEF Piece, Valued
<1> QED
    BY <1>1, <1>3, <1>4

LEMMA RendersNone ==
    ASSUME NEW tab, NEW a
    PROVE  Renders(<<>>, tab, a, a) /\ ~ Fails(<<>>, tab)
<1>1. Len(<<>>) = 0
    OBVIOUS
<1> QED
    BY <1>1 DEF Renders, Fails

\* One token more in front.
LEMMA RendersMore ==
    ASSUME NEW U, NEW token \in TokenOf(U), NEW ts \in Seq(TokenOf(U)), NEW tab, NEW a, NEW b,
           Renders(ts, tab, a \o RenderedAs(token, tab), b)
    PROVE  /\ <<token>> \o ts \in Seq(TokenOf(U))
           /\ Renders(<<token>> \o ts, tab, a, b)
           /\ Fails(<<token>> \o ts, tab) <=> Unset(token, tab) \/ Fails(ts, tab)
<1> DEFINE m == Len(ts)
           all == <<token>> \o ts
           T == TokenOf(U)
<1>1. ts \in Seq(T) /\ token \in T
    OBVIOUS
<1> HIDE DEF T
<1>2. /\ m \in Nat /\ Len(all) = m + 1 /\ all \in Seq(T)
      /\ all[1] = token /\ \A k \in 1..m : all[k + 1] = ts[k]
    BY <1>1
<1> HIDE DEF all
<1>3. Renders(all, tab, a, b)
    <2> SUFFICES ASSUME NEW pre, pre[0] = a,
                        \A k \in 1..Len(all) : pre[k] = pre[k - 1] \o RenderedAs(all[k], tab)
                 PROVE  pre[Len(all)] = b
        BY DEF Renders
    <2> DEFINE later == [k \in 0..m |-> pre[k + 1]]
    <2>1. later[0] = a \o RenderedAs(token, tab) /\ later[m] = pre[m + 1]
        <3>1. 1 \in 1..Len(all) /\ 1 - 1 = 0 /\ 0 + 1 = 1 /\ 0 \in 0..m /\ m \in 0..m
            BY <1>2
        <3>2. pre[1] = pre[0] \o RenderedAs(all[1], tab)
            BY <3>1
        <3> QED
            BY <1>2, <3>1, <3>2
    <2>2. ASSUME NEW k \in 1..m PROVE later[k] = later[k - 1] \o RenderedAs(ts[k], tab)
        <3>1. k + 1 \in 1..Len(all) /\ (k + 1) - 1 = k /\ (k - 1) + 1 = k
              /\ k \in 0..m /\ k - 1 \in 0..m
            BY <1>2
        <3>2. later[k] = pre[k + 1] /\ later[k - 1] = pre[k]
            BY <3>1
        <3> HIDE DEF later
        <3>3. pre[k + 1] = pre[k] \o RenderedAs(all[k + 1], tab)
            BY <3>1
        <3> QED
            BY <1>2, <3>2, <3>3
    <2> HIDE DEF later
    <2>3. later[Len(ts)] = b
        BY <2>1, <2>2 DEF Renders
    <2> QED
        BY <1>2, <2>1, <2>3
<1>4. Fails(all, tab) <=> Unset(token, tab) \/ Fails(ts, tab)
    <2>1. ASSUME NEW k \in 1..Len(all), Unset(all[k], tab)
          PROVE  Unset(token, tab) \/ Fails(ts, tab)
        <3>1. k = 1 \/ (k - 1 \in 1..m /\ (k - 1) + 1 = k)
            BY <1>2
        <3>2. k = 1 => Unset(token, tab)
            BY <1>2, <2>1
        <3>3. k - 1 \in 1..m /\ (k - 1) + 1 = k => Unset(ts[k - 1], tab)
            BY <1>2, <2>1
        <3> QED
            BY <3>1, <3>2, <3>3 DEF Fails
    <2>2. ASSUME Unset(token, tab) PROVE Fails(all, tab)
        <3>1. 1 \in 1..Len(all)
            BY <1>2
        <3> QED
            BY <1>2, <2>2, <3>1 DEF Fails
    <2>3. ASSUME NEW k \in 1..m, Unset(ts[k], tab) PROVE Fails(all, tab)
        <3>1. k + 1 \in 1..Len(all) /\ all[k + 1] = ts[k]
            BY <1>2
        <3> QED
            BY <2>3, <3>1 DEF Fails
    <2> QED
        BY <2>1, <2>2, <2>3 DEF Fails
<1> QED
    BY <1>2, <1>3, <1>4 DEF all, T

\* A literal in front, which may be empty.
LEMMA RendersLiteral ==
    ASSUME NEW U, NEW text \in Seq(U), NEW s \in 1..(Len(text) + 1), NEW e \in 0..Len(text),
           s <= e + 1, NEW ts \in Seq(TokenOf(U)), NEW tab, NEW a \in Seq(U), NEW b,
           Renders(ts, tab, a \o SubSeq(text, s, e), b)
    PROVE  /\ Literal(text, s, e) \o ts \in Seq(TokenOf(U))
           /\ Renders(Literal(text, s, e) \o ts, tab, a, b)
           /\ Fails(Literal(text, s, e) \o ts, tab) <=> Fails(ts, tab)
<1> DEFINE T == TokenOf(U)
<1>1. CASE s <= e
    <2> DEFINE token == [kind |-> "literal", piece |-> SubSeq(text, s, e)]
    <2>1. SubSeq(text, s, e) \in Seq(U)
        BY <1>1
    <2>2. token \in T
        BY <2>1 DEF TokenOf, Kinds
    <2>3. Literal(text, s, e) = <<token>>
        BY <1>1 DEF Literal, Token
    <2>4. RenderedAs(token, tab) = SubSeq(text, s, e) /\ ~ Unset(token, tab)
        BY DEF RenderedAs, Unset
    <2> HIDE DEF token
    <2> QED
        BY <2>2, <2>3, <2>4, RendersMore, Zenon
<1>2. CASE ~ (s <= e)
    <2>1. Literal(text, s, e) = <<>>
        BY <1>2 DEF Literal
    <2>2. SubSeq(text, s, e) = <<>>
        BY <1>2
    <2>3. a \o <<>> = a
        OBVIOUS
    <2>4. ts \in Seq(T)
        OBVIOUS
    <2> HIDE DEF T
    <2>5. <<>> \o ts = ts
        BY <2>4
    <2> QED
        BY <2>1, <2>2, <2>3, <2>5
<1> QED
    BY <1>1, <1>2
-----------------------------------------------------------------------------
(***************************************************************************)
(* From the end of the text to its beginning.                               *)
(***************************************************************************)
Pieces(text, tab) == [i \in DOMAIN text |-> Piece(text, tab, i)]

\* joined are the pieces up to each position.
Setting(text, tab, joined) ==
    /\ text \in Seq(ToSet(text)) /\ EscapesClosed(text)
    /\ joined \in [0..Len(text) -> Seq(Chars(text, tab))]
    /\ JoinedUpTo(Len(text), Pieces(text, tab), joined)

\* scan is the recursion of Tokens.
Recurs(text, scan) ==
    \A i \in 1..(Len(text) + 1) : \A start \in 1..i :
        scan[i][start] = ScanStep(text, scan, i, start)

\* The literal from start on goes up to i.
Pending(text, start, i) ==
    /\ start \in 1..i /\ Clear(text, i)
    /\ \A k \in 1..Len(text) : start <= k /\ k < i => Plain(text, k)

\* The tokens render the pieces from start on, and fail for the names from i on.
Right(text, tab, joined, i, start, ts) ==
    /\ ts \in Seq(TokenOf(Chars(text, tab)))
    /\ Renders(ts, tab, joined[start - 1], joined[Len(text)])
    /\ Fails(ts, tab) <=> \E p \in Names(text) : i <= p[1] /\ Valued(text, tab, p) = None

Done(text, tab, scan, joined, i) ==
    \A start : Pending(text, start, i) => Right(text, tab, joined, i, start, scan[i][start])

LEMMA SettingIs ==
    ASSUME NEW text, NEW tab, NEW joined, Setting(text, tab, joined)
    PROVE  /\ text \in Seq(ToSet(text)) /\ EscapesClosed(text) /\ Len(text) \in Nat
           /\ text \in Seq(Chars(text, tab))
           /\ \A k \in 0..Len(text) : joined[k] \in Seq(Chars(text, tab))
           /\ \A k \in 1..Len(text) : joined[k] = joined[k - 1] \o Piece(text, tab, k)
<1>1. text \in Seq(ToSet(text)) /\ EscapesClosed(text)
    BY DEF Setting
<1>2. Len(text) \in Nat /\ DOMAIN text = 1..Len(text)
    BY <1>1, Elements
<1>3. text \in Seq(Chars(text, tab))
    BY <1>1, CharsAre
<1>4. \A k \in 0..Len(text) : joined[k] \in Seq(Chars(text, tab))
    BY DEF Setting
<1>5. \A k \in 1..Len(text) : joined[k] = joined[k - 1] \o Piece(text, tab, k)
    <2>1. \A k \in 1..Len(text) : Pieces(text, tab)[k] = Piece(text, tab, k)
        BY <1>2 DEF Pieces
    <2> QED
        BY <2>1 DEF Setting, JoinedUpTo
<1> QED
    BY <1>1, <1>2, <1>3, <1>4, <1>5

\* A run of characters that stand for themselves.
Ones(text, tab, s, e) ==
    \A k \in 1..Len(text) : s <= k /\ k <= e => Piece(text, tab, k) = <<text[k]>>

LEMMA OnesJoin ==
    ASSUME NEW text, NEW tab, NEW joined, Setting(text, tab, joined),
           NEW s \in 1..(Len(text) + 1), NEW e \in 0..Len(text), s <= e + 1,
           Ones(text, tab, s, e)
    PROVE  joined[e] = joined[s - 1] \o SubSeq(text, s, e)
<1> DEFINE n == Len(text)
           U == Chars(text, tab)
           b == s - 1
           Run(m) == b + m <= e => joined[b + m] = joined[b] \o SubSeq(text, s, b + m)
           Good == {m \in Nat : Run(m)}
<1>0. /\ n \in Nat /\ b \in 0..n /\ s = b + 1 /\ text \in Seq(U)
      /\ \A k \in 0..n : joined[k] \in Seq(U)
      /\ \A k \in 1..n : joined[k] = joined[k - 1] \o Piece(text, tab, k)
    BY SettingIs
<1> HIDE DEF b, U
<1>1. Run(0)
    <2>1. b + 0 = b /\ joined[b] \in Seq(U) /\ SubSeq(text, s, b) = <<>>
        BY <1>0
    <2>2. joined[b] \o <<>> = joined[b]
        BY <2>1
    <2> QED
        BY <2>1, <2>2
<1>2. ASSUME NEW m \in Nat, Run(m) PROVE Run(m + 1)
    <2> SUFFICES ASSUME b + (m + 1) <= e
                 PROVE  joined[b + (m + 1)] = joined[b] \o SubSeq(text, s, b + (m + 1))
        OBVIOUS
    <2> DEFINE k == b + m
               c == text[k + 1]
               left == joined[b]
               sub == SubSeq(text, s, k)
    <2>1. k \in 0..n /\ k + 1 \in 1..n /\ b + (m + 1) = k + 1 /\ (k + 1) - 1 = k /\ s <= k + 1
          /\ k + 1 <= e /\ k <= e
        BY <1>0
    <2>2. joined[k] = left \o sub
        BY <1>2, <2>1
    <2>3. joined[k + 1] = joined[k] \o <<c>>
        <3>1. Piece(text, tab, k + 1) = <<c>>
            BY <2>1 DEF Ones
        <3> QED
            BY <1>0, <2>1, <3>1
    <2>4. left \in Seq(U) /\ sub \in Seq(U) /\ c \in U
        BY <1>0, <2>1
    <2>5. SubSeq(text, s, k + 1) = sub \o <<c>>
        <3>1. k \in Nat /\ k + 1 <= Len(text) /\ s \in 1..(Len(text) + 1) /\ s <= k + 1
            BY <2>1
        <3> HIDE DEF k
        <3> QED
            BY <1>0, <3>1, SubSeqMore
    <2> HIDE DEF left, sub, c, k
    <2>6. (left \o sub) \o <<c>> = left \o (sub \o <<c>>)
        BY <2>4
    <2>7. joined[k + 1] = left \o SubSeq(text, s, k + 1)
        BY <2>2, <2>3, <2>5, <2>6, Zenon
    <2> QED
        BY <2>1, <2>7 DEF left
<1> HIDE DEF Run
<1>3. \A m \in Nat : m \in Good
    <2>1. 0 \in Good /\ \A m \in Nat : m \in Good => m + 1 \in Good
        BY <1>1, <1>2
    <2> HIDE DEF Good
    <2> QED
        BY <2>1, Induction
<1>4. e - b \in Nat /\ b + (e - b) = e /\ e <= e
    BY <1>0
<1>5. Run(e - b)
    BY <1>3, <1>4
<1> QED
    BY <1>4, <1>5 DEF b, Run

\* A run of characters of which nothing is left.
LEMMA NoneJoin ==
    ASSUME NEW text, NEW tab, NEW joined, Setting(text, tab, joined),
           NEW b \in 0..Len(text), NEW e \in 0..Len(text), b <= e,
           \A k \in 1..Len(text) : b < k /\ k <= e => Piece(text, tab, k) = <<>>
    PROVE  joined[e] = joined[b]
<1> DEFINE n == Len(text)
           U == Chars(text, tab)
           Run(m) == b + m <= e => joined[b + m] = joined[b]
           Good == {m \in Nat : Run(m)}
<1>0. /\ n \in Nat
      /\ \A k \in 0..n : joined[k] \in Seq(U)
      /\ \A k \in 1..n : joined[k] = joined[k - 1] \o Piece(text, tab, k)
    BY SettingIs
<1> HIDE DEF U
<1>1. Run(0)
    OBVIOUS
<1>2. ASSUME NEW m \in Nat, Run(m) PROVE Run(m + 1)
    <2> SUFFICES ASSUME b + (m + 1) <= e PROVE joined[b + (m + 1)] = joined[b]
        OBVIOUS
    <2> DEFINE k == b + m
    <2>1. k \in 0..n /\ k + 1 \in 1..n /\ b + (m + 1) = k + 1 /\ (k + 1) - 1 = k
          /\ b < k + 1 /\ k + 1 <= e /\ k <= e
        BY <1>0
    <2>2. joined[k] = joined[b]
        BY <1>2, <2>1
    <2> HIDE DEF k
    <2>3. joined[k + 1] = joined[k] \o <<>>
        <3>1. Piece(text, tab, k + 1) = <<>>
            BY <2>1
        <3> QED
            BY <1>0, <2>1, <3>1
    <2>4. joined[k] \in Seq(U)
        BY <1>0, <2>1
    <2>5. joined[k] \o <<>> = joined[k]
        BY <2>4
    <2> QED
        BY <2>1, <2>2, <2>3, <2>5
<1> HIDE DEF Run
<1>3. \A m \in Nat : m \in Good
    <2>1. 0 \in Good /\ \A m \in Nat : m \in Good => m + 1 \in Good
        BY <1>1, <1>2
    <2> HIDE DEF Good
    <2> QED
        BY <2>1, Induction
<1>4. e - b \in Nat /\ b + (e - b) = e /\ e <= e
    BY <1>0
<1>5. Run(e - b)
    BY <1>3, <1>4
<1> QED
    BY <1>4, <1>5 DEF Run

\* The pending literal.
LEMMA PendingJoin ==
    ASSUME NEW text, NEW tab, NEW joined, Setting(text, tab, joined),
           NEW i \in 1..(Len(text) + 1), NEW start, Pending(text, start, i)
    PROVE  /\ start \in 1..i /\ start \in 1..(Len(text) + 1) /\ i - 1 \in 0..Len(text)
           /\ start <= (i - 1) + 1 /\ joined[start - 1] \in Seq(Chars(text, tab))
           /\ joined[i - 1] = joined[start - 1] \o SubSeq(text, start, i - 1)
<1>1. Len(text) \in Nat /\ text \in Seq(ToSet(text))
    BY SettingIs
<1> DEFINE e == i - 1
<1>2. /\ start \in 1..i /\ start \in 1..(Len(text) + 1) /\ e \in 0..Len(text)
      /\ start <= e + 1 /\ start - 1 \in 0..Len(text)
    BY <1>1 DEF Pending
<1>3. ASSUME NEW k \in 1..Len(text), start <= k, k <= e
      PROVE  Piece(text, tab, k) = <<text[k]>>
    <2>1. k < i
        BY <1>1, <1>3
    <2>2. Plain(text, k)
        BY <1>3, <2>1 DEF Pending
    <2> QED
        BY <1>1, <2>2, PlainPiece
<1>5. joined[start - 1] \in Seq(Chars(text, tab))
    BY <1>2, SettingIs
<1>6. Ones(text, tab, start, e)
    BY <1>3 DEF Ones
<1> HIDE DEF e
<1>4. joined[e] = joined[start - 1] \o SubSeq(text, start, e)
    BY <1>2, <1>6, OnesJoin, Zenon
<1> QED
    BY <1>2, <1>4, <1>5 DEF e

LEMMA LiteralIs ==
    ASSUME NEW U, NEW text \in Seq(U), NEW s \in 1..(Len(text) + 1), NEW e \in 0..Len(text)
    PROVE  Literal(text, s, e) \in Seq(TokenOf(U))
<1> DEFINE T == TokenOf(U)
           first == [kind |-> "literal", piece |-> SubSeq(text, s, e)]
<1>1. s <= e => SubSeq(text, s, e) \in Seq(U)
    OBVIOUS
<1>2. s <= e => first \in T
    BY <1>1 DEF TokenOf, Kinds
<1>3. Literal(text, s, e) = IF s <= e THEN <<first>> ELSE <<>>
    BY DEF Literal, Token
<1> HIDE DEF first, T
<1>4. s <= e => <<first>> \in Seq(T)
    BY <1>2
<1>5. <<>> \in Seq(T)
    OBVIOUS
<1>6. Literal(text, s, e) \in Seq(T)
    BY <1>3, <1>4, <1>5
<1> QED
    BY <1>6 DEF T

\* The pending literal, a token, and the rest.
LEMMA Emits ==
    ASSUME NEW text, NEW tab, NEW joined, Setting(text, tab, joined),
           NEW i \in 1..(Len(text) + 1), NEW start, Pending(text, start, i),
           NEW token \in TokenOf(Chars(text, tab)), NEW ts \in Seq(TokenOf(Chars(text, tab))),
           Renders(ts, tab, joined[i - 1] \o RenderedAs(token, tab), joined[Len(text)])
    PROVE  LET all == Literal(text, start, i - 1) \o <<token>> \o ts IN
           /\ all \in Seq(TokenOf(Chars(text, tab)))
           /\ Renders(all, tab, joined[start - 1], joined[Len(text)])
           /\ Fails(all, tab) <=> Unset(token, tab) \/ Fails(ts, tab)
<1> DEFINE U == Chars(text, tab)
           T == TokenOf(U)
           e == i - 1
           literal == Literal(text, start, e)
           more == <<token>> \o ts
           before0 == joined[start - 1]
           end == joined[Len(text)]
<1>1. /\ start \in 1..(Len(text) + 1) /\ e \in 0..Len(text) /\ start <= e + 1
      /\ before0 \in Seq(U)
      /\ joined[e] = before0 \o SubSeq(text, start, e)
    BY PendingJoin
<1>7. text \in Seq(U)
    BY SettingIs
<1>2. /\ more \in Seq(T)
      /\ Renders(more, tab, joined[e], end)
      /\ Fails(more, tab) <=> Unset(token, tab) \/ Fails(ts, tab)
    BY RendersMore
<1>3. token \in T /\ ts \in Seq(T)
    OBVIOUS
<1> HIDE DEF U, more, before0, end, e
<1>8. Renders(more, tab, before0 \o SubSeq(text, start, e), end)
    BY <1>1, <1>2
<1>4. /\ literal \o more \in Seq(T)
      /\ Renders(literal \o more, tab, before0, end)
      /\ Fails(literal \o more, tab) <=> Fails(more, tab)
    BY <1>1, <1>2, <1>7, <1>8, RendersLiteral, Zenon
<1>5. literal \in Seq(T)
    BY <1>1, <1>7, LiteralIs
<1> HIDE DEF literal, T
<1>6. literal \o <<token>> \o ts = literal \o more
    BY <1>3, <1>5 DEF more
<1> QED
    BY <1>2, <1>4, <1>6 DEF literal, T, U, before0, end, e
LEMMA RecursIs ==
    ASSUME NEW text, NEW scan, Recurs(text, scan), text \in Seq(ToSet(text)),
           NEW i \in 1..(Len(text) + 1), NEW start, Pending(text, start, i)
    PROVE  scan[i][start] = ScanStep(text, scan, i, start)
    BY DEF Recurs, Pending

LEMMA DoneAtEnd ==
    ASSUME NEW text, NEW tab, NEW scan, NEW joined, Setting(text, tab, joined),
           Recurs(text, scan)
    PROVE  Done(text, tab, scan, joined, Len(text) + 1)
<1> DEFINE n == Len(text)
           U == Chars(text, tab)
<1>0. /\ text \in Seq(ToSet(text)) /\ n \in Nat /\ text \in Seq(U) /\ n + 1 \in 1..(n + 1)
      /\ (n + 1) - 1 = n
    BY SettingIs
<1> SUFFICES ASSUME NEW start, Pending(text, start, n + 1)
             PROVE  Right(text, tab, joined, n + 1, start, scan[n + 1][start])
    BY Zenon DEF Done
<1> DEFINE literal == Literal(text, start, n)
           T == TokenOf(U)
<1>1. scan[n + 1][start] = literal
    <2>1. scan[n + 1][start] = ScanStep(text, scan, n + 1, start)
        BY <1>0, RecursIs
    <2>2. \A h, s : ScanStep(text, h, n + 1, s) = Literal(text, s, n)
        BY <1>0, StepAtEnd
    <2> QED
        BY <2>1, <2>2
<1>2. /\ start \in 1..(n + 1) /\ n \in 0..n /\ start <= n + 1 /\ joined[start - 1] \in Seq(U)
      /\ joined[n] = joined[start - 1] \o SubSeq(text, start, n)
    BY <1>0, PendingJoin
<1>3. /\ Renders(<<>>, tab, joined[start - 1] \o SubSeq(text, start, n), joined[n])
      /\ ~ Fails(<<>>, tab)
    BY <1>2, RendersNone
<1>4. <<>> \in Seq(T)
    OBVIOUS
<1> HIDE DEF U
<1>5. /\ Renders(literal \o <<>>, tab, joined[start - 1], joined[n])
      /\ ~ Fails(literal \o <<>>, tab)
    <2> DEFINE left == joined[start - 1]
               end == joined[n]
    <2>1. /\ start \in 1..(n + 1) /\ n \in 0..n /\ start <= n + 1 /\ left \in Seq(U)
          /\ Renders(<<>>, tab, left \o SubSeq(text, start, n), end)
        BY <1>2, <1>3
    <2> HIDE DEF left, end
    <2>2. /\ Renders(literal \o <<>>, tab, left, end)
          /\ Fails(literal \o <<>>, tab) <=> Fails(<<>>, tab)
        BY <1>0, <1>4, <2>1, RendersLiteral, Zenon
    <2> QED
        BY <1>3, <2>2 DEF left, end
<1>6. literal \in Seq(T)
    BY <1>0, <1>2, LiteralIs
<1> HIDE DEF literal, T
<1>7. literal \o <<>> = literal
    BY <1>6
<1>8. ASSUME NEW p \in Names(text) PROVE ~ (n + 1 <= p[1])
    BY <1>0, EscapedIs DEF Names, PlacedAt
<1> QED
    BY <1>1, <1>5, <1>6, <1>7, <1>8 DEF Right, T, U

\* The rest goes on after position e, which a placeholder ends at.
LEMMA GoesOn ==
    ASSUME NEW text, text \in Seq(ToSet(text)), NEW tab, NEW scan, NEW joined,
           NEW p \in Placed(text), Done(text, tab, scan, joined, p[2] + 1)
    PROVE  Right(text, tab, joined, p[2] + 1, p[2] + 1, scan[p[2] + 1][p[2] + 1])
<1>1. p[2] \in 1..Len(text) /\ Len(text) \in Nat
    BY EscapedIs DEF PlacedAt
<1>2. Clear(text, p[2] + 1)
    BY ClearAfter
<1>3. Pending(text, p[2] + 1, p[2] + 1)
    BY <1>1, <1>2 DEF Pending
<1> QED
    BY <1>3, Zenon DEF Done

LEMMA DoneAtEscape ==
    ASSUME NEW text, NEW tab, NEW scan, NEW joined, Setting(text, tab, joined),
           Recurs(text, scan), NEW i \in 1..Len(text), AtEscape(text, i),
           \A j \in 1..(Len(text) + 1) : i < j => Done(text, tab, scan, joined, j)
    PROVE  Done(text, tab, scan, joined, i)
<1> DEFINE n == Len(text)
           U == Chars(text, tab)
<1>0. /\ text \in Seq(ToSet(text)) /\ n \in Nat /\ text \in Seq(U) /\ EscapesClosed(text)
      /\ i \in 1..(n + 1)
    BY SettingIs
<1>1. PICK p \in Placed(text) :
        /\ p[1] = i + 1 /\ Closer(text, i + 2) = p[2] /\ p[2] \in 1..n
        /\ Piece(text, tab, i) = <<>>
        /\ \A k \in 1..n : i < k /\ k <= p[2] => Piece(text, tab, k) = <<text[k]>>
        /\ \A q \in Names(text) : ~ (i <= q[1] /\ q[1] <= p[2])
    BY <1>0, AtEscapeIs
<1> DEFINE e == p[2]
           token == [kind |-> "escaped", piece |-> SubSeq(text, i + 1, e)]
           ts == scan[e + 1][e + 1]
<1>2. e \in 1..n /\ i < e /\ e + 1 \in 1..(n + 1) /\ i < e + 1
    BY <1>0, <1>1, EscapedIs DEF PlacedAt
<1>3. Right(text, tab, joined, e + 1, e + 1, ts)
    BY <1>0, <1>2, GoesOn
<1>4. joined[e] = joined[i - 1] \o SubSeq(text, i + 1, e)
    <2>1. Ones(text, tab, i + 1, e)
        BY <1>1 DEF Ones
    <2>2. i + 1 \in 1..(n + 1) /\ e \in 0..n /\ i + 1 <= e + 1 /\ (i + 1) - 1 = i
        BY <1>0, <1>2
    <2>3. joined[e] = joined[(i + 1) - 1] \o SubSeq(text, i + 1, e)
        <3> HIDE DEF e
        <3> QED
            BY <2>1, <2>2, OnesJoin, Zenon
    <2>4. joined[i] = joined[i - 1] \o <<>> /\ joined[i - 1] \in Seq(U)
        <3>1. joined[i] = joined[i - 1] \o Piece(text, tab, i)
            BY SettingIs
        <3>2. i - 1 \in 0..n
            BY <1>0
        <3>3. \A k \in 0..n : joined[k] \in Seq(U)
            BY SettingIs
        <3>4. joined[i - 1] \in Seq(U)
            BY <3>2, <3>3
        <3> QED
            BY <1>1, <3>1, <3>4
    <2>5. joined[i - 1] \o <<>> = joined[i - 1]
        BY <2>4
    <2> QED
        BY <2>2, <2>3, <2>4, <2>5
<1>5. token \in TokenOf(U)
    <2>1. SubSeq(text, i + 1, e) \in Seq(U)
        BY <1>0, <1>2
    <2> QED
        BY <2>1 DEF TokenOf, Kinds
<1>6. RenderedAs(token, tab) = SubSeq(text, i + 1, e) /\ ~ Unset(token, tab)
    BY DEF RenderedAs, Unset
<1>7. Escaped(text, i, e) = <<token>>
    BY DEF Escaped, Token
<1>8. /\ ts \in Seq(TokenOf(U)) /\ Renders(ts, tab, joined[e], joined[n])
      /\ Fails(ts, tab) <=> \E q \in Names(text) : e + 1 <= q[1] /\ Valued(text, tab, q) = None
    <2>1. (e + 1) - 1 = e
        BY <1>2
    <2> HIDE DEF ts, e
    <2> QED
        BY <1>3, <2>1 DEF Right
<1>9. ASSUME NEW q \in Names(text) PROVE i <= q[1] <=> e + 1 <= q[1]
    <2>1. ~ (i <= q[1] /\ q[1] <= e)
        BY <1>1
    <2>2. q[1] \in Int
        BY <1>0, EscapedIs DEF Names, PlacedAt
    <2> QED
        BY <1>2, <2>1, <2>2
<1> SUFFICES ASSUME NEW start, Pending(text, start, i)
             PROVE  Right(text, tab, joined, i, start, scan[i][start])
    BY Zenon DEF Done
<1> DEFINE all == Literal(text, start, i - 1) \o <<token>> \o ts
<1>10. scan[i][start] = all
    <2>1. scan[i][start] = ScanStep(text, scan, i, start)
        BY <1>0, RecursIs
    <2>2. Closer(text, i + 2) \in 1..n
        BY <1>1
    <2>3. ScanStep(text, scan, i, start) =
                Literal(text, start, i - 1) \o Escaped(text, i, Closer(text, i + 2))
                    \o scan[Closer(text, i + 2) + 1][Closer(text, i + 2) + 1]
        BY <1>0, <2>2, StepAtEscape
    <2> QED
        BY <1>1, <1>7, <2>1, <2>3
<1> HIDE DEF token, ts, e
<1>11. /\ all \in Seq(TokenOf(U))
       /\ Renders(all, tab, joined[start - 1], joined[n])
       /\ Fails(all, tab) <=> Unset(token, tab) \/ Fails(ts, tab)
    <2>1. Renders(ts, tab, joined[i - 1] \o RenderedAs(token, tab), joined[n])
        BY <1>4, <1>6, <1>8
    <2> QED
        BY <1>0, <1>5, <1>8, <2>1, Emits, Zenon
<1> HIDE DEF all
<1> QED
    BY <1>6, <1>8, <1>9, <1>10, <1>11 DEF Right

LEMMA DoneAtName ==
    ASSUME NEW text, NEW tab, NEW scan, NEW joined, Setting(text, tab, joined),
           Recurs(text, scan), NEW i \in 1..Len(text), AtName(text, i),
           \A j \in 1..(Len(text) + 1) : i < j => Done(text, tab, scan, joined, j)
    PROVE  Done(text, tab, scan, joined, i)
<1> DEFINE n == Len(text)
           U == Chars(text, tab)
           e == NameEnd(text, i + 2)
           token == [kind |-> "placeholder", piece |-> SubSeq(text, i + 2, e - 1)]
           ts == scan[e + 1][e + 1]
<1>0. /\ text \in Seq(ToSet(text)) /\ n \in Nat /\ text \in Seq(U)
      /\ i \in 1..(n + 1)
    BY SettingIs
<1> SUFFICES ASSUME NEW start, Pending(text, start, i)
             PROVE  Right(text, tab, joined, i, start, scan[i][start])
    BY Zenon DEF Done
<1>1. PICK p \in Names(text) :
        /\ p = <<i, e>> /\ e \in 1..n /\ i < e
        /\ Piece(text, tab, i) = <<Valued(text, tab, p)>>
        /\ \A k \in 1..n : i < k /\ k <= e => Piece(text, tab, k) = <<>>
        /\ \A q \in Names(text) : i <= q[1] /\ q[1] <= e => q = p
    <2>1. Clear(text, i)
        BY DEF Pending
    <2>2. \E p \in Names(text) : NamedFrom(text, tab, i, NameEnd(text, i + 2), p)
        BY <1>0, <2>1, AtNameIs
    <2> QED
        BY <2>2 DEF NamedFrom
<1> DEFINE v == Valued(text, tab, p)
<1>2. p \in Placed(text) /\ p[1] = i /\ p[2] = e /\ e + 1 \in 1..(n + 1) /\ i < e + 1
      /\ i + 2 < e
    <2>1. p \in Placed(text) /\ PlacedAt(text, n, p)
        BY <1>0, EscapedIs DEF Names
    <2> HIDE DEF e
    <2>2. p[1] = i /\ p[2] = e
        BY <1>1
    <2> QED
        BY <1>0, <1>1, <2>1, <2>2 DEF PlacedAt
<1>10. scan[i][start] = Literal(text, start, i - 1) \o <<token>> \o ts
    <2>1. scan[i][start] = ScanStep(text, scan, i, start)
        BY <1>0, RecursIs
    <2>2. Token("placeholder", SubSeq(text, i + 2, e - 1)) = <<token>>
        BY DEF Token
    <2>3. ScanStep(text, scan, i, start) =
                Literal(text, start, i - 1)
                    \o Token("placeholder", SubSeq(text, i + 2, NameEnd(text, i + 2) - 1))
                    \o scan[NameEnd(text, i + 2) + 1][NameEnd(text, i + 2) + 1]
        BY <1>0, StepAtName
    <2> QED
        BY <2>1, <2>2, <2>3
<1>6. RenderedAs(token, tab) = <<v>> /\ (Unset(token, tab) <=> v = None)
    <2>1. v = Get(SubSeq(text, i + 2, e - 1), tab)
        <3> HIDE DEF e
        <3> QED
            BY <1>2 DEF Valued, Name
    <2> HIDE DEF v
    <2> QED
        BY <2>1 DEF RenderedAs, Unset
<1>5. token \in TokenOf(U)
    <2> HIDE DEF e
    <2>1. SubSeq(text, i + 2, e - 1) \in Seq(U)
        BY <1>0, <1>1, <1>2
    <2> QED
        BY <2>1 DEF TokenOf, Kinds
<1> HIDE DEF e, token
<1>3. Right(text, tab, joined, e + 1, e + 1, ts)
    <2>1. Done(text, tab, scan, joined, p[2] + 1)
        BY <1>2
    <2> QED
        BY <1>0, <1>2, <2>1, GoesOn
<1> HIDE DEF ts
<1>4. joined[e] = joined[i - 1] \o <<v>>
    <2>1. joined[i] = joined[i - 1] \o <<v>>
        BY <1>1, SettingIs
    <2>2. i \in 0..n /\ e \in 0..n /\ i <= e
        BY <1>0, <1>1
    <2>3. joined[e] = joined[i]
        BY <1>1, <2>2, NoneJoin
    <2> QED
        BY <2>1, <2>3
<1>8. /\ ts \in Seq(TokenOf(U)) /\ Renders(ts, tab, joined[e], joined[n])
      /\ Fails(ts, tab) <=> \E q \in Names(text) : e + 1 <= q[1] /\ Valued(text, tab, q) = None
    <2>1. (e + 1) - 1 = e
        BY <1>1
    <2> QED
        BY <1>3, <2>1 DEF Right
<1>9. (\E q \in Names(text) : i <= q[1] /\ Valued(text, tab, q) = None)
        <=> v = None \/ \E q \in Names(text) : e + 1 <= q[1] /\ Valued(text, tab, q) = None
    <2>1. ASSUME NEW q \in Names(text) PROVE i <= q[1] <=> q = p \/ e + 1 <= q[1]
        <3>1. q[1] \in Int
            BY <1>0, EscapedIs DEF Names, PlacedAt
        <3>2. i <= q[1] /\ q[1] <= e => q = p
            BY <1>1
        <3> QED
            BY <1>1, <1>2, <3>1, <3>2
    <2> QED
        BY <2>1
<1> DEFINE all == Literal(text, start, i - 1) \o <<token>> \o ts
<1>11. /\ all \in Seq(TokenOf(U))
       /\ Renders(all, tab, joined[start - 1], joined[n])
       /\ Fails(all, tab) <=> Unset(token, tab) \/ Fails(ts, tab)
    <2>1. Renders(ts, tab, joined[i - 1] \o RenderedAs(token, tab), joined[n])
        BY <1>4, <1>6, <1>8
    <2> QED
        BY <1>0, <1>5, <1>8, <2>1, Emits, Zenon
<1>12. scan[i][start] = all
    BY <1>10
<1> HIDE DEF all
<1> QED
    BY <1>6, <1>8, <1>9, <1>11, <1>12 DEF Right

LEMMA DoneElsewhere ==
    ASSUME NEW text, NEW tab, NEW scan, NEW joined, Setting(text, tab, joined),
           Recurs(text, scan), NEW i \in 1..Len(text), ~ AtEscape(text, i), ~ AtName(text, i),
           \A j \in 1..(Len(text) + 1) : i < j => Done(text, tab, scan, joined, j)
    PROVE  Done(text, tab, scan, joined, i)
<1> DEFINE n == Len(text)
<1>0. /\ text \in Seq(ToSet(text)) /\ n \in Nat /\ i \in 1..(n + 1)
      /\ i + 1 \in 1..(n + 1) /\ i < i + 1
    BY SettingIs
<1> SUFFICES ASSUME NEW start, Pending(text, start, i)
             PROVE  Right(text, tab, joined, i, start, scan[i][start])
    BY Zenon DEF Done
<1>1. Plain(text, i) /\ Clear(text, i + 1)
    BY <1>0, ElsewhereIs DEF Pending
<1>2. Pending(text, start, i + 1)
    <2>1. ASSUME NEW k \in 1..n, start <= k, k < i + 1 PROVE Plain(text, k)
        <3>1. k = i \/ k < i
            BY <2>1
        <3> QED
            BY <1>1, <2>1, <3>1 DEF Pending
    <2>2. start \in 1..(i + 1)
        BY DEF Pending
    <2> QED
        BY <1>1, <2>1, <2>2 DEF Pending
<1>3. Right(text, tab, joined, i + 1, start, scan[i + 1][start])
    BY <1>0, <1>2, Zenon DEF Done
<1>4. scan[i][start] = scan[i + 1][start]
    <2>1. scan[i][start] = ScanStep(text, scan, i, start)
        BY <1>0, RecursIs
    <2>2. \A h, s : ScanStep(text, h, i, s) = h[i + 1][s]
        BY <1>0, StepElsewhere
    <2> QED
        BY <2>1, <2>2
<1>5. ASSUME NEW p \in Names(text) PROVE i <= p[1] <=> i + 1 <= p[1]
    <2>1. p \in Placed(text) /\ PlacedAt(text, n, p) /\ Begins(text, p) = p[1]
        BY <1>0, EscapedIs DEF Names, Begins
    <2>2. ~ (p[1] <= i /\ i <= p[2])
        BY <1>1, <2>1 DEF Plain
    <2> QED
        BY <2>1, <2>2 DEF PlacedAt
<1> QED
    BY <1>3, <1>4, <1>5 DEF Right
\* The whole of a text.
LEMMA TokensRight ==
    ASSUME NEW text, NEW tab, NEW joined, Setting(text, tab, joined)
    PROVE  Right(text, tab, joined, 1, 1, Tokens(text))
<1> DEFINE n == Len(text)
<1>0. text \in Seq(ToSet(text)) /\ n \in Nat
    BY SettingIs
<1>1. PICK scan :
        /\ Tokens(text) = scan[1][1]
        /\ \A i \in 1..(n + 1) : \A start \in 1..i :
                scan[i][start] = ScanStep(text, scan, i, start)
    BY <1>0, TokensAre
<1>2. Recurs(text, scan)
    BY <1>1, Zenon DEF Recurs
<1> DEFINE D(j) == Done(text, tab, scan, joined, j)
           Run(m) == \A j \in 1..(n + 1) : (n + 1) - m <= j => D(j)
           Good == {m \in Nat : Run(m)}
<1>3. ASSUME NEW i \in 1..n, \A j \in 1..(n + 1) : i < j => D(j) PROVE D(i)
    BY <1>2, <1>3, DoneAtEscape, DoneAtName, DoneElsewhere
<1>4. D(n + 1)
    BY <1>2, DoneAtEnd
<1> HIDE DEF D
<1>5. Run(0)
    <2>1. \A j \in 1..(n + 1) : (n + 1) - 0 <= j => j = n + 1
        BY <1>0
    <2> QED
        BY <1>4, <2>1, Zenon
<1>6. ASSUME NEW m \in Nat, Run(m) PROVE Run(m + 1)
    <2> SUFFICES ASSUME NEW j \in 1..(n + 1), (n + 1) - (m + 1) <= j PROVE D(j)
        OBVIOUS
    <2>1. CASE (n + 1) - m <= j
        BY <1>6, <2>1
    <2>2. CASE ~ ((n + 1) - m <= j)
        <3>1. j \in 1..n /\ \A k \in 1..(n + 1) : j < k => (n + 1) - m <= k
            BY <1>0, <2>2
        <3>2. \A k \in 1..(n + 1) : j < k => D(k)
            BY <1>6, <3>1
        <3> QED
            BY <1>3, <3>1, <3>2
    <2> QED
        BY <2>1, <2>2
<1> HIDE DEF Run
<1>7. \A m \in Nat : m \in Good
    <2>1. 0 \in Good /\ \A m \in Nat : m \in Good => m + 1 \in Good
        BY <1>5, <1>6
    <2> HIDE DEF Good
    <2> QED
        BY <2>1, Induction
<1>8. Done(text, tab, scan, joined, 1)
    <2>1. Run(n) /\ 1 \in 1..(n + 1) /\ (n + 1) - n <= 1
        BY <1>0, <1>7
    <2> QED
        BY <2>1 DEF Run, D
<1>9. Pending(text, 1, 1)
    <2>1. ASSUME NEW p \in Placed(text) PROVE ~ (Begins(text, p) < 1)
        BY <1>0, EscapedIs DEF Begins, PlacedAt
    <2> QED
        BY <1>0, <2>1 DEF Pending, Clear
<1> QED
    BY <1>1, <1>8, <1>9 DEF Done

\* Rendered goes through one sequence for each prefix of the tokens.
LEMMA RenderRuns ==
    ASSUME NEW U, NEW tab, \A x : Get(x, tab) \in U,
           NEW text, Tokens(text) \in Seq(TokenOf(U))
    PROVE  \E pre : /\ pre[0] = <<>> /\ pre[Len(Tokens(text))] = Rendered(text, tab)
                    /\ \A k \in 1..Len(Tokens(text)) :
                            pre[k] = pre[k - 1] \o RenderedAs(Tokens(text)[k], tab)
<1> DEFINE ts == Tokens(text)
           n == Len(ts)
           V == Seq(U)
           T == TokenOf(U)
           R(k) == RenderedAs(ts[k], tab)
           step == [k \in 1..n |-> [out \in V |-> out \o R(k)]]
           Iterates(it) ==
              it = [s \in SUBSET (DOMAIN ts) |->
                        IF s = {} THEN <<>>
                        ELSE it[s \ {Max(s)}] \o
                                (IF ts[Max(s)].kind = "placeholder"
                                 THEN <<Get(ts[Max(s)].piece, tab)>> ELSE ts[Max(s)].piece)]
           h == CHOOSE it : Iterates(it)
<1>6. Rendered(text, tab) = h[DOMAIN ts]
    BY DEF Rendered, FoldLeft, MapThenFoldSet
<1>11. Iterates(h) <=> Iterates(h)
    OBVIOUS
<1> DEFINE Unrolls(it) ==
              it = [s \in SUBSET (1..n) |->
                        IF s = {} THEN <<>> ELSE it[s \ {Max(s)}] \o R(Max(s))]
<1>12. \A it : Iterates(it) <=> Unrolls(it)
    <2>1. DOMAIN ts = 1..n
        OBVIOUS
    <2> QED
        BY <2>1, Zenon DEF RenderedAs
<1> HIDE DEF Iterates
<1>13. n \in Nat /\ DOMAIN ts = 1..n /\ \A k \in 1..n : ts[k] \in T
    <2>1. ts \in Seq(T)
        OBVIOUS
    <2> HIDE DEF ts, T
    <2> QED
        BY <2>1
<1> HIDE DEF ts, n
<1>0. <<>> \in V
    OBVIOUS
<1>14. ASSUME NEW k \in 1..n PROVE R(k) \in V
    <2>1. ts[k] \in [kind : Kinds, piece : Seq(U)]
        BY <1>13 DEF TokenOf
    <2>2. ts[k].piece \in Seq(U)
        BY <2>1
    <2> QED
        BY <2>2 DEF RenderedAs
<1> HIDE DEF R
<1>1. ASSUME NEW k \in 1..n, NEW out \in V PROVE out \o R(k) \in V
    BY <1>14
<1> HIDE DEF V
<1>2. step \in [1..n -> [V -> V]]
    BY <1>1
<1>3. PICK g \in [SUBSET (1..n) -> V] : FoldedBy(n, <<>>, step, g)
    <2> HIDE DEF step
    <2> QED
        BY <1>0, <1>2, <1>13, FoldExists
<1>4. Unrolls(g)
    <2>1. ASSUME NEW s \in SUBSET (1..n), s # {}
          PROVE  g[s] = g[s \ {Max(s)}] \o R(Max(s))
        <3>1. g[s] = step[Max(s)][g[s \ {Max(s)}]]
            <4> HIDE DEF step
            <4> QED
                BY <1>3, <2>1 DEF FoldedBy
        <3>2. Max(s) \in 1..n /\ g[s \ {Max(s)}] \in V
            BY <1>13, <2>1, MaxOfPositions
        <3> QED
            BY <3>1, <3>2
    <2>2. g[{}] = <<>>
        <3> HIDE DEF step
        <3>1. {} \in SUBSET (1..n)
            OBVIOUS
        <3> QED
            BY <1>3, <3>1, Zenon DEF FoldedBy
    <2>3. g = [s \in SUBSET (1..n) |-> g[s]]
        OBVIOUS
    <2>4. \A s \in SUBSET (1..n) : g[s] = IF s = {} THEN <<>> ELSE g[s \ {Max(s)}] \o R(Max(s))
        BY <2>1, <2>2, Zenon
    <2> HIDE DEF step
    <2> QED
        BY <2>3, <2>4, Zenon
<1>5. Unrolls(h)
    <2>1. Iterates(g)
        BY <1>4, <1>12, Zenon
    <2>2. Iterates(h)
        BY <2>1, Zenon
    <2> HIDE DEF Unrolls, h
    <2> QED
        BY <1>12, <2>2, Zenon
<1> HIDE DEF h
<1>7. /\ h[{}] = <<>>
      /\ \A s \in SUBSET (1..n) : s # {} => h[s] = h[s \ {Max(s)}] \o R(Max(s))
    BY <1>5
<1>8. \A s \in SUBSET (1..n) : s # {} /\ h[s \ {Max(s)}] \in V =>
            h[s] = step[Max(s)][h[s \ {Max(s)}]]
    <2> HIDE DEF Unrolls
    <2> QED
        BY <1>7, <1>13, MaxOfPositions
<1>9. PICK pre \in [0..n -> V] : FoldPrefixes(n, <<>>, step, h, pre)
    <2> HIDE DEF step, Unrolls
    <2>1. h[{}] = <<>>
        BY <1>7, Zenon
    <2>2. Unfolds(n, V, <<>>, step, h)
        BY <2>1, <1>8, Zenon DEF Unfolds
    <2> QED
        BY <1>0, <1>2, <1>13, <2>2, FoldRuns
<1>10. \A k \in 1..n : pre[k] = pre[k - 1] \o R(k)
    <2> HIDE DEF Unrolls
    <2>1. \A k \in 1..n : k - 1 \in 0..n
        BY <1>13
    <2> QED
        BY <1>9, <2>1 DEF FoldPrefixes
<1> HIDE DEF step, Unrolls
<1>15. pre[0] = <<>> /\ pre[n] = Rendered(text, tab)
    BY <1>6, <1>9, <1>13 DEF FoldPrefixes
<1> QED
    BY <1>10, <1>15 DEF n, ts, R
-----------------------------------------------------------------------------
\* What a text means, character by character.
LEMMA TextIs ==
    ASSUME NEW text, text \in Seq(ToSet(text)), NEW tab, EscapesClosed(text)
    PROVE  /\ (\E token \in ToSet(Tokens(text)) : Unset(token, tab))
                <=> \E p \in Names(text) : Valued(text, tab, p) = None
           /\ Rendered(text, tab) = FlattenSeq(Pieces(text, tab))
<1> DEFINE n == Len(text)
           U == Chars(text, tab)
           ts == Tokens(text)
           pieces == Pieces(text, tab)
<1>0. n \in Nat /\ DOMAIN text = 1..n
    BY Elements
<1>1. pieces \in [1..n -> Seq(U)]
    BY <1>0, CharsAre DEF Pieces
<1>2. PICK joined \in [0..n -> Seq(U)] :
            JoinedUpTo(n, pieces, joined) /\ FlattenSeq(pieces) = joined[n]
    <2> HIDE DEF pieces, U
    <2> QED
        BY <1>0, <1>1, JoinedUpToAll
<1>3. Setting(text, tab, joined)
    BY <1>2 DEF Setting
<1>4. Right(text, tab, joined, 1, 1, ts)
    BY <1>3, TokensRight
<1>5. /\ ts \in Seq(TokenOf(U)) /\ Renders(ts, tab, joined[0], joined[n])
      /\ Fails(ts, tab) <=> \E p \in Names(text) : 1 <= p[1] /\ Valued(text, tab, p) = None
    <2>1. 1 - 1 = 0
        OBVIOUS
    <2> HIDE DEF ts
    <2> QED
        BY <1>4, <2>1 DEF Right
<1>6. joined[0] = <<>>
    BY <1>2 DEF JoinedUpTo
<1>7. Rendered(text, tab) = joined[n]
    <2>1. \A x : Get(x, tab) \in U
        BY CharsAre
    <2>2. PICK pre : /\ pre[0] = <<>> /\ pre[Len(ts)] = Rendered(text, tab)
                     /\ \A k \in 1..Len(ts) : pre[k] = pre[k - 1] \o RenderedAs(ts[k], tab)
        <3> HIDE DEF U
        <3> QED
            BY <1>5, <2>1, RenderRuns
    <2> HIDE DEF ts
    <2>3. pre[Len(ts)] = joined[n]
        BY <1>5, <1>6, <2>2, Zenon DEF Renders
    <2> QED
        BY <2>2, <2>3
<1>8. \A p \in Names(text) : 1 <= p[1]
    BY <1>0, EscapedIs DEF Names, PlacedAt
<1>9. (\E token \in ToSet(ts) : Unset(token, tab)) <=> Fails(ts, tab)
    <2>1. DOMAIN ts = 1..Len(ts)
        <3> DEFINE T == TokenOf(U)
        <3>1. ts \in Seq(T)
            BY <1>5
        <3> HIDE DEF ts, T
        <3> QED
            BY <3>1
    <2> HIDE DEF ts
    <2> QED
        BY <2>1 DEF Fails, ToSet
<1> QED
    BY <1>2, <1>5, <1>7, <1>8, <1>9

(* Whatever the characters, the texts and the table of variables: each name  *)
(* is replaced with its value, each escaped one keeps all but its first $,   *)
(* every other character stays where it was, and the substitution fails     *)
(* exactly if a name that is not escaped has no value (vars.cpp, vars.h).    *)
THEOREM TextSubstituted == Spec => []SubstitutedAsDocumented
<1>1. TextInv => SubstitutedAsDocumented
    <2> SUFFICES ASSUME TextInv, pc = "partials",
                        NEW f \in DOMAIN folder, NEW l \in ToSet(folder[f]),
                        l.t = "text", EscapesClosed(l.val)
                 PROVE  IF \E p \in Names(l.val) : Valued(l.val, table, p) = None
                        THEN Undefined(l, table)
                        ELSE /\ ~ Undefined(l, table)
                             /\ Rendered(l.val, table) = FlattenSeq(Pieces(l.val, table))
        BY DEF SubstitutedAsDocumented, Names, Valued, Pieces, Piece, Covered
    <2>1. IsLine(l)
        BY DEF TextInv, Dir, Lines
    <2>2. l.val \in Seq(ToSet(l.val))
        BY <2>1 DEF IsLine
    <2>3. Undefined(l, table) <=> \E token \in ToSet(Tokens(l.val)) : Unset(token, table)
        BY DEF Undefined, Unset
    <2> QED
        BY <2>2, <2>3, TextIs
<1> QED
    BY <1>1, TextInvHolds, PTL
=============================================================================
