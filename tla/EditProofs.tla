----------------------------- MODULE EditProofs -----------------------------
(***************************************************************************)
(* Theorems about Sources for every folder and every request: what `peer    *)
(* add` and `peer remove` do to the peers of a network.                     *)
(*                                                                          *)
(* Both compare two folders of which one has one file more.  The scan of a  *)
(* file does not depend on the files before it, so the peers of the larger  *)
(* folder are those of the smaller one with a run of the file's in between. *)
(***************************************************************************)
EXTENDS SourcesProofs

(***************************************************************************)
(* What the scan finds in a file does not depend on the files before it.    *)
(***************************************************************************)
LEMMA Regroup ==
    ASSUME NEW r \in Seq(Assignment), NEW s \in Seq(Assignment), NEW t \in Seq(Assignment)
    PROVE  (r \o s) \o t = r \o (s \o t)
    OBVIOUS

\* s is t after the peers o.
Beyond(s, t, o) ==
    /\ s.inPeer = t.inPeer /\ s.name = t.name /\ s.file = t.file /\ s.bad = t.bad
    /\ s.inPeer => s.cur = t.cur
    /\ s.out = o \o t.out

LEMMA FlushBeyond ==
    ASSUME NEW s \in Scanning, NEW t \in Scanning, NEW o \in Seq(Assignment), Beyond(s, t, o)
    PROVE  Beyond(Flush(s), Flush(t), o)
<1>1. CASE ~ s.inPeer
    BY <1>1 DEF Flush, Beyond
<1>2. CASE s.inPeer /\ Half(s.cur)
    BY <1>2 DEF Flush, Beyond, Scanning, ScanState
<1>3. CASE s.inPeer /\ ~ Half(s.cur)
    <2> DEFINE outOf(r) == IF Stub(r.cur) THEN r.out ELSE Append(r.out, r.cur)
    <2>1. s.cur = t.cur /\ t.inPeer /\ s.out = o \o t.out /\ t.out \in Seq(Assignment)
        BY <1>3 DEF Beyond, Scanning, ScanState
    <2>2. /\ Flush(s) = [s EXCEPT !.inPeer = FALSE, !.out = outOf(s)]
          /\ Flush(t) = [t EXCEPT !.inPeer = FALSE, !.out = outOf(t)]
        BY <1>3, <2>1 DEF Flush
    <2>3. outOf(s) = o \o outOf(t)
        <3>1. CASE Stub(s.cur)
            BY <2>1, <3>1
        <3>2. CASE ~ Stub(s.cur)
            <4>1. t.cur \in Assignment
                BY <1>3, <2>1, <3>2, BlockIsPeer
            <4> DEFINE ts == t.out
                       x == t.cur
            <4>2. Append(o \o ts, x) = o \o Append(ts, x)
                <5>1. ts \in Seq(Assignment) /\ x \in Assignment
                    BY <2>1, <4>1
                <5> HIDE DEF ts, x
                <5> QED
                    BY <5>1
            <4> QED
                BY <2>1, <3>2, <4>2
        <3> QED
            BY <3>1, <3>2
    <2> HIDE DEF outOf
    <2> QED
        BY <2>2, <2>3 DEF Beyond, Scanning, ScanState
<1> QED
    BY <1>1, <1>2, <1>3

\* A field of the block that is open.
LEMMA BlockBeyond ==
    ASSUME NEW s \in ScanState, NEW t \in ScanState, NEW o, Beyond(s, t, o), NEW c
    PROVE  Beyond([s EXCEPT !.cur = c], [t EXCEPT !.cur = c], o)
    BY DEF Beyond, ScanState

LEMMA ScanBeyond ==
    ASSUME NEW s \in InFile, NEW t \in InFile, NEW o \in Seq(Assignment), Beyond(s, t, o),
           NEW l, Ready(l)
    PROVE  Beyond(Scan(s, l), Scan(t, l), o)
<1>0. s \in Scanning /\ t \in Scanning /\ s \in ScanState /\ t \in ScanState
    BY DEF InFile, Scanning
<1>1. CASE s.bad \/ l.t \in {"var", "text"}
    BY <1>1 DEF Scan, Beyond
<1>2. CASE ~ s.bad /\ l.t = "name"
    BY <1>0, <1>2 DEF Scan, Beyond, ScanState
<1>3. CASE ~ s.bad /\ l.t = "interface"
    <2>1. Scan(s, l) = Flush(s) /\ Scan(t, l) = Flush(t)
        BY <1>3 DEF Scan, Beyond
    <2> QED
        BY <1>0, <2>1, FlushBeyond
<1>4. CASE ~ s.bad /\ l.t = "peer"
    <2> DEFINE f == Flush(s)
               g == Flush(t)
    <2>1. Beyond(f, g, o) /\ f \in ScanState /\ g \in ScanState
        BY <1>0, FlushBeyond, FlushType DEF Scanning
    <2>2. /\ Scan(s, l) = [f EXCEPT !.inPeer = TRUE, !.name = None,
                                    !.cur = Opened(s.name, s.file)]
          /\ Scan(t, l) = [g EXCEPT !.inPeer = TRUE, !.name = None,
                                    !.cur = Opened(s.name, s.file)]
        BY <1>4 DEF Scan, Beyond
    <2> HIDE DEF f, g
    <2> QED
        BY <2>1, <2>2 DEF Beyond, ScanState
<1>5. CASE ~ s.bad /\ l.t = "key"
    <2>1. /\ Scan(s, l) = IF s.inPeer THEN [s EXCEPT !.cur.key = l.val] ELSE s
          /\ Scan(t, l) = IF s.inPeer THEN [t EXCEPT !.cur.key = l.val] ELSE t
        BY <1>5 DEF Scan, Beyond
    <2>2. CASE s.inPeer
        <3> DEFINE c == [s.cur EXCEPT !.key = l.val]
        <3>1. s.cur = t.cur
            BY <2>2 DEF Beyond
        <3>2. Scan(s, l) = [s EXCEPT !.cur = c] /\ Scan(t, l) = [t EXCEPT !.cur = c]
            BY <2>1, <2>2, <3>1
        <3> HIDE DEF c
        <3>3. Beyond([s EXCEPT !.cur = c], [t EXCEPT !.cur = c], o)
            BY <1>0, BlockBeyond
        <3> QED
            BY <3>2, <3>3
    <2> QED
        BY <2>1, <2>2
<1>6. CASE ~ s.bad /\ l.t = "ips"
    <2> DEFINE next(r) == IF s.inPeer
                          THEN IF l.val = NotACidr THEN [r EXCEPT !.bad = TRUE]
                               ELSE [r EXCEPT !.cur.addr = l.val.addr]
                          ELSE r
    <2>1. Scan(s, l) = next(s) /\ Scan(t, l) = next(t)
        BY <1>6 DEF Scan, Beyond
    <2>2. CASE s.inPeer /\ l.val # NotACidr
        <3>1. /\ Scan(s, l) = [s EXCEPT !.cur.addr = l.val.addr]
              /\ Scan(t, l) = [t EXCEPT !.cur.addr = l.val.addr]
            BY <2>1, <2>2
        <3> DEFINE c == [s.cur EXCEPT !.addr = l.val.addr]
        <3>2. s.cur = t.cur
            BY <2>2 DEF Beyond
        <3>3. Scan(s, l) = [s EXCEPT !.cur = c] /\ Scan(t, l) = [t EXCEPT !.cur = c]
            BY <3>1, <3>2
        <3> HIDE DEF c
        <3>4. Beyond([s EXCEPT !.cur = c], [t EXCEPT !.cur = c], o)
            BY <1>0, BlockBeyond
        <3> QED
            BY <3>3, <3>4
    <2>3. CASE ~ (s.inPeer /\ l.val # NotACidr)
        BY <1>0, <2>1, <2>3 DEF Beyond, ScanState
    <2> QED
        BY <2>2, <2>3
<1> QED
    BY <1>1, <1>2, <1>3, <1>4, <1>5, <1>6 DEF Ready

\* What the scan of one file finds.
Blank == [inPeer |-> FALSE, cur |-> Opened(None, None), name |-> None,
          file |-> None, out |-> <<>>, bad |-> FALSE]
Found(part) == ScanFile(Blank, part)

LEMMA BlankIsScanning == Blank \in Scanning
<1>1. <<>> \in Seq(Assignment)
    OBVIOUS
<1> QED
    BY <1>1 DEF Blank, Scanning, ScanState, Opened, Named

\* Between two files the scan stands in no block.
Closed(s) == ~ s.bad /\ ~ s.inPeer

\* What is found before a file does not change what is found in it.
LEMMA FileBeyond ==
    ASSUME NEW s \in Scanning, Closed(s), NEW part, Part(part)
    PROVE  Beyond(ScanFile(s, part), Found(part), s.out)
<1> DEFINE lines == part.lines
           n == Len(lines)
           base(r) == [r EXCEPT !.name = None, !.file = part.path]
           b == base(s)
           c == base(Blank)
           o == s.out
<1>1. n \in Nat /\ DOMAIN lines = 1..n /\ \A k \in 1..n : Ready(lines[k])
    BY Elements DEF Part
<1>2. b \in InFile /\ c \in InFile
    <2>1. part.path \in FileName /\ None \in Named
        BY DEF Part, Named
    <2> QED
        BY <2>1, BlankIsScanning DEF InFile, Scanning, ScanState
<1>3. o \in Seq(Assignment)
    BY DEF Scanning, ScanState
<1>4. Beyond(b, c, o)
    <2>1. o = o \o <<>>
        BY <1>3
    <2> QED
        BY <2>1 DEF Beyond, Closed, Blank, Scanning, ScanState
<1>5. ScanFile(s, part) = Flush(FoldLeft(Scan, b, lines))
      /\ Found(part) = Flush(FoldLeft(Scan, c, lines))
    BY DEF ScanFile, Found
<1> HIDE DEF lines, n, b, c, o
<1>6. PICK p \in [0..n -> InFile] : ScanPrefixes(n, lines, b, p)
    BY <1>1, <1>2, ScanRuns
<1>7. PICK q \in [0..n -> InFile] : ScanPrefixes(n, lines, c, q)
    BY <1>1, <1>2, ScanRuns
<1> DEFINE Good == {k \in Nat : k <= n => Beyond(p[k], q[k], o)}
<1>8. 0 \in Good
    BY <1>4, <1>6, <1>7 DEF ScanPrefixes
<1>9. ASSUME NEW k \in Nat, k \in Good PROVE k + 1 \in Good
    <2> SUFFICES ASSUME k + 1 <= n PROVE Beyond(p[k + 1], q[k + 1], o)
        OBVIOUS
    <2>1. k \in 0..n /\ k + 1 \in 1..n /\ (k + 1) - 1 = k /\ k <= n
        BY <1>1
    <2>2. Beyond(p[k], q[k], o)
        BY <1>9, <2>1, Zenon
    <2>3. p[k + 1] = Scan(p[k], lines[k + 1]) /\ q[k + 1] = Scan(q[k], lines[k + 1])
        BY <1>6, <1>7, <2>1 DEF ScanPrefixes
    <2>4. p[k] \in InFile /\ q[k] \in InFile /\ Ready(lines[k + 1])
        BY <1>1, <2>1
    <2> HIDE DEF Good
    <2> QED
        BY <1>3, <2>2, <2>3, <2>4, ScanBeyond
<1>10. n \in Good /\ n <= n
    <2> HIDE DEF Good
    <2> QED
        BY <1>1, <1>8, <1>9, Induction
<1>11. Beyond(p[n], q[n], o)
    BY <1>10, Zenon
<1>12. n \in 0..n
    BY <1>1
<1>13. p[n] \in Scanning /\ q[n] \in Scanning
    BY <1>12 DEF InFile
<1>14. Beyond(Flush(p[n]), Flush(q[n]), o)
    BY <1>3, <1>11, <1>13, FlushBeyond
<1> QED
    BY <1>5, <1>6, <1>7, <1>14 DEF ScanPrefixes, o

LEMMA FlushCloses ==
    ASSUME NEW s \in Scanning
    PROVE  (s.bad => Flush(s).bad) /\ (Flush(s).bad \/ ~ Flush(s).inPeer)
<1>1. CASE ~ s.inPeer
    BY <1>1 DEF Flush
<1>2. CASE s.inPeer /\ Half(s.cur)
    BY <1>2 DEF Flush, Scanning, ScanState
<1>3. CASE s.inPeer /\ ~ Half(s.cur)
    <2> DEFINE out == IF Stub(s.cur) THEN s.out ELSE Append(s.out, s.cur)
    <2>1. Flush(s) = [s EXCEPT !.inPeer = FALSE, !.out = out]
        BY <1>3 DEF Flush
    <2> HIDE DEF out
    <2> QED
        BY <2>1 DEF Scanning, ScanState
<1> QED
    BY <1>1, <1>2, <1>3

\* A file ends its block, and nothing mends an error.
LEMMA FileCloses ==
    ASSUME NEW s \in Scanning, NEW part, Part(part)
    PROVE  /\ s.bad => ScanFile(s, part).bad
           /\ ScanFile(s, part).bad \/ ~ ScanFile(s, part).inPeer
<1> DEFINE lines == part.lines
           n == Len(lines)
           b == [s EXCEPT !.name = None, !.file = part.path]
<1>1. n \in Nat /\ DOMAIN lines = 1..n /\ \A k \in 1..n : Ready(lines[k])
    BY Elements DEF Part
<1>2. b \in InFile /\ b.bad = s.bad
    <2>1. part.path \in FileName /\ None \in Named
        BY DEF Part, Named
    <2> QED
        BY <2>1 DEF InFile, Scanning, ScanState
<1>3. ScanFile(s, part) = Flush(FoldLeft(Scan, b, lines))
    BY DEF ScanFile
<1> HIDE DEF lines, n, b
<1>4. PICK p \in [0..n -> InFile] : ScanPrefixes(n, lines, b, p)
    BY <1>1, <1>2, ScanRuns
<1> DEFINE Good == {k \in Nat : k <= n => (s.bad => p[k].bad)}
<1>5. 0 \in Good
    BY <1>2, <1>4 DEF ScanPrefixes
<1>6. ASSUME NEW k \in Nat, k \in Good PROVE k + 1 \in Good
    <2> SUFFICES ASSUME k + 1 <= n, s.bad PROVE p[k + 1].bad
        OBVIOUS
    <2>1. k \in 0..n /\ k + 1 \in 1..n /\ (k + 1) - 1 = k /\ k <= n
        BY <1>1
    <2>2. p[k].bad
        BY <1>6, <2>1, Zenon
    <2>3. p[k + 1] = Scan(p[k], lines[k + 1])
        BY <1>4, <2>1 DEF ScanPrefixes
    <2> HIDE DEF Good
    <2> QED
        BY <2>2, <2>3 DEF Scan
<1>7. n \in Good /\ n <= n
    <2> HIDE DEF Good
    <2> QED
        BY <1>1, <1>5, <1>6, Induction
<1>8. s.bad => p[n].bad
    BY <1>7, Zenon
<1>9. n \in 0..n
    BY <1>1
<1>10. p[n] \in Scanning
    BY <1>9 DEF InFile
<1>11. ScanFile(s, part) = Flush(p[n])
    BY <1>3, <1>4 DEF ScanPrefixes
<1> QED
    BY <1>8, <1>10, <1>11, FlushCloses

\* A file scanned on its own.
LEMMA FoundIs ==
    ASSUME NEW part, Part(part)
    PROVE  Found(part) \in Scanning /\ Found(part).out \in Seq(Assignment)
           /\ Found(part).bad \in BOOLEAN
<1>1. Found(part) \in Scanning
    BY BlankIsScanning, ScanFileType DEF Found
<1> QED
    BY <1>1 DEF Scanning, ScanState

\* outs[k] is what the first k files hold together.
Gathers(n, ps, outs) ==
    /\ outs[0] = <<>>
    /\ \A k \in 1..n : outs[k] = outs[k - 1] \o Found(ps[k]).out

\* The scan of the partials is the scans of the single files, one after the
\* other; an error in one of them is an error of all.
LEMMA CollectedIs ==
    ASSUME NEW ps, Parts(ps), NEW n, n = Len(ps)
    PROVE  /\ n \in Nat
           /\ Collected(ps).bad <=> \E k \in 1..n : Found(ps[k]).bad
           /\ ~ Collected(ps).bad =>
                \E outs \in [0..n -> Seq(Assignment)] :
                    Gathers(n, ps, outs) /\ Collected(ps).out = outs[n]
<1>1. n \in Nat /\ DOMAIN ps = 1..n /\ \A k \in 1..n : Part(ps[k])
    BY Elements DEF Parts
<1>2. Collected(ps) = FoldLeft(ScanFile, Blank, ps)
    BY DEF Collected, Blank
<1>3. PICK p \in [0..n -> Scanning] : FilePrefixes(n, ps, Blank, p)
    BY <1>1, BlankIsScanning, FileRuns
<1>4. p[0] = Blank /\ p[n] = Collected(ps) /\ \A k \in 1..n : p[k] = ScanFile(p[k - 1], ps[k])
    BY <1>2, <1>3 DEF FilePrefixes
<1>5. ASSUME NEW k \in 1..n
      PROVE  /\ k - 1 \in 0..n /\ k \in 0..n
             /\ p[k - 1] \in Scanning /\ Part(ps[k])
             /\ p[k - 1].bad => p[k].bad
             /\ p[k].bad \/ ~ p[k].inPeer
    <2>1. k - 1 \in 0..n /\ k \in 0..n
        BY <1>1
    <2> QED
        BY <2>1, <1>1, <1>4, FileCloses
<1>6. p[0] = Blank /\ Closed(p[0])
    BY <1>4 DEF Closed, Blank
<1>7. ASSUME NEW k \in 0..n PROVE p[k].bad \/ Closed(p[k])
    <2>1. CASE k = 0
        BY <2>1, <1>6
    <2>2. CASE k # 0
        <3>1. k \in 1..n
            BY <1>1, <2>2
        <3> QED
            BY <3>1, <1>5 DEF Closed
    <2> QED
        BY <2>1, <2>2
<1>8. ASSUME NEW k \in 1..n, ~ p[k - 1].bad
      PROVE  /\ p[k].bad = Found(ps[k]).bad
             /\ p[k].out = p[k - 1].out \o Found(ps[k]).out
    <2>1. Closed(p[k - 1])
        BY <1>5, <1>7, <1>8
    <2>2. Beyond(ScanFile(p[k - 1], ps[k]), Found(ps[k]), p[k - 1].out)
        BY <1>5, <2>1, FileBeyond
    <2> QED
        BY <2>2, <1>4 DEF Beyond
<1> DEFINE Good == {k \in Nat : k <= n => (p[k].bad <=> \E i \in 1..k : Found(ps[i]).bad)}
<1>9. 0 \in Good
    BY <1>6 DEF Closed
<1>10. ASSUME NEW k \in Nat, k \in Good PROVE k + 1 \in Good
    <2> SUFFICES ASSUME k + 1 <= n
                 PROVE  p[k + 1].bad <=> \E i \in 1..(k + 1) : Found(ps[i]).bad
        OBVIOUS
    <2>1. k + 1 \in 1..n /\ (k + 1) - 1 = k /\ k <= n /\ 1..(k + 1) = 1..k \cup {k + 1}
        BY <1>1
    <2>2. p[k].bad <=> \E i \in 1..k : Found(ps[i]).bad
        BY <1>10, <2>1, Zenon
    <2>3. p[k].bad => p[k + 1].bad
        BY <2>1, <1>5
    <2>4. ~ p[k].bad => p[k + 1].bad = Found(ps[k + 1]).bad
        BY <2>1, <1>8
    <2>5. p[k + 1].bad \in BOOLEAN /\ Found(ps[k + 1]).bad \in BOOLEAN
        <3>1. k + 1 \in 0..n
            BY <2>1
        <3>2. p[k + 1] \in Scanning
            BY <3>1
        <3> QED
            BY <3>2, <1>1, <2>1, FoundIs DEF Scanning, ScanState
    <2> HIDE DEF Good
    <2> QED
        BY <2>1, <2>2, <2>3, <2>4, <2>5
<1>11. \A k \in Nat : k \in Good
    <2> HIDE DEF Good
    <2> QED
        BY <1>9, <1>10, Induction
<1>12. \A k \in 0..n : p[k].bad <=> \E i \in 1..k : Found(ps[i]).bad
    BY <1>11
<1> HIDE DEF Good
<1>13. n \in 0..n
    BY <1>1
<1>14. Collected(ps).bad <=> \E k \in 1..n : Found(ps[k]).bad
    BY <1>4, <1>12, <1>13
<1>15. ASSUME ~ Collected(ps).bad
       PROVE  \E outs \in [0..n -> Seq(Assignment)] :
                    Gathers(n, ps, outs) /\ Collected(ps).out = outs[n]
    <2> DEFINE outs == [k \in 0..n |-> p[k].out]
    <2>1. \A k \in 0..n : p[k].out \in Seq(Assignment)
        BY DEF Scanning, ScanState
    <2>2. outs \in [0..n -> Seq(Assignment)]
        BY <2>1
    <2>3. ASSUME NEW k \in 1..n PROVE ~ p[k - 1].bad
        <3>1. k - 1 \in 0..n /\ 1..(k - 1) \subseteq 1..n
            BY <1>1
        <3> QED
            BY <3>1, <1>12, <1>14, <1>15
    <2>4. \A k \in 1..n : p[k].out = p[k - 1].out \o Found(ps[k]).out
        BY <2>3, <1>8
    <2>5. \A k \in 1..n : k \in 0..n /\ k - 1 \in 0..n
        BY <1>5
    <2>6. Gathers(n, ps, outs)
        <3>1. outs[0] = <<>>
            BY <1>1, <1>6 DEF Blank
        <3>2. \A k \in 1..n : outs[k] = p[k].out /\ outs[k - 1] = p[k - 1].out
            BY <2>5
        <3> HIDE DEF outs
        <3> QED
            BY <2>4, <3>1, <3>2 DEF Gathers
    <2>7. outs[n] = Collected(ps).out
        BY <1>4, <1>13
    <2> HIDE DEF outs
    <2> QED
        BY <2>2, <2>6, <2>7
<1> QED
    BY <1>1, <1>14, <1>15

\* qs is ps with one more at i.
Inserts(ps, qs, n, i) ==
    /\ Len(ps) = n /\ Len(qs) = n + 1 /\ i \in 1..(n + 1)
    /\ \A j \in 1..n : j < i => qs[j] = ps[j]
    /\ \A j \in 1..n : j >= i => qs[j + 1] = ps[j]

\* t is s with x somewhere inside.
Parted(s, t, x) == \E a, b \in Seq(Assignment) : s = a \o b /\ t = (a \o x) \o b

\* Lists gathered file by file differ by what the one more file adds.
LEMMA InsertGathers ==
    ASSUME NEW ps, NEW qs, NEW n \in Nat, NEW i, Inserts(ps, qs, n, i),
           NEW f \in [0..n -> Seq(Assignment)], Gathers(n, ps, f),
           NEW g \in [0..(n + 1) -> Seq(Assignment)], Gathers(n + 1, qs, g),
           Parts(ps), NEW x \in Seq(Assignment), x = Found(qs[i]).out
    PROVE  Parted(f[n], g[n + 1], x)
<1>1. \A k \in 1..n : Found(ps[k]).out \in Seq(Assignment)
    BY Elements, FoundIs DEF Parts, Inserts
<1>2. i \in 1..(n + 1) /\ i - 1 \in 0..n /\ i - 1 \in Nat
    BY DEF Inserts
<1> DEFINE Same == {k \in Nat : k <= i - 1 => g[k] = f[k]}
<1>3. 0 \in Same
    BY DEF Gathers
<1>4. ASSUME NEW k \in Nat, k \in Same PROVE k + 1 \in Same
    <2> SUFFICES ASSUME k + 1 <= i - 1 PROVE g[k + 1] = f[k + 1]
        OBVIOUS
    <2>1. k <= i - 1 /\ k + 1 \in 1..n /\ k + 1 \in 1..(n + 1) /\ (k + 1) - 1 = k /\ k + 1 < i
        BY <1>2
    <2>2. g[k] = f[k]
        BY <1>4, <2>1, Zenon
    <2>3. qs[k + 1] = ps[k + 1]
        BY <2>1 DEF Inserts
    <2>4. g[k + 1] = g[k] \o Found(qs[k + 1]).out /\ f[k + 1] = f[k] \o Found(ps[k + 1]).out
        BY <2>1 DEF Gathers
    <2> QED
        BY <2>2, <2>3, <2>4
<1>5. g[i - 1] = f[i - 1]
    <2> HIDE DEF Same
    <2>1. i - 1 \in Same
        BY <1>2, <1>3, <1>4, Induction
    <2>2. i - 1 <= i - 1
        BY <1>2
    <2> QED
        BY <2>1, <2>2, Zenon DEF Same
<1> DEFINE a == f[i - 1]
           Splits(k) == \E b \in Seq(Assignment) :
                            f[i - 1 + k] = a \o b /\ g[i + k] = (a \o x) \o b
           Good == {k \in Nat : i + k <= n + 1 => Splits(k)}
<1>6. a \in Seq(Assignment)
    BY <1>2
<1>7. 0 \in Good
    <2>1. g[i] = g[i - 1] \o x
        BY <1>2 DEF Gathers
    <2>2. a = a \o <<>> /\ a \o x = (a \o x) \o <<>> /\ <<>> \in Seq(Assignment)
        <3> HIDE DEF a
        <3> QED
            BY <1>6
    <2>3. i - 1 + 0 = i - 1 /\ i + 0 = i
        BY <1>2
    <2>4. f[i - 1 + 0] = a \o <<>> /\ g[i + 0] = (a \o x) \o <<>>
        BY <1>5, <2>1, <2>2, <2>3
    <2> QED
        BY <2>2, <2>4
<1> HIDE DEF Splits
<1>8. ASSUME NEW k \in Nat, k \in Good PROVE k + 1 \in Good
    <2> SUFFICES ASSUME i + (k + 1) <= n + 1 PROVE Splits(k + 1)
        OBVIOUS
    <2> DEFINE m == i + k
    <2>1. /\ m \in 1..n /\ m >= i /\ m + 1 \in 1..(n + 1) /\ (m + 1) - 1 = m
          /\ i - 1 + k = m - 1 /\ i - 1 + (k + 1) = m /\ i + (k + 1) = m + 1
          /\ i + k <= n + 1
        BY <1>2
    <2>2. PICK b \in Seq(Assignment) : f[i - 1 + k] = a \o b /\ g[i + k] = (a \o x) \o b
        <3>1. Splits(k)
            BY <1>8, <2>1, Zenon
        <3> QED
            BY <3>1 DEF Splits
    <2> DEFINE y == Found(ps[m]).out
    <2> HIDE DEF m, Good
    <2>3. qs[m + 1] = ps[m]
        BY <2>1 DEF Inserts
    <2>4. g[m + 1] = g[m] \o y /\ f[m] = f[m - 1] \o y
        BY <2>1, <2>3 DEF Gathers
    <2>5. y \in Seq(Assignment)
        BY <2>1, <1>1
    <2>6. f[m - 1] = a \o b /\ g[m] = (a \o x) \o b
        BY <2>1, <2>2 DEF m
    <2> HIDE DEF a, y
    <2>7. b \o y \in Seq(Assignment)
        BY <2>5
    <2>8. (a \o b) \o y = a \o (b \o y)
        BY <1>6, <2>2, <2>5, Regroup, Zenon
    <2>9. ((a \o x) \o b) \o y = (a \o x) \o (b \o y)
        <3> DEFINE c == a \o x
        <3>1. c \in Seq(Assignment)
            BY <1>6
        <3> HIDE DEF c
        <3>2. (c \o b) \o y = c \o (b \o y)
            BY <2>2, <2>5, <3>1, Regroup, Zenon
        <3> QED
            BY <3>2 DEF c
    <2>10. f[m] = a \o (b \o y) /\ g[m + 1] = (a \o x) \o (b \o y)
        BY <2>4, <2>6, <2>8, <2>9
    <2>11. f[i - 1 + (k + 1)] = a \o (b \o y) /\ g[i + (k + 1)] = (a \o x) \o (b \o y)
        BY <2>1, <2>10
    <2> QED
        BY <2>7, <2>11 DEF Splits
<1>9. (n + 1) - i \in Nat /\ i + ((n + 1) - i) = n + 1 /\ i - 1 + ((n + 1) - i) = n
    BY <1>2
<1>10. Splits((n + 1) - i)
    <2>1. (n + 1) - i \in Good
        <3> HIDE DEF Good
        <3> QED
            BY <1>7, <1>8, <1>9, Induction
    <2> QED
        BY <2>1, <1>9
<1> HIDE DEF a
<1> QED
    BY <1>6, <1>9, <1>10 DEF Splits, Parted

\* One more file adds the peers that it holds, and its errors.
LEMMA InsertCollects ==
    ASSUME NEW ps, Parts(ps), NEW qs, Parts(qs), NEW n, NEW i, Inserts(ps, qs, n, i)
    PROVE  /\ Collected(qs).bad <=> Collected(ps).bad \/ Found(qs[i]).bad
           /\ ~ Collected(qs).bad =>
                Parted(Collected(ps).out, Collected(qs).out, Found(qs[i]).out)
<1>1. n = Len(ps) /\ n + 1 = Len(qs) /\ i \in 1..(n + 1)
    BY DEF Inserts
<1>2. n \in Nat /\ n + 1 \in Nat
    BY <1>1, CollectedIs
<1>3. /\ Collected(ps).bad <=> \E k \in 1..n : Found(ps[k]).bad
      /\ Collected(qs).bad <=> \E k \in 1..(n + 1) : Found(qs[k]).bad
    <2> DEFINE m == n + 1
    <2>1. m = Len(qs)
        BY <1>1
    <2> HIDE DEF m
    <2>2. Collected(qs).bad <=> \E k \in 1..m : Found(qs[k]).bad
        BY <2>1, CollectedIs
    <2> QED
        BY <1>1, <2>2, CollectedIs DEF m
<1>4. \A j \in 1..n : (j < i => qs[j] = ps[j]) /\ (j >= i => qs[j + 1] = ps[j])
    BY DEF Inserts
<1>5. \A k \in 1..(n + 1) : k = i \/ \E j \in 1..n : qs[k] = ps[j]
    <2> SUFFICES ASSUME NEW k \in 1..(n + 1), k # i PROVE \E j \in 1..n : qs[k] = ps[j]
        OBVIOUS
    <2>1. CASE k < i
        <3>1. k \in 1..n
            BY <1>1, <1>2, <2>1
        <3> QED
            BY <1>4, <2>1, <3>1
    <2>2. CASE k > i
        <3>1. k - 1 \in 1..n /\ k - 1 >= i /\ (k - 1) + 1 = k
            BY <1>1, <1>2, <2>2
        <3> QED
            BY <1>4, <3>1
    <2> QED
        BY <2>1, <2>2, <1>1, <1>2
<1>6. \A j \in 1..n : \E k \in 1..(n + 1) : qs[k] = ps[j]
    <2> SUFFICES ASSUME NEW j \in 1..n PROVE \E k \in 1..(n + 1) : qs[k] = ps[j]
        OBVIOUS
    <2>1. j \in 1..(n + 1) /\ j + 1 \in 1..(n + 1) /\ (j < i \/ j >= i)
        BY <1>1, <1>2
    <2> QED
        BY <1>4, <2>1
<1>7. Collected(qs).bad <=> Collected(ps).bad \/ Found(qs[i]).bad
    BY <1>1, <1>3, <1>5, <1>6
<1>8. ASSUME ~ Collected(qs).bad
      PROVE  Parted(Collected(ps).out, Collected(qs).out, Found(qs[i]).out)
    <2>1. ~ Collected(ps).bad
        BY <1>7, <1>8
    <2>2. PICK f \in [0..n -> Seq(Assignment)] : Gathers(n, ps, f) /\ Collected(ps).out = f[n]
        BY <1>1, <2>1, CollectedIs
    <2>3. PICK g \in [0..(n + 1) -> Seq(Assignment)] :
                Gathers(n + 1, qs, g) /\ Collected(qs).out = g[n + 1]
        BY <1>1, <1>8, CollectedIs
    <2>4. Found(qs[i]).out \in Seq(Assignment)
        BY <1>1, <1>2, Elements, FoundIs DEF Parts
    <2> DEFINE x == Found(qs[i]).out
    <2>6. x \in Seq(Assignment) /\ x = Found(qs[i]).out
        BY <2>4
    <2> HIDE DEF x
    <2>7. Parted(f[n], g[n + 1], x)
        BY <1>2, <2>2, <2>3, <2>6, InsertGathers
    <2> QED
        BY <2>2, <2>3, <2>6, <2>7
<1> QED
    BY <1>7, <1>8

\* What the scan holds while it is in a file that was not scanned after another.
Filed(s, path) ==
    /\ s.file = path
    /\ s.inPeer => s.cur.file = path
    /\ \A k \in 1..Len(s.out) : s.out[k].file = path

LEMMA FlushFiled ==
    ASSUME NEW s \in Scanning, NEW path, Filed(s, path)
    PROVE  Filed(Flush(s), path)
<1>1. CASE ~ s.inPeer
    BY <1>1 DEF Flush
<1>2. CASE s.inPeer /\ Half(s.cur)
    BY <1>2 DEF Flush, Filed, Scanning, ScanState
<1>3. CASE s.inPeer /\ ~ Half(s.cur)
    <2> DEFINE out == IF Stub(s.cur) THEN s.out ELSE Append(s.out, s.cur)
    <2>1. Flush(s) = [s EXCEPT !.inPeer = FALSE, !.out = out]
        BY <1>3 DEF Flush
    <2>2. \A k \in 1..Len(out) : out[k].file = path
        <3> DEFINE old == s.out
                   x == s.cur
        <3>1. old \in Seq(Assignment) /\ \A k \in 1..Len(old) : old[k].file = path
            BY DEF Filed, Scanning, ScanState
        <3>2. CASE Stub(s.cur)
            BY <3>1, <3>2
        <3>3. CASE ~ Stub(s.cur)
            <4>1. out = Append(old, x) /\ x.file = path /\ x \in Assignment
                BY <1>3, <3>3, BlockIsPeer DEF Filed
            <4> HIDE DEF old, x, out
            <4>2. \A k \in 1..Len(out) : (k \in 1..Len(old) /\ out[k] = old[k]) \/ out[k] = x
                BY <3>1, <4>1
            <4> QED
                BY <3>1, <4>1, <4>2
        <3> QED
            BY <3>2, <3>3
    <2> HIDE DEF out
    <2> QED
        BY <2>1, <2>2 DEF Filed, Scanning, ScanState
<1> QED
    BY <1>1, <1>2, <1>3

LEMMA ScanFiled ==
    ASSUME NEW s \in InFile, NEW path, Filed(s, path), NEW l, Ready(l)
    PROVE  Filed(Scan(s, l), path)
<1>0. s \in Scanning /\ s \in ScanState
    BY DEF InFile, Scanning
<1>1. CASE s.bad \/ l.t \in {"var", "text"}
    BY <1>1 DEF Scan
<1>2. CASE ~ s.bad /\ l.t = "name"
    BY <1>0, <1>2 DEF Scan, Filed, ScanState
<1>3. CASE ~ s.bad /\ l.t = "interface"
    <2>1. Scan(s, l) = Flush(s)
        BY <1>3 DEF Scan
    <2> QED
        BY <1>0, <2>1, FlushFiled
<1>4. CASE ~ s.bad /\ l.t = "peer"
    <2> DEFINE f == Flush(s)
    <2>1. Filed(f, path) /\ f \in ScanState
        BY <1>0, FlushFiled, FlushType DEF Scanning
    <2>2. Scan(s, l) = [f EXCEPT !.inPeer = TRUE, !.name = None,
                                 !.cur = Opened(s.name, s.file)]
        BY <1>4 DEF Scan
    <2>3. Opened(s.name, s.file).file = path
        BY DEF Filed, Opened
    <2> HIDE DEF f
    <2> QED
        BY <2>1, <2>2, <2>3 DEF Filed, ScanState
<1>5. CASE ~ s.bad /\ l.t = "key"
    <2>1. Scan(s, l) = IF s.inPeer THEN [s EXCEPT !.cur.key = l.val] ELSE s
        BY <1>5 DEF Scan
    <2> QED
        BY <1>0, <2>1 DEF Filed, ScanState
<1>6. CASE ~ s.bad /\ l.t = "ips"
    <2>1. Scan(s, l) = IF s.inPeer
                       THEN IF l.val = NotACidr THEN [s EXCEPT !.bad = TRUE]
                            ELSE [s EXCEPT !.cur.addr = l.val.addr]
                       ELSE s
        BY <1>6 DEF Scan
    <2>2. CASE s.inPeer /\ l.val # NotACidr
        <3>1. Scan(s, l) = [s EXCEPT !.cur.addr = l.val.addr]
            BY <2>1, <2>2
        <3> QED
            BY <1>0, <3>1 DEF Filed, ScanState
    <2>3. CASE ~ (s.inPeer /\ l.val # NotACidr)
        BY <1>0, <2>1, <2>3 DEF Filed, ScanState
    <2> QED
        BY <2>2, <2>3
<1> QED
    BY <1>1, <1>2, <1>3, <1>4, <1>5, <1>6 DEF Ready

\* The peers of a file have its path.
LEMMA FoundFiled ==
    ASSUME NEW part, Part(part)
    PROVE  \A k \in 1..Len(Found(part).out) : Found(part).out[k].file = part.path
<1> DEFINE lines == part.lines
           n == Len(lines)
           b == [Blank EXCEPT !.name = None, !.file = part.path]
           path == part.path
<1>1. n \in Nat /\ DOMAIN lines = 1..n /\ \A k \in 1..n : Ready(lines[k])
    BY Elements DEF Part
<1>2. b \in InFile
    <2>1. part.path \in FileName /\ None \in Named
        BY DEF Part, Named
    <2> QED
        BY <2>1, BlankIsScanning DEF InFile, Scanning, ScanState
<1>3. Filed(b, path)
    BY DEF Filed, Blank
<1>4. Found(part) = Flush(FoldLeft(Scan, b, lines))
    BY DEF ScanFile, Found
<1> HIDE DEF lines, n, b, path
<1>5. PICK p \in [0..n -> InFile] : ScanPrefixes(n, lines, b, p)
    BY <1>1, <1>2, ScanRuns
<1> DEFINE Good == {k \in Nat : k <= n => Filed(p[k], path)}
<1>6. 0 \in Good
    BY <1>3, <1>5 DEF ScanPrefixes
<1>7. ASSUME NEW k \in Nat, k \in Good PROVE k + 1 \in Good
    <2> SUFFICES ASSUME k + 1 <= n PROVE Filed(p[k + 1], path)
        OBVIOUS
    <2>1. k \in 0..n /\ k + 1 \in 1..n /\ (k + 1) - 1 = k /\ k <= n
        BY <1>1
    <2>2. Filed(p[k], path)
        BY <1>7, <2>1, Zenon
    <2>3. p[k + 1] = Scan(p[k], lines[k + 1])
        BY <1>5, <2>1 DEF ScanPrefixes
    <2>4. p[k] \in InFile /\ Ready(lines[k + 1])
        BY <1>1, <2>1
    <2> HIDE DEF Good
    <2> QED
        BY <2>2, <2>3, <2>4, ScanFiled
<1>8. n \in Good /\ n <= n
    <2> HIDE DEF Good
    <2> QED
        BY <1>1, <1>6, <1>7, Induction
<1>9. Filed(p[n], path)
    BY <1>8, Zenon
<1>10. n \in 0..n
    BY <1>1
<1>11. p[n] \in Scanning
    BY <1>10 DEF InFile
<1>12. Filed(Flush(p[n]), path)
    BY <1>9, <1>11, FlushFiled
<1> QED
    BY <1>4, <1>5, <1>12 DEF ScanPrefixes, Filed, path

\* Every peer comes from one of the files.
LEMMA CollectedFrom ==
    ASSUME NEW ps, Parts(ps), ~ Collected(ps).bad, NEW x \in ToSet(Collected(ps).out)
    PROVE  \E j \in 1..Len(ps) : x.file = ps[j].path
<1> DEFINE n == Len(ps)
           From(a) == \E j \in 1..n : a.file = ps[j].path
<1>1. n \in Nat /\ \A k \in 1..n : Part(ps[k])
    BY Elements DEF Parts
<1>2. PICK outs \in [0..n -> Seq(Assignment)] :
            Gathers(n, ps, outs) /\ Collected(ps).out = outs[n]
    BY CollectedIs
<1> HIDE DEF n, From
<1> DEFINE Good == {k \in Nat : k <= n => \A i \in 1..Len(outs[k]) : From(outs[k][i])}
<1>3. 0 \in Good
    BY <1>2 DEF Gathers
<1>4. ASSUME NEW k \in Nat, k \in Good PROVE k + 1 \in Good
    <2> SUFFICES ASSUME k + 1 <= n PROVE \A i \in 1..Len(outs[k + 1]) : From(outs[k + 1][i])
        OBVIOUS
    <2>1. k \in 0..n /\ k + 1 \in 1..n /\ (k + 1) - 1 = k /\ k <= n
        BY <1>1
    <2>2. \A i \in 1..Len(outs[k]) : From(outs[k][i])
        BY <1>4, <2>1, Zenon
    <2> DEFINE s == outs[k]
               t == Found(ps[k + 1]).out
               u == outs[k + 1]
    <2>3. u = s \o t
        BY <1>2, <2>1 DEF Gathers
    <2>4. s \in Seq(Assignment) /\ t \in Seq(Assignment)
        BY <1>1, <2>1, FoundIs
    <2>5. \A i \in 1..Len(t) : t[i].file = ps[k + 1].path
        BY <1>1, <2>1, FoundFiled
    <2>6. \A i \in 1..Len(t) : From(t[i])
        BY <2>1, <2>5 DEF From, n
    <2> HIDE DEF s, t, u, Good
    <2>7. \A i \in 1..Len(u) :
            \/ i \in 1..Len(s) /\ u[i] = s[i]
            \/ i - Len(s) \in 1..Len(t) /\ u[i] = t[i - Len(s)]
        BY <2>3, <2>4
    <2> QED
        BY <2>2, <2>6, <2>7 DEF s, u
<1>5. n \in Good /\ n <= n
    <2> HIDE DEF Good
    <2>1. \A k \in Nat : k \in Good
        BY <1>3, <1>4, Induction
    <2> QED
        BY <1>1, <2>1
<1>6. \A i \in 1..Len(outs[n]) : From(outs[n][i])
    BY <1>5, Zenon
<1>7. PICK i \in DOMAIN Collected(ps).out : x = Collected(ps).out[i]
    BY DEF ToSet
<1>8. outs[n] \in Seq(Assignment)
    BY <1>1
<1>9. i \in 1..Len(outs[n])
    BY <1>2, <1>7, <1>8
<1> QED
    BY <1>2, <1>6, <1>7, <1>9 DEF From, n
-----------------------------------------------------------------------------
(***************************************************************************)
(* A folder with one more file: its listing, and its partials.              *)
(***************************************************************************)
\* The files of a folder with a new name.
LEMMA ListingWith ==
    ASSUME NEW d, IsFiniteSet(DOMAIN d), DOMAIN d \subseteq FileName,
           NEW e, NEW f \in FileName, f \notin DOMAIN d, DOMAIN e = DOMAIN d \cup {f},
           NEW n, n = Cardinality(DOMAIN d)
    PROVE  /\ Inserts(Listing(d), Listing(e), n, Place(e, f))
           /\ Listing(e)[Place(e, f)] = f
           /\ \A g \in DOMAIN d : Precedes(g, f) => Place(e, f) # 1
<1>1. IsFiniteSet(DOMAIN e) /\ DOMAIN e \subseteq FileName /\ Cardinality(DOMAIN e) = n + 1
    BY FS_AddElement
<1>2. n \in Nat /\ Len(Listing(d)) = n /\ Len(Listing(e)) = n + 1
    BY <1>1, ListingIs
<1> DEFINE i == Place(e, f)
<1>3. i \in 1..(n + 1) /\ Listing(e)[i] = f
    BY <1>1, PlaceType, ListingIs
<1>4. IsFiniteSet(UpTo(e, f)) /\ Cardinality(UpTo(e, f)) = i
    BY <1>1, PlaceType DEF Place
<1>5. ASSUME NEW j \in 1..n
      PROVE  /\ j < i => Listing(e)[j] = Listing(d)[j]
             /\ j >= i => Listing(e)[j + 1] = Listing(d)[j]
    <2> DEFINE g == Listing(d)[j]
    <2>1. g \in DOMAIN d /\ Place(d, g) = j
        BY <1>2, ListingIs
    <2>2. g \in DOMAIN e /\ Listing(e)[Place(e, g)] = g
        BY <1>1, <2>1, ListingIs
    <2>3. IsFiniteSet(UpTo(d, g)) /\ Cardinality(UpTo(d, g)) = j
        BY <2>1, PlaceType DEF Place
    <2>4. IsFiniteSet(UpTo(e, g)) /\ Cardinality(UpTo(e, g)) = Place(e, g)
        BY <1>1, <2>2, PlaceType DEF Place
    <2>5. f \notin UpTo(d, g)
        BY DEF UpTo
    <2>6. f \in FileName /\ g \in FileName /\ g # f
        BY <2>1
    <2> HIDE DEF g, i
    <2>7. CASE Precedes(f, g)
        <3>1. UpTo(e, g) = UpTo(d, g) \cup {f}
            BY <2>7 DEF UpTo
        <3>2. Place(e, g) = j + 1
            BY <3>1, <2>3, <2>4, <2>5, FS_AddElement
        <3>3. UpTo(e, f) \subseteq UpTo(d, g) \cup {f}
            BY <2>6, <2>7, <1>1, <2>2, PrecedesOrders DEF UpTo
        <3>4. g \notin UpTo(e, f)
            BY <2>6, <2>7, PrecedesOrders DEF UpTo
        <3>5. UpTo(e, f) \subseteq UpTo(e, g) \ {g}
            BY <3>1, <3>3, <3>4
        <3>6. g \in UpTo(e, g)
            BY <2>2, <2>6, PrecedesOrders DEF UpTo
        <3>7. /\ IsFiniteSet(UpTo(e, g) \ {g})
              /\ Cardinality(UpTo(e, g) \ {g}) = Cardinality(UpTo(e, g)) - 1
            BY <2>4, <3>6, FS_RemoveElement
        <3>8. i <= j
            BY <1>4, <2>4, <3>2, <3>5, <3>7, FS_Subset, FS_CardinalityType
        <3> QED
            BY <1>2, <1>3, <2>2, <3>2, <3>8 DEF g
    <2>8. CASE ~ Precedes(f, g)
        <3>1. UpTo(e, g) = UpTo(d, g)
            BY <2>8 DEF UpTo
        <3>2. Place(e, g) = j
            BY <3>1, <2>3, <2>4
        <3>3. Precedes(g, f)
            BY <2>6, <2>8, PrecedesOrders
        <3>4. UpTo(e, g) \subseteq UpTo(e, f) \ {f}
            BY <1>1, <2>6, <2>5, <3>1, <3>3, <2>2, PrecedesOrders DEF UpTo
        <3>5. f \in UpTo(e, f)
            BY PrecedesOrders DEF UpTo
        <3>6. /\ IsFiniteSet(UpTo(e, f) \ {f})
              /\ Cardinality(UpTo(e, f) \ {f}) = i - 1
            BY <1>4, <3>5, FS_RemoveElement
        <3>7. j <= i - 1
            BY <2>3, <3>1, <3>4, <3>6, FS_Subset, FS_CardinalityType
        <3> QED
            BY <1>2, <1>3, <2>2, <3>2, <3>7 DEF g
    <2> QED
        BY <2>7, <2>8
<1>6. ASSUME NEW g \in DOMAIN d, Precedes(g, f) PROVE i # 1
    <2>1. g \in UpTo(e, f) /\ f \in UpTo(e, f) /\ g # f
        BY <1>6, PrecedesOrders DEF UpTo
    <2>2. {g} \cup {f} \subseteq UpTo(e, f)
        BY <2>1
    <2>3. Cardinality({g} \cup {f}) = 2
        <3>1. IsFiniteSet({g}) /\ Cardinality({g}) = 1
            BY FS_Singleton
        <3>2. f \notin {g}
            BY <2>1
        <3>3. Cardinality({g} \cup {f}) = Cardinality({g}) + 1
            BY <3>1, <3>2, FS_AddElement, Zenon
        <3> QED
            BY <3>1, <3>3
    <2>4. 2 <= i
        BY <1>4, <2>2, <2>3, FS_Subset
    <2> QED
        BY <2>4, <1>2, <1>3
<1> QED
    BY <1>2, <1>3, <1>5, <1>6 DEF Inserts

\* e is d and the file f.
Grown(d, e, f) ==
    /\ f \in FileName /\ f \notin DOMAIN d
    /\ DOMAIN e = DOMAIN d \cup {f}
    /\ \A g \in DOMAIN d : e[g] = d[g]

Filled(lines, tab) == [j \in DOMAIN lines |-> Substituted(lines[j], tab)]
PartOf(d, f, tab) == [path |-> f, lines |-> Filled(d[f], tab)]

\* load_partials goes by the listing.
LEMMA LoadedIs ==
    ASSUME NEW d, Dir(d), NEW tab
    PROVE  /\ Len(Loaded(d, tab)) = Len(Listing(d)) /\ Len(Listing(d)) \in Nat
           /\ \A i \in 1..Len(Listing(d)) :
                Listing(d)[i] \in DOMAIN d /\ Loaded(d, tab)[i] = PartOf(d, Listing(d)[i], tab)
<1>1. Listing(d) \in Seq(DOMAIN d)
    BY ListingIs DEF Dir
<1>2. Loaded(d, tab) = [i \in 1..Len(Listing(d)) |-> PartOf(d, Listing(d)[i], tab)]
    <2>1. Loaded(d, tab) = [i \in DOMAIN Listing(d) |-> PartOf(d, Listing(d)[i], tab)]
        BY DEF Loaded, PartOf, Filled
    <2> QED
        BY <2>1, <1>1
<1>3. Len(Listing(d)) \in Nat /\ \A i \in 1..Len(Listing(d)) : Listing(d)[i] \in DOMAIN d
    BY <1>1
<1> QED
    BY <1>2, <1>3

\* One more file is one more partial, at its place.
LEMMA LoadedWith ==
    ASSUME NEW d, Dir(d), NEW e, Dir(e), NEW f, Grown(d, e, f), NEW tab
    PROVE  /\ Inserts(Loaded(d, tab), Loaded(e, tab), Len(Listing(d)), Place(e, f))
           /\ Loaded(e, tab)[Place(e, f)] = PartOf(e, f, tab)
<1> DEFINE n == Len(Listing(d))
           i == Place(e, f)
<1>1. n = Cardinality(DOMAIN d)
    BY ListingIs DEF Dir
<1>2. Inserts(Listing(d), Listing(e), n, i) /\ Listing(e)[i] = f
    BY <1>1, ListingWith DEF Dir, Grown
<1>3. /\ Len(Listing(e)) = n + 1 /\ n \in Nat /\ i \in 1..(n + 1)
      /\ Len(Loaded(d, tab)) = n /\ Len(Loaded(e, tab)) = n + 1
    BY <1>2, LoadedIs DEF Inserts
<1>4. ASSUME NEW j \in 1..n
      PROVE  /\ j < i => Loaded(e, tab)[j] = Loaded(d, tab)[j]
             /\ j >= i => Loaded(e, tab)[j + 1] = Loaded(d, tab)[j]
    <2>1. j \in 1..(n + 1) /\ j + 1 \in 1..(n + 1)
        BY <1>3
    <2>2. /\ Listing(d)[j] \in DOMAIN d
          /\ Loaded(d, tab)[j] = PartOf(d, Listing(d)[j], tab)
          /\ Loaded(e, tab)[j] = PartOf(e, Listing(e)[j], tab)
          /\ Loaded(e, tab)[j + 1] = PartOf(e, Listing(e)[j + 1], tab)
        BY <2>1, <1>3, LoadedIs
    <2>3. PartOf(e, Listing(d)[j], tab) = PartOf(d, Listing(d)[j], tab)
        BY <2>2 DEF PartOf, Grown
    <2>4. /\ j < i => Listing(e)[j] = Listing(d)[j]
          /\ j >= i => Listing(e)[j + 1] = Listing(d)[j]
        BY <1>2 DEF Inserts
    <2> QED
        BY <2>2, <2>3, <2>4
<1>5. Loaded(e, tab)[i] = PartOf(e, f, tab)
    BY <1>2, <1>3, LoadedIs
<1> QED
    BY <1>3, <1>4, <1>5 DEF Inserts

\* The folder can be read: its first file has all of its variables, and there
\* is a value for every placeholder.
TabOf(dir, env) == Table(dir[Listing(dir)[1]], env)
Reads(dir, env) ==
    /\ ~ Misplaced(dir, env)
    /\ \A f \in DOMAIN dir : \A l \in ToSet(dir[f]) : ~ Undefined(l, TabOf(dir, env))
PartsOf(dir, env) == Loaded(dir, TabOf(dir, env))

\* A table from lines without variables has no subnet.
LEMMA TabOfIs ==
    ASSUME NEW d, Dir(d), NEW env, Listing(d) # <<>>
    PROVE  /\ TabOf(d, env) \in Tab
           /\ Directives(d[Listing(d)[1]]) = {} => TabOf(d, env)["subnet"] = None
<1> DEFINE lines == d[Listing(d)[1]]
           n == Len(lines)
<1>1. Lines(lines)
    BY FirstFile
<1>2. DOMAIN lines = 1..n /\ n \in Nat /\ \A i \in 1..n : lines[i] \in ToSet(lines)
    BY <1>1, Elements DEF Lines
<1> HIDE DEF lines
<1>3. TabOf(d, env) = Table(lines, env)
    BY DEF TabOf, lines
<1>4. ASSUME Directives(lines) = {} PROVE Table(lines, env)["subnet"] = None
    <2>1. \A e : Setters(lines, n, e, "subnet") = {}
        BY <1>2, <1>4 DEF Setters, Sets, Directives
    <2>2. "subnet" \in Variable
        BY DEF Variable, Required
    <2>3. Table(lines, env)["subnet"] = Latest([u \in Variable |-> None], lines, n, None, "subnet")
        BY <1>1, <2>1, <2>2, TableIs
    <2> QED
        BY <2>1, <2>2, <2>3 DEF Latest
<1> QED
    BY <1>1, <1>3, <1>4, TableIs DEF lines

LEMMA PartsOfIs ==
    ASSUME NEW d, Dir(d), NEW env, Reads(d, env)
    PROVE  TabOf(d, env) \in Tab /\ Parts(PartsOf(d, env)) /\ Listing(d) # <<>>
<1>1. Listing(d) # <<>>
    BY DEF Reads, Misplaced
<1>2. TabOf(d, env) \in Tab
    BY <1>1, TabOfIs
<1> QED
    BY <1>1, <1>2, LoadedIsParts DEF Reads, PartsOf

\* The file does not stand before all others if the others have the variables.
LEMMA GrownFirst ==
    ASSUME NEW d, Dir(d), NEW e, Dir(e), NEW f, Grown(d, e, f), Listing(d) # <<>>
    PROVE  /\ Place(e, f) # 1 =>
                Listing(e)[1] = Listing(d)[1] /\ e[Listing(e)[1]] = d[Listing(d)[1]]
           /\ Place(e, f) = 1 => Len(Listing(e)) >= 2 /\ e[Listing(e)[2]] = d[Listing(d)[1]]
<1> DEFINE n == Len(Listing(d))
           i == Place(e, f)
<1>1. n = Cardinality(DOMAIN d)
    BY ListingIs DEF Dir
<1>2. Inserts(Listing(d), Listing(e), n, i)
    BY <1>1, ListingWith DEF Dir, Grown
<1>3. n \in Nat /\ n # 0 /\ Listing(d)[1] \in DOMAIN d
    <2>1. Listing(d) \in Seq(DOMAIN d)
        BY ListingIs DEF Dir
    <2> QED
        BY <2>1
<1>4. e[Listing(d)[1]] = d[Listing(d)[1]]
    BY <1>3 DEF Grown
<1> HIDE DEF n, i
<1>5. i # 1 => Listing(e)[1] = Listing(d)[1]
    BY <1>2, <1>3 DEF Inserts
<1>6. i = 1 => Listing(e)[2] = Listing(d)[1] /\ Len(Listing(e)) >= 2
    <2>1. 1 \in 1..n /\ 1 + 1 = 2 /\ n + 1 >= 2
        BY <1>3
    <2> QED
        BY <1>2, <2>1 DEF Inserts
<1> QED
    BY <1>4, <1>5, <1>6 DEF i

\* A new file in front would leave the variables to the second, an error.
LEMMA GrownTable ==
    ASSUME NEW d, Dir(d), NEW e, Dir(e), NEW f, Grown(d, e, f), NEW env,
           Listing(d) # <<>>, ~ Misplaced(e, env), TabOf(d, env)["subnet"] \in Cidr
    PROVE  TabOf(e, env) = TabOf(d, env) /\ Place(e, f) # 1
<1>1. Place(e, f) # 1
    <2> SUFFICES ASSUME Place(e, f) = 1 PROVE FALSE
        OBVIOUS
    <2>1. Len(Listing(e)) >= 2 /\ e[Listing(e)[2]] = d[Listing(d)[1]] /\ Len(Listing(e)) \in Nat
        BY GrownFirst, LoadedIs
    <2>2. Directives(e[Listing(e)[2]]) = {}
        <3>1. 2 \in 2..Len(Listing(e))
            BY <2>1
        <3>2. \A j \in 2..Len(Listing(e)) : Directives(e[Listing(e)[j]]) = {}
            BY DEF Misplaced
        <3> QED
            BY <3>1, <3>2
    <2>3. TabOf(d, env)["subnet"] = None
        BY <2>1, <2>2, TabOfIs
    <2> QED
        BY <2>3, CasesAssumption DEF Value
<1> QED
    BY <1>1, GrownFirst DEF TabOf
-----------------------------------------------------------------------------
(***************************************************************************)
(* The file that an add writes ends with the new peer, and holds no other   *)
(* if the label is one line.                                                *)
(***************************************************************************)
NewLines(label, key, addr) == label \o NewBlock(key, addr)

Peer(key, addr, name, file) == [key |-> key, addr |-> addr, name |-> name, file |-> file]

\* After the n lines of a label the block stands in lines.
EndsInBlock(lines, n, key, addr) ==
    /\ DOMAIN lines = 1..(n + 3)
    /\ lines[n + 1] = Line("peer", None) /\ lines[n + 2] = Line("key", key)
    /\ lines[n + 3] = Line("ips", [addr |-> addr, size |-> 1])

\* The new lines are their own, but for placeholders in the label.
LEMMA FilledNewLines ==
    ASSUME NEW U, NEW label \in Seq(U), NEW key, NEW addr, NEW tab
    PROVE  LET lines == Filled(NewLines(label, key, addr), tab) IN
           /\ EndsInBlock(lines, Len(label), key, addr)
           /\ \A i \in 1..Len(label) : lines[i] = Substituted(label[i], tab)
<1> DEFINE n == Len(label)
           block == NewBlock(key, addr)
           new == label \o block
<1>1. /\ Len(block) = 3 /\ block[1] = Line("peer", None) /\ block[2] = Line("key", key)
      /\ block[3] = Line("ips", [addr |-> addr, size |-> 1])
    BY DEF NewBlock
<1>2. \A t, v : t # "text" => Substituted(Line(t, v), tab) = Line(t, v)
    BY DEF Substituted, Line
<1>3. PICK V : block \in Seq(V) /\ label \in Seq(V)
    <2> DEFINE V == U \cup {Line("peer", None), Line("key", key),
                            Line("ips", [addr |-> addr, size |-> 1])}
    <2>1. block \in Seq(V)
        BY DEF NewBlock
    <2>2. label \in Seq(V)
        OBVIOUS
    <2> QED
        BY <2>1, <2>2
<1> HIDE DEF block
<1>4. /\ n \in Nat /\ DOMAIN new = 1..(n + 3)
      /\ \A i \in 1..n : new[i] = label[i]
      /\ new[n + 1] = block[1] /\ new[n + 2] = block[2] /\ new[n + 3] = block[3]
    <2>1. n \in Nat /\ new \in Seq(V) /\ Len(new) = n + Len(block)
        BY <1>3
    <2>2. /\ \A i \in 1..n : new[i] = label[i]
          /\ \A i \in 1..Len(block) : new[n + i] = block[i]
        BY <1>3
    <2> HIDE DEF new, n
    <2>3. DOMAIN new = 1..(n + 3)
        BY <1>1, <2>1
    <2>4. 1 \in 1..Len(block) /\ 2 \in 1..Len(block) /\ 3 \in 1..Len(block)
        BY <1>1
    <2> QED
        BY <2>1, <2>2, <2>3, <2>4
<1> HIDE DEF new, n
<1>5. Filled(new, tab) = [j \in 1..(n + 3) |-> Substituted(new[j], tab)]
    BY <1>4 DEF Filled
<1>6. n + 1 \in 1..(n + 3) /\ n + 2 \in 1..(n + 3) /\ n + 3 \in 1..(n + 3)
      /\ \A i \in 1..n : i \in 1..(n + 3)
    BY <1>4
<1>7. EndsInBlock(Filled(new, tab), n, key, addr)
    BY <1>1, <1>2, <1>4, <1>5, <1>6 DEF EndsInBlock
<1>8. \A i \in 1..n : Filled(new, tab)[i] = Substituted(label[i], tab)
    BY <1>4, <1>5, <1>6
<1> QED
    BY <1>7, <1>8 DEF NewLines, new, n, block

\* An error stays.
LEMMA BadStays ==
    ASSUME NEW s \in Scanning, s.bad
    PROVE  Flush(s).bad /\ \A l : Scan(s, l) = s
BY DEF Flush, Scan, Scanning, ScanState

\* Wherever the scan is when it comes to the block, it finds its peer.
LEMMA BlockScanned ==
    ASSUME NEW s \in InFile, NEW key \in Key, NEW addr \in Word,
           NEW s1 \in InFile, NEW s2 \in InFile, NEW s3 \in InFile,
           s1 = Scan(s, Line("peer", None)), s2 = Scan(s1, Line("key", key)),
           s3 = Scan(s2, Line("ips", [addr |-> addr, size |-> 1]))
    PROVE  /\ Flush(s3).bad <=> Flush(s).bad
           /\ ~ Flush(s).bad =>
                Flush(s3).out = Append(Flush(s).out, Peer(key, addr, s.name, s.file))
<1> DEFINE t == Flush(s)
           x == Peer(key, addr, s.name, s.file)
<1>1. t \in Scanning
    BY FlushType DEF InFile
<1>2. s \in Scanning /\ s1 \in Scanning /\ s2 \in Scanning /\ s3 \in Scanning
    BY DEF InFile
<1>3. CASE s.bad
    <2>1. t.bad /\ s1 = s
        BY <1>2, <1>3, BadStays
    <2>2. s2 = s
        BY <1>2, <1>3, <2>1, BadStays
    <2>3. s3 = s
        BY <1>2, <1>3, <2>2, BadStays
    <2> QED
        BY <2>1, <2>3
<1>4. CASE ~ s.bad
    <2>1. s1 = [t EXCEPT !.inPeer = TRUE, !.name = None, !.cur = Opened(s.name, s.file)]
        <3> HIDE DEF t
        <3>1. Flush(s) = t
            BY DEF t
        <3> QED
            BY <1>4, <3>1 DEF Scan, Line
    <2> HIDE DEF t
    <2>2. /\ s1.inPeer /\ s1.bad = t.bad /\ s1.out = t.out
          /\ s1.cur = Peer(None, None, s.name, s.file)
        BY <1>1, <2>1 DEF Scanning, ScanState, Opened, Peer
    <2>3. CASE t.bad
        <3>1. s2 = s1 /\ s1.bad
            BY <1>2, <2>2, <2>3, BadStays
        <3>2. s3 = s1
            BY <1>2, <3>1, BadStays
        <3>3. Flush(s3).bad
            BY <1>2, <3>1, <3>2, BadStays
        <3> QED
            BY <2>3, <3>3 DEF t
    <2>4. CASE ~ t.bad
        <3>1. s2 = [s1 EXCEPT !.cur.key = key]
            BY <2>2, <2>4 DEF Scan, Line
        <3>2. /\ s2.inPeer /\ ~ s2.bad /\ s2.out = t.out
              /\ s2.cur = Peer(key, None, s.name, s.file)
            BY <1>2, <2>2, <2>4, <3>1 DEF Scanning, ScanState, Peer
        <3> DEFINE cidr == [addr |-> addr, size |-> 1]
        <3>3. cidr # NotACidr /\ cidr.addr = addr /\ s3 = Scan(s2, Line("ips", cidr))
            BY DEF NotACidr
        <3> HIDE DEF cidr
        <3>4. s3 = [s2 EXCEPT !.cur.addr = addr]
            BY <3>2, <3>3 DEF Scan, Line
        <3>5. s3.inPeer /\ ~ s3.bad /\ s3.out = t.out /\ s3.cur = x
            <4>1. s2 \in ScanState
                BY <1>2 DEF Scanning
            <4>2. s3 = [s2 EXCEPT !.cur = [s2.cur EXCEPT !.addr = addr]]
                BY <3>4
            <4>3. [s2.cur EXCEPT !.addr = addr] = x
                BY <3>2 DEF Peer
            <4> HIDE DEF x
            <4> QED
                BY <3>2, <4>1, <4>2, <4>3 DEF ScanState
        <3>6. ~ Half(x) /\ ~ Stub(x)
            <4>1. key # None /\ addr # None
                BY CasesAssumption
            <4> QED
                BY <4>1 DEF Half, Stub, Peer
        <3> HIDE DEF x
        <3>7. Flush(s3) = [s3 EXCEPT !.inPeer = FALSE, !.out = Append(s3.out, x)]
            BY <3>5, <3>6 DEF Flush
        <3>8. ~ Flush(s3).bad /\ Flush(s3).out = Append(t.out, x)
            <4>1. s3 \in ScanState
                BY <1>2 DEF Scanning
            <4>2. [s3 EXCEPT !.inPeer = FALSE, !.out = Append(s3.out, x)].bad = s3.bad
                BY <4>1 DEF ScanState
            <4>3. [s3 EXCEPT !.inPeer = FALSE, !.out = Append(s3.out, x)].out
                    = Append(s3.out, x)
                BY <4>1 DEF ScanState
            <4> QED
                BY <3>5, <3>7, <4>2, <4>3
        <3> QED
            BY <2>4, <3>8 DEF t, x
    <2> QED
        BY <2>3, <2>4
<1> QED
    BY <1>3, <1>4

\* From the state s, after its first n lines, a file that ends in the block of
\* an add is read as that peer.
BlockFrom(s, n, lines, key, addr, b) ==
    LET end == Flush(FoldLeft(Scan, b, lines)) IN
    /\ end.bad <=> Flush(s).bad
    /\ ~ end.bad => end.out = Append(Flush(s).out, Peer(key, addr, s.name, s.file))
    /\ n = 1 => s = Scan(b, lines[1])

LEMMA BlockAtEnd ==
    ASSUME NEW n \in Nat, NEW lines, NEW key \in Key, NEW addr \in Word,
           EndsInBlock(lines, n, key, addr), \A k \in 1..(n + 3) : Ready(lines[k]),
           NEW b \in InFile
    PROVE  \E s \in InFile : BlockFrom(s, n, lines, key, addr, b)
<1> DEFINE m == n + 3
<1>1. m \in Nat /\ DOMAIN lines = 1..m
    BY DEF EndsInBlock
<1>2. PICK p \in [0..m -> InFile] : ScanPrefixes(m, lines, b, p)
    BY <1>1, ScanRuns
<1>3. /\ n \in 0..m /\ n + 1 \in 1..m /\ n + 2 \in 1..m /\ n + 3 \in 1..m
      /\ n + 1 \in 0..m /\ n + 2 \in 0..m /\ n + 3 \in 0..m /\ 1 \in 1..m
      /\ (n + 1) - 1 = n /\ (n + 2) - 1 = n + 1 /\ (n + 3) - 1 = n + 2 /\ 1 - 1 = 0
    OBVIOUS
<1>4. /\ p[0] = b /\ p[n + 3] = FoldLeft(Scan, b, lines)
      /\ \A k \in 1..m : p[k] = Scan(p[k - 1], lines[k])
    BY <1>2 DEF ScanPrefixes
<1> HIDE DEF m
<1>5. /\ p[n + 1] = Scan(p[n], lines[n + 1]) /\ p[n + 2] = Scan(p[n + 1], lines[n + 2])
      /\ p[n + 3] = Scan(p[n + 2], lines[n + 3]) /\ p[1] = Scan(b, lines[1])
    BY <1>3, <1>4
<1>6. p[n] \in InFile /\ p[n + 1] \in InFile /\ p[n + 2] \in InFile /\ p[n + 3] \in InFile
    BY <1>2, <1>3
<1>7. /\ Flush(p[n + 3]).bad <=> Flush(p[n]).bad
      /\ ~ Flush(p[n]).bad =>
            Flush(p[n + 3]).out = Append(Flush(p[n]).out, Peer(key, addr, p[n].name, p[n].file))
    BY <1>5, <1>6, BlockScanned DEF EndsInBlock
<1> QED
    BY <1>4, <1>5, <1>6, <1>7 DEF BlockFrom

\* What Found does with the lines of a part.
LEMMA FoundByScan ==
    ASSUME NEW part, Part(part)
    PROVE  LET b == [Blank EXCEPT !.name = None, !.file = part.path] IN
           b \in InFile /\ Found(part) = Flush(FoldLeft(Scan, b, part.lines))
<1>1. None \in Named
    BY DEF Named
<1>2. [Blank EXCEPT !.name = None, !.file = part.path] \in InFile
    BY <1>1, BlankIsScanning DEF InFile, Scanning, ScanState, Part
<1> QED
    BY <1>2 DEF ScanFile, Found

\* The file that an add writes, if it is scanned without an error, ends with
\* the new peer.
LEMMA NewPeerLast ==
    ASSUME NEW U, NEW label \in Seq(U), NEW key \in Key, NEW addr \in Word, NEW tab,
           NEW part, Part(part), part.lines = Filled(NewLines(label, key, addr), tab),
           ~ Found(part).bad
    PROVE  LET out == Found(part).out IN
           /\ out \in Seq(Assignment) /\ Len(out) # 0
           /\ out[Len(out)].key = key /\ out[Len(out)].addr = addr
<1> DEFINE lines == part.lines
           b == [Blank EXCEPT !.name = None, !.file = part.path]
           end == Flush(FoldLeft(Scan, b, lines))
           n == Len(label)
<1>1. n \in Nat /\ EndsInBlock(lines, n, key, addr)
    BY FilledNewLines
<1>2. \A k \in 1..(n + 3) : Ready(lines[k])
    BY <1>1, Elements DEF Part, EndsInBlock
<1>3. b \in InFile /\ Found(part) = end
    BY FoundByScan
<1> HIDE DEF b, lines, n
<1>4. PICK s \in InFile : BlockFrom(s, n, lines, key, addr, b)
    BY <1>1, <1>2, <1>3, BlockAtEnd
<1> DEFINE x == Peer(key, addr, s.name, s.file)
           o == Flush(s).out
<1>5. o \in Seq(Assignment)
    BY FlushType DEF InFile, Scanning, ScanState
<1>6. x.key = key /\ x.addr = addr
    BY DEF Peer
<1> HIDE DEF x, o, end
<1>7. Found(part).out = Append(o, x) /\ Found(part).out \in Seq(Assignment)
    BY <1>3, <1>4, FoundIs DEF x, o, end, BlockFrom
<1>8. /\ Len(Append(o, x)) = Len(o) + 1 /\ Len(o) \in Nat
      /\ Append(o, x)[Len(o) + 1] = x
    BY <1>5
<1> QED
    BY <1>6, <1>7, <1>8

\* With a label of one line it is scanned as one peer, without an error.
LEMMA NewPeer ==
    ASSUME NEW U, NEW label \in Seq(U), Len(label) = 1, label[1].t = "name",
           NEW key \in Key, NEW addr \in Word, NEW tab,
           NEW part, Part(part), part.lines = Filled(NewLines(label, key, addr), tab)
    PROVE  /\ ~ Found(part).bad
           /\ Found(part).out =
                <<Peer(key, addr, ReadName(Substituted(label[1], tab).val), part.path)>>
<1> DEFINE lines == part.lines
           b == [Blank EXCEPT !.name = None, !.file = part.path]
           end == Flush(FoldLeft(Scan, b, lines))
           val == Substituted(label[1], tab).val
           n == Len(label)
<1>1. n = 1 /\ EndsInBlock(lines, n, key, addr) /\ lines[1] = Substituted(label[1], tab)
    BY FilledNewLines
<1>2. lines[1].t = "name" /\ lines[1].val = val
    BY <1>1 DEF Substituted, Line
<1>3. \A k \in 1..(n + 3) : Ready(lines[k])
    BY <1>1, Elements DEF Part, EndsInBlock
<1>4. b \in InFile /\ Found(part) = end
    BY FoundByScan
<1>5. b.inPeer = FALSE /\ b.bad = FALSE /\ b.out = <<>> /\ b.file = part.path
    BY DEF Blank
<1>6. n \in Nat
    OBVIOUS
<1> HIDE DEF b, lines, val, n
<1>7. PICK s \in InFile : BlockFrom(s, n, lines, key, addr, b)
    BY <1>6, <1>1, <1>3, <1>4, BlockAtEnd
<1> HIDE DEF end
<1>8. s = Scan(b, lines[1]) /\ (end.bad <=> Flush(s).bad)
       /\ (~ end.bad => end.out = Append(Flush(s).out, Peer(key, addr, s.name, s.file)))
    BY <1>1, <1>7 DEF BlockFrom, end
<1>9. s = [b EXCEPT !.name = ReadName(val)]
    BY <1>2, <1>5, <1>8 DEF Scan
<1>10. /\ ~ s.inPeer /\ ~ s.bad /\ s.out = <<>> /\ s.name = ReadName(val)
      /\ s.file = part.path
    BY <1>4, <1>5, <1>9 DEF InFile, Scanning, ScanState
<1>11. Flush(s) = s
    BY <1>10 DEF Flush
<1> DEFINE x == Peer(key, addr, ReadName(val), part.path)
<1>12. ~ end.bad /\ end.out = Append(<<>>, x)
    BY <1>10, <1>11, <1>8
<1> HIDE DEF x
<1>13. Append(<<>>, x) = <<x>>
    OBVIOUS
<1> QED
    BY <1>4, <1>12, <1>13 DEF x, val

\* What one file alone holds.
LEMMA CollectedOne ==
    ASSUME NEW part, Part(part)
    PROVE  Collected(<<part>>) = Found(part)
<1> DEFINE ps == <<part>>
<1>1. DOMAIN ps = 1..1 /\ \A k \in 1..1 : Part(ps[k]) /\ ps[k] = part
    OBVIOUS
<1>2. Collected(ps) = FoldLeft(ScanFile, Blank, ps)
    BY DEF Collected, Blank
<1> HIDE DEF ps
<1>3. PICK p \in [0..1 -> Scanning] : FilePrefixes(1, ps, Blank, p)
    BY <1>1, BlankIsScanning, FileRuns
<1>4. 1 \in 1..1 /\ 1 - 1 = 0
    OBVIOUS
<1>5. p[1] = ScanFile(Blank, part)
    BY <1>1, <1>3, <1>4 DEF FilePrefixes
<1> QED
    BY <1>2, <1>3, <1>5 DEF FilePrefixes, Found, ps
-----------------------------------------------------------------------------
(***************************************************************************)
(* The peers of a folder with one more file.                                *)
(***************************************************************************)
\* c are the peers of the file f, a and b those of the others.
Around(a, c, b, f) ==
    /\ a \in Seq(Assignment) /\ b \in Seq(Assignment) /\ c \in Seq(Assignment)
    /\ \A k \in 1..Len(a) : a[k].file # f
    /\ \A k \in 1..Len(b) : b[k].file # f
    /\ \A k \in 1..Len(c) : c[k].file = f

Encloses(s, t, c, f) ==
    \E a, b : Around(a, c, b, f) /\ s = a \o b /\ t = (a \o c) \o b

PeersOf(dir, env) == Collected(PartsOf(dir, env)).out
Broken(dir, env) == Collected(PartsOf(dir, env)).bad

\* The peers and the errors of the larger folder.
LEMMA GrownPeers ==
    ASSUME NEW d, Dir(d), NEW e, Dir(e), NEW f, Grown(d, e, f), NEW env,
           Reads(d, env), Reads(e, env), TabOf(d, env)["subnet"] \in Cidr
    PROVE  LET x == PartOf(e, f, TabOf(d, env)) IN
           /\ TabOf(e, env) = TabOf(d, env)
           /\ Inserts(PartsOf(d, env), PartsOf(e, env), Len(Listing(d)), Place(e, f))
           /\ PartsOf(e, env)[Place(e, f)] = x /\ Part(x) /\ x.path = f
           /\ Broken(e, env) <=> Broken(d, env) \/ Found(x).bad
           /\ ~ Broken(e, env) => Encloses(PeersOf(d, env), PeersOf(e, env), Found(x).out, f)
<1> DEFINE tab == TabOf(d, env)
           x == PartOf(e, f, tab)
           ps == PartsOf(d, env)
           qs == PartsOf(e, env)
           n == Len(Listing(d))
           i == Place(e, f)
<1>1. TabOf(e, env) = tab /\ Listing(d) # <<>>
    BY PartsOfIs, GrownTable DEF Reads
<1>2. Parts(ps) /\ Parts(qs)
    BY PartsOfIs
<1>3. ps = Loaded(d, tab) /\ qs = Loaded(e, tab)
    BY <1>1 DEF PartsOf
<1>4. Inserts(ps, qs, n, i) /\ qs[i] = x
    BY <1>3, LoadedWith
<1>5. Part(x) /\ x.path = f
    <2>1. i \in 1..Len(qs)
        BY <1>4 DEF Inserts
    <2>2. Part(x)
        BY <1>2, <1>4, <2>1, Elements DEF Parts
    <2> QED
        BY <2>2 DEF PartOf
<1>6. \A j \in 1..n : ps[j].path # f
    <2>1. \A j \in 1..n : Listing(d)[j] \in DOMAIN d /\ ps[j] = PartOf(d, Listing(d)[j], tab)
        BY <1>3, LoadedIs
    <2> HIDE DEF ps
    <2>2. \A j \in 1..n : ps[j].path = Listing(d)[j]
        <3>1. \A g : PartOf(d, g, tab).path = g
            BY DEF PartOf
        <3> QED
            BY <2>1, <3>1
    <2>3. f \notin DOMAIN d
        BY DEF Grown
    <2> QED
        BY <2>1, <2>2, <2>3
<1>7. n = Len(ps)
    BY <1>4 DEF Inserts
<1> HIDE DEF tab, x, ps, qs, n, i
<1>8. /\ Collected(qs).bad <=> Collected(ps).bad \/ Found(x).bad
      /\ ~ Collected(qs).bad => Parted(Collected(ps).out, Collected(qs).out, Found(x).out)
    BY <1>2, <1>4, InsertCollects
<1>9. ASSUME ~ Collected(qs).bad
      PROVE  Encloses(Collected(ps).out, Collected(qs).out, Found(x).out, f)
    <2>1. PICK a \in Seq(Assignment), b \in Seq(Assignment) :
                /\ Collected(ps).out = a \o b
                /\ Collected(qs).out = (a \o Found(x).out) \o b
        BY <1>8, <1>9 DEF Parted
    <2>2. ~ Collected(ps).bad
        BY <1>8, <1>9
    <2> DEFINE s == a \o b
    <2>3. s = Collected(ps).out
        BY <2>1
    <2>4. s \in Seq(Assignment) /\ Len(s) = Len(a) + Len(b) /\ Len(a) \in Nat /\ Len(b) \in Nat
        OBVIOUS
    <2>5. \A k \in 1..Len(a) : k \in 1..Len(s) /\ s[k] = a[k]
        OBVIOUS
    <2>6. \A k \in 1..Len(b) : Len(a) + k \in 1..Len(s) /\ s[Len(a) + k] = b[k]
        OBVIOUS
    <2> HIDE DEF s
    <2>7. \A k \in 1..Len(s) : s[k].file # f
        <3>1. \A k \in 1..Len(s) : s[k] \in ToSet(s)
            BY <2>4 DEF ToSet
        <3>2. \A y \in ToSet(s) : \E j \in 1..n : y.file = ps[j].path
            BY <1>2, <1>7, <2>2, <2>3, CollectedFrom
        <3> QED
            BY <3>1, <3>2, <1>6
    <2>8. /\ Found(x).out \in Seq(Assignment)
          /\ \A k \in 1..Len(Found(x).out) : Found(x).out[k].file = f
        BY <1>5, FoundIs, FoundFiled
    <2>9. Around(a, Found(x).out, b, f)
        BY <2>5, <2>6, <2>7, <2>8 DEF Around
    <2> QED
        BY <2>1, <2>9 DEF Encloses
<1> QED
    BY <1>1, <1>4, <1>5, <1>8, <1>9 DEF tab, x, ps, qs, n, i, PeersOf, Broken

\* s is t without one run of peers, those of f.
CutAt(s, t, f, i, j) ==
    /\ {k \in DOMAIN t : t[k].file = f} = (i + 1)..j
    /\ s = SubSeq(t, 1, i) \o SubSeq(t, j + 1, Len(t))
Cut(s, t, f) == \E i \in 0..Len(t) : \E j \in i..Len(t) : CutAt(s, t, f, i, j)

\* What is between two runs of others' peers is cut out in one piece.
LEMMA AroundIs ==
    ASSUME NEW a, NEW b, NEW c, NEW f, Around(a, c, b, f)
    PROVE  LET t == (a \o c) \o b
               i == Len(a)
               j == Len(a) + Len(c) IN
           /\ i \in 0..Len(t) /\ j \in i..Len(t) /\ CutAt(a \o b, t, f, i, j)
           /\ \A k \in 1..Len(c) : t[i + k] = c[k]
<1> DEFINE i == Len(a)
           j == Len(a) + Len(c)
           s == (a \o c) \o b
<1>0. a \in Seq(Assignment) /\ b \in Seq(Assignment) /\ c \in Seq(Assignment)
    BY DEF Around
<1>1. s \in Seq(Assignment) /\ Len(s) = j + Len(b) /\ DOMAIN s = 1..Len(s)
    BY <1>0
<1>2. i \in Nat /\ j \in Nat /\ Len(b) \in Nat /\ Len(c) \in Nat /\ i <= j /\ j <= Len(s)
    BY <1>0, <1>1
<1>3. \A k \in 1..i : s[k] = a[k]
    BY <1>0
<1>4. \A k \in 1..Len(c) : s[i + k] = c[k]
    BY <1>0
<1>5. \A k \in 1..Len(b) : s[j + k] = b[k]
    BY <1>0
<1>6. ASSUME NEW k \in 1..Len(s) PROVE s[k].file = f <=> k \in (i + 1)..j
    <2>1. CASE k <= i
        BY <1>2, <1>3, <2>1 DEF Around
    <2>2. CASE i < k /\ k <= j
        <3>1. k - i \in 1..Len(c) /\ i + (k - i) = k
            BY <1>2, <2>2
        <3>2. s[k] = c[k - i]
            BY <1>4, <3>1
        <3> QED
            BY <1>2, <2>2, <3>1, <3>2 DEF Around
    <2>3. CASE j < k
        <3>1. k - j \in 1..Len(b) /\ j + (k - j) = k
            BY <1>1, <1>2, <2>3
        <3>2. s[k] = b[k - j]
            BY <1>5, <3>1
        <3> QED
            BY <1>2, <2>3, <3>1, <3>2 DEF Around
    <2> QED
        BY <2>1, <2>2, <2>3, <1>2
<1> HIDE DEF i, j, s
<1>7. {k \in DOMAIN s : s[k].file = f} = (i + 1)..j
    <2>1. (i + 1)..j \subseteq 1..Len(s)
        BY <1>1, <1>2
    <2> QED
        BY <1>1, <1>6, <2>1
<1>8. SubSeq(s, 1, i) = a
    <2>1. SubSeq(s, 1, i) = [k \in 1..i |-> s[k]]
        BY <1>1, <1>2
    <2>2. a = [k \in 1..i |-> a[k]]
        BY <1>0 DEF i
    <2> QED
        BY <1>3, <2>1, <2>2
<1>9. SubSeq(s, j + 1, Len(s)) = b
    <2>1. SubSeq(s, j + 1, Len(s)) = [k \in 1..Len(b) |-> s[j + k]]
        BY <1>1, <1>2
    <2>2. b = [k \in 1..Len(b) |-> b[k]]
        BY <1>0
    <2> QED
        BY <1>5, <2>1, <2>2
<1> QED
    <2>1. i \in 0..Len(s) /\ j \in i..Len(s)
        BY <1>1, <1>2
    <2>2. a \o b = SubSeq(s, 1, i) \o SubSeq(s, j + 1, Len(s))
        BY <1>8, <1>9
    <2> QED
        BY <1>4, <1>7, <2>1, <2>2 DEF CutAt, s, i, j

\* The last of a run of peers is the one that was asked for.
EndsWith(t, i, j, key, addr) == i < j /\ t[j].key = key /\ t[j].addr = addr

\* The peers of the file of an add stand in a row, the new one at its end.
LEMMA AddedIs ==
    ASSUME NEW d, Dir(d), NEW e, Dir(e), NEW f, Grown(d, e, f), NEW env,
           Reads(d, env), Reads(e, env), TabOf(d, env)["subnet"] \in Cidr,
           NEW U, NEW label \in Seq(U), label[1].t = "name", NEW key \in Key, NEW addr \in Word,
           e[f] = NewLines(label, key, addr), ~ Broken(e, env)
    PROVE  LET s == PeersOf(d, env)
               t == PeersOf(e, env)
               name == ReadName(Substituted(label[1], TabOf(d, env)).val) IN
           \E i \in 0..Len(t) : \E j \in i..Len(t) :
                /\ CutAt(s, t, f, i, j) /\ EndsWith(t, i, j, key, addr)
                /\ Len(label) = 1 => j = i + 1 /\ t[j].name = name
<1> DEFINE part == PartOf(e, f, TabOf(d, env))
           name == ReadName(Substituted(label[1], TabOf(d, env)).val)
           s == PeersOf(d, env)
           t == PeersOf(e, env)
           c == Found(part).out
<1>1. /\ Part(part) /\ part.path = f /\ Encloses(s, t, c, f)
      /\ ~ Found(part).bad
    BY GrownPeers
<1>2. part.lines = Filled(NewLines(label, key, addr), TabOf(d, env))
    BY DEF PartOf
<1>3. c \in Seq(Assignment) /\ Len(c) # 0 /\ c[Len(c)].key = key /\ c[Len(c)].addr = addr
    <2> HIDE DEF part
    <2> QED
        BY <1>1, <1>2, NewPeerLast
<1>4. Len(label) = 1 => Len(c) = 1 /\ c[1].name = name
    <2> HIDE DEF part
    <2> SUFFICES ASSUME Len(label) = 1 PROVE Len(c) = 1 /\ c[1].name = name
        OBVIOUS
    <2>1. c = <<Peer(key, addr, name, f)>>
        BY <1>1, <1>2, NewPeer
    <2> QED
        BY <2>1 DEF Peer
<1>5. PICK a, b : Around(a, c, b, f) /\ s = a \o b /\ t = (a \o c) \o b
    BY <1>1 DEF Encloses
<1> HIDE DEF part, s, t, c, name
<1> DEFINE i == Len(a)
           j == Len(a) + Len(c)
<1>6. /\ i \in 0..Len(t) /\ j \in i..Len(t) /\ CutAt(s, t, f, i, j)
      /\ \A k \in 1..Len(c) : t[i + k] = c[k]
    BY <1>5, AroundIs
<1>7. Len(c) \in Nat /\ Len(c) \in 1..Len(c) /\ i \in Nat
    BY <1>3, <1>5 DEF Around
<1>8. t[j] = c[Len(c)] /\ i < j /\ (Len(c) = 1 => j = i + 1)
    BY <1>6, <1>7
<1>9. EndsWith(t, i, j, key, addr)
    BY <1>3, <1>8 DEF EndsWith
<1>10. Len(label) = 1 => j = i + 1 /\ t[j].name = name
    BY <1>4, <1>8
<1> HIDE DEF i, j
<1> QED
    BY <1>6, <1>9, <1>10 DEF s, t, name

\* The file with the key takes its own peers along.
LEMMA RemovedIs ==
    ASSUME NEW d, Dir(d), NEW e, Dir(e), NEW f, Grown(d, e, f), NEW env,
           Reads(d, env), Reads(e, env), TabOf(d, env)["subnet"] \in Cidr,
           ~ Broken(e, env), NEW key,
           NEW m \in DOMAIN PartsOf(e, env), Holds(PartsOf(e, env)[m], key),
           PartsOf(e, env)[m].path = f
    PROVE  LET s == PeersOf(d, env)
               t == PeersOf(e, env) IN
           /\ Cut(s, t, f)
           /\ \A y \in ToSet(s) : y.key = key =>
                \E i, j \in DOMAIN t : i # j /\ t[i].key = key /\ t[j].key = key
<1> DEFINE part == PartOf(e, f, TabOf(d, env))
           s == PeersOf(d, env)
           t == PeersOf(e, env)
           c == Found(part).out
<1>1. Part(part) /\ PartsOf(e, env)[Place(e, f)] = part /\ TabOf(e, env) = TabOf(d, env)
    BY GrownPeers
<1>2. PICK a, b : Around(a, c, b, f) /\ s = a \o b /\ t = (a \o c) \o b
    <2>1. Encloses(s, t, c, f)
        BY GrownPeers
    <2> QED
        BY <2>1 DEF Encloses
<1>3. PartsOf(e, env)[m] = part
    <2>1. /\ Len(PartsOf(e, env)) = Len(Listing(e)) /\ Len(Listing(e)) \in Nat
          /\ \A i \in 1..Len(Listing(e)) : /\ Listing(e)[i] \in DOMAIN e
                /\ PartsOf(e, env)[i] = PartOf(e, Listing(e)[i], TabOf(e, env))
        BY LoadedIs DEF PartsOf
    <2>2. DOMAIN PartsOf(e, env) = 1..Len(Listing(e))
        BY <2>1, PartsOfIs, Elements DEF Parts
    <2>3. m \in 1..Len(Listing(e)) /\ PartsOf(e, env)[m] = PartOf(e, Listing(e)[m], TabOf(e, env))
        BY <2>1, <2>2
    <2>4. Listing(e)[m] = f
        BY <2>3 DEF PartOf
    <2>5. Place(e, f) = m
        BY <2>3, <2>4, ListingIs DEF Dir
    <2> QED
        BY <1>1, <2>5
<1>4. \E y \in ToSet(c) : y.key = key
    BY <1>1, <1>3, CollectedOne DEF Holds
<1> HIDE DEF part, s, t, c
<1>5. Cut(s, t, f)
    BY <1>2, AroundIs DEF Cut
<1>6. a \in Seq(Assignment) /\ b \in Seq(Assignment) /\ c \in Seq(Assignment)
    BY <1>2 DEF Around
<1>7. /\ Len(s) = Len(a) + Len(b) /\ Len(t) = (Len(a) + Len(c)) + Len(b)
      /\ DOMAIN s = 1..Len(s) /\ DOMAIN t = 1..Len(t) /\ DOMAIN c = 1..Len(c)
      /\ Len(a) \in Nat /\ Len(b) \in Nat /\ Len(c) \in Nat
    BY <1>2, <1>6
<1>8. /\ \A k \in 1..Len(a) : s[k] = a[k] /\ t[k] = a[k]
      /\ \A k \in 1..Len(c) : t[Len(a) + k] = c[k]
      /\ \A k \in 1..Len(b) : s[Len(a) + k] = b[k] /\ t[Len(a) + Len(c) + k] = b[k]
    BY <1>2, <1>6
<1>9. ASSUME NEW y \in ToSet(s), y.key = key
      PROVE  \E i, j \in DOMAIN t : i # j /\ t[i].key = key /\ t[j].key = key
    <2>1. PICK k \in 1..Len(c) : c[k].key = key
        BY <1>4, <1>7 DEF ToSet
    <2>2. Len(a) + k \in DOMAIN t /\ t[Len(a) + k].key = key
        BY <1>7, <1>8, <2>1
    <2>3. PICK h \in 1..Len(s) : s[h].key = key
        BY <1>7, <1>9 DEF ToSet
    <2>4. CASE h <= Len(a)
        <3>1. h \in 1..Len(a) /\ h \in DOMAIN t /\ h # Len(a) + k
            BY <1>7, <2>4
        <3>2. t[h].key = key
            BY <1>8, <2>3, <3>1
        <3> QED
            BY <2>2, <3>1, <3>2
    <2>5. CASE h > Len(a)
        <3> DEFINE g == h + Len(c)
        <3>1. /\ h - Len(a) \in 1..Len(b) /\ g \in DOMAIN t /\ g # Len(a) + k
              /\ Len(a) + (h - Len(a)) = h /\ Len(a) + Len(c) + (h - Len(a)) = g
            BY <1>7, <2>5
        <3>2. s[h] = b[h - Len(a)] /\ t[g] = b[h - Len(a)]
            BY <1>8, <3>1
        <3> QED
            BY <2>2, <2>3, <3>1, <3>2
    <2> QED
        BY <2>4, <2>5, <1>7
<1> QED
    BY <1>5, <1>9 DEF s, t

\* A new peer is one that check has nothing against.
Welcome(key, addr, found, tab) ==
    /\ addr \in HostsOf(SubnetOf(tab["subnet"])) /\ addr # tab["address"].addr
    /\ \A y \in ToSet(found) : y.key # key /\ y.addr # addr

Sound(found, tab) ==
    \A i \in DOMAIN found :
        /\ Fresh(found, i)
        /\ InSubnet(SubnetOf(tab["subnet"]), found[i].addr)
        /\ found[i].addr \notin {SubnetOf(tab["subnet"]).addr, Broadcast(SubnetOf(tab["subnet"]))}
        /\ found[i].addr # tab["address"].addr

\* A welcome peer among sound ones.
LEMMA SoundWith ==
    ASSUME NEW a, NEW b, NEW x \in Assignment, NEW f, Around(a, <<x>>, b, f), NEW tab,
           Sound(a \o b, tab), Welcome(x.key, x.addr, a \o b, tab)
    PROVE  Sound((a \o <<x>>) \o b, tab)
<1> DEFINE s == a \o b
           t == (a \o <<x>>) \o b
           h == Len(a) + 1
           at(i) == IF i < h THEN i ELSE i - 1
<1>1. a \in Seq(Assignment) /\ b \in Seq(Assignment)
    BY DEF Around
<1>2. /\ DOMAIN s = 1..(Len(a) + Len(b)) /\ DOMAIN t = 1..(h + Len(b))
      /\ Len(a) \in Nat /\ Len(b) \in Nat
    BY <1>1
<1>3. /\ \A k \in 1..Len(a) : s[k] = a[k] /\ t[k] = a[k]
      /\ t[h] = x
      /\ \A k \in 1..Len(b) : s[Len(a) + k] = b[k] /\ t[h + k] = b[k]
    BY <1>1
<1> HIDE DEF s, t
<1>4. ASSUME NEW i \in DOMAIN t, i # h PROVE at(i) \in DOMAIN s /\ t[i] = s[at(i)]
    <2>1. CASE i < h
        <3>1. i \in 1..Len(a) /\ at(i) = i
            BY <1>2, <2>1
        <3> QED
            BY <1>2, <1>3, <3>1
    <2>2. CASE i > h
        <3>1. /\ i - h \in 1..Len(b) /\ at(i) = i - 1
              /\ h + (i - h) = i /\ Len(a) + (i - h) = i - 1 /\ i - 1 \in DOMAIN s
            BY <1>2, <2>2
        <3>2. t[i] = b[i - h] /\ s[i - 1] = b[i - h]
            BY <1>3, <3>1
        <3> QED
            BY <3>1, <3>2
    <2> QED
        BY <2>1, <2>2, <1>2, <1>4
<1>5. \A i, j \in DOMAIN t : j < i /\ i # h /\ j # h => at(j) < at(i)
    BY <1>2
<1>6. \A i \in DOMAIN s : s[i].key # x.key /\ s[i].addr # x.addr
    BY DEF Welcome, ToSet, s
<1>7. Sound(s, tab)
    BY DEF s
<1> DEFINE Fits(y) ==
            /\ InSubnet(SubnetOf(tab["subnet"]), y.addr)
            /\ y.addr \notin {SubnetOf(tab["subnet"]).addr, Broadcast(SubnetOf(tab["subnet"]))}
            /\ y.addr # tab["address"].addr
<1>8. Fits(x) /\ \A i \in DOMAIN s : Fits(s[i])
    BY <1>7 DEF Welcome, HostsOf, Sound
<1>9. \A i, j \in DOMAIN s : j < i => s[j].key # s[i].key /\ s[j].addr # s[i].addr
    <2> SUFFICES ASSUME NEW i \in DOMAIN s, NEW j \in DOMAIN s, j < i
                 PROVE  s[j].key # s[i].key /\ s[j].addr # s[i].addr
        OBVIOUS
    <2>1. j \in 1..(i - 1)
        BY <1>2
    <2> QED
        BY <1>7, <2>1 DEF Sound, Fresh
<1> HIDE DEF at, Fits, h
<1>10. ASSUME NEW i \in DOMAIN t
       PROVE  Fits(t[i]) /\ Fresh(t, i)
    <2>1. Fits(t[i])
        BY <1>3, <1>4, <1>8
    <2>2. ASSUME NEW j \in 1..(i - 1)
          PROVE  t[j].key # t[i].key /\ t[j].addr # t[i].addr
        <3>1. j \in DOMAIN t /\ j < i
            BY <1>2 DEF h
        <3>2. CASE i = h
            <4>1. t[i] = x /\ j # h
                BY <1>3, <3>1, <3>2 DEF h
            <4> QED
                BY <1>4, <1>6, <3>1, <4>1
        <3>3. CASE j = h
            <4>1. t[j] = x /\ i # h
                BY <1>2, <1>3, <3>1, <3>3 DEF h
            <4> QED
                BY <1>4, <1>6, <4>1
        <3>4. CASE i # h /\ j # h
            <4>1. /\ at(i) \in DOMAIN s /\ t[i] = s[at(i)]
                  /\ at(j) \in DOMAIN s /\ t[j] = s[at(j)] /\ at(j) < at(i)
                BY <1>4, <1>5, <3>1, <3>4
            <4> QED
                BY <1>9, <4>1
        <3> QED
            BY <3>2, <3>3, <3>4
    <2> QED
        BY <2>1, <2>2 DEF Fresh
<1>11. Sound(t, tab)
    BY <1>10 DEF Sound, Fits
<1> QED
    BY <1>11 DEF t

\* check_network, with what it says of the peers by name.
LEMMA AcceptsIs ==
    ASSUME NEW ps, NEW tab
    PROVE  Accepts(ps, tab) <=>
                /\ HasInterface(ps) /\ tab["subnet"] \in Cidr /\ tab["address"] \in Cidr
                /\ ~ Collected(ps).bad /\ Sound(Collected(ps).out, tab)
    BY DEF Accepts, Sound

\* The lines that an add writes have nothing in them that could be undefined,
\* and no variables.
LEMMA NewLinesRead ==
    ASSUME NEW label, label.t = "name", label.ref = None, NEW key, NEW addr, NEW tab
    PROVE  /\ Directives(NewLines(<<label>>, key, addr)) = {}
           /\ \A l \in ToSet(NewLines(<<label>>, key, addr)) : ~ Undefined(l, tab)
<1> DEFINE new == NewLines(<<label>>, key, addr)
           set == {label, Line("peer", None), Line("key", key),
                   Line("ips", [addr |-> addr, size |-> 1])}
<1>1. /\ DOMAIN new = 1..4 /\ new[1] = label /\ new[2] = Line("peer", None)
      /\ new[3] = Line("key", key) /\ new[4] = Line("ips", [addr |-> addr, size |-> 1])
    BY DEF NewLines, NewBlock
<1>2. 1..4 = {1, 2, 3, 4}
    OBVIOUS
<1> HIDE DEF new
<1>3. ToSet(new) = set
    BY <1>1, <1>2 DEF ToSet
<1>4. \A l \in set : l.t \notin {"var", "text"} /\ l.ref = None
    BY DEF Line
<1> HIDE DEF set
<1> QED
    BY <1>3, <1>4 DEF Directives, Undefined, new

\* With a file that does not stand first, a folder that can be read still can.
LEMMA StillReads ==
    ASSUME NEW d, Dir(d), NEW e, Dir(e), NEW f, Grown(d, e, f), NEW env, Reads(d, env),
           Place(e, f) # 1, NEW label, label.t = "name", label.ref = None, NEW key, NEW addr,
           e[f] = NewLines(<<label>>, key, addr)
    PROVE  Reads(e, env) /\ TabOf(e, env) = TabOf(d, env)
<1>1. Listing(d) # <<>>
    BY DEF Reads, Misplaced
<1>2. Listing(e)[1] = Listing(d)[1] /\ e[Listing(e)[1]] = d[Listing(d)[1]]
    BY <1>1, GrownFirst
<1>3. TabOf(e, env) = TabOf(d, env)
    BY <1>2 DEF TabOf
<1>4. /\ Directives(e[f]) = {}
      /\ \A l \in ToSet(e[f]) : ~ Undefined(l, TabOf(d, env))
    BY NewLinesRead
<1>5. \A g \in DOMAIN e : g = f \/ (g \in DOMAIN d /\ e[g] = d[g])
    BY DEF Grown
<1>6. /\ Listing(d) \in Seq(DOMAIN d) /\ Listing(e) \in Seq(DOMAIN e)
      /\ Len(Listing(d)) \in Nat /\ Len(Listing(e)) \in Nat
      /\ Len(Listing(d)) = Cardinality(DOMAIN d)
    BY ListingIs, LoadedIs DEF Dir
<1>7. Listing(e) # <<>>
    <2>1. f \in DOMAIN e
        BY DEF Grown
    <2>2. \E i \in 1..Len(Listing(e)) : Listing(e)[i] = f
        BY <2>1, ListingIs DEF Dir
    <2> QED
        BY <1>6, <2>2
<1>8. ASSUME NEW k \in 2..Len(Listing(e)) PROVE Directives(e[Listing(e)[k]]) = {}
    <2> DEFINE g == Listing(e)[k]
    <2>1. k \in 1..Len(Listing(e)) /\ 1 \in 1..Len(Listing(e)) /\ k # 1
        BY <1>6
    <2>2. g \in DOMAIN e /\ Place(e, g) = k /\ Place(e, Listing(e)[1]) = 1
        BY <2>1, ListingIs DEF Dir
    <2>3. g # Listing(d)[1]
        BY <1>2, <2>1, <2>2
    <2> HIDE DEF g
    <2>4. CASE g = f
        BY <1>4, <2>4 DEF g
    <2>5. CASE g # f
        <3>1. g \in DOMAIN d /\ e[g] = d[g]
            BY <1>5, <2>2, <2>5
        <3>2. Place(d, g) \in 1..Len(Listing(d)) /\ Listing(d)[Place(d, g)] = g
            BY <1>6, <3>1, PlaceType, ListingIs DEF Dir
        <3>3. Place(d, g) \in 2..Len(Listing(d))
            BY <1>6, <2>3, <3>2
        <3>4. Directives(d[Listing(d)[Place(d, g)]]) = {}
            BY <3>3 DEF Reads, Misplaced
        <3> QED
            BY <3>1, <3>2, <3>4 DEF g
    <2> QED
        BY <2>4, <2>5
<1>9. env # None => ~ \A l \in Directives(e[Listing(e)[1]]) : l.val.env # env
    BY <1>2 DEF Reads, Misplaced
<1>10. ~ Misplaced(e, env)
    BY <1>7, <1>8, <1>9 DEF Misplaced
<1>11. \A g \in DOMAIN e : \A l \in ToSet(e[g]) : ~ Undefined(l, TabOf(e, env))
    BY <1>3, <1>4, <1>5 DEF Reads
<1> QED
    BY <1>3, <1>10, <1>11 DEF Reads

\* A new peer that is welcome does not make check refuse what it accepted.
LEMMA StillAccepts ==
    ASSUME NEW d, Dir(d), NEW e, Dir(e), NEW f, Grown(d, e, f), NEW env, Reads(d, env),
           Place(e, f) # 1, NEW label, label.t = "name", label.ref = None,
           NEW key \in Key, NEW addr \in Word, e[f] = NewLines(<<label>>, key, addr),
           Welcome(key, addr, PeersOf(d, env), TabOf(d, env)),
           Accepts(PartsOf(d, env), TabOf(d, env))
    PROVE  Accepts(PartsOf(e, env), TabOf(e, env))
<1> DEFINE tab == TabOf(d, env)
           part == PartOf(e, f, tab)
           x == Peer(key, addr, ReadName(Substituted(label, tab).val), f)
           ps == PartsOf(d, env)
           qs == PartsOf(e, env)
<1>1. Reads(e, env) /\ TabOf(e, env) = tab
    BY StillReads
<1>2. /\ HasInterface(ps) /\ tab["subnet"] \in Cidr /\ tab["address"] \in Cidr
      /\ ~ Broken(d, env) /\ Sound(PeersOf(d, env), tab)
    BY AcceptsIs DEF Broken, PeersOf
<1>3. /\ Part(part) /\ part.path = f
      /\ Inserts(ps, qs, Len(Listing(d)), Place(e, f))
      /\ Broken(e, env) <=> Broken(d, env) \/ Found(part).bad
      /\ ~ Broken(e, env) => Encloses(PeersOf(d, env), PeersOf(e, env), Found(part).out, f)
    BY <1>1, <1>2, GrownPeers
<1>4. part.lines = Filled(NewLines(<<label>>, key, addr), tab)
    BY DEF PartOf
<1>5. ~ Found(part).bad /\ Found(part).out = <<x>>
    <2> DEFINE ls == <<label>>
    <2>1. ls \in Seq({label}) /\ Len(ls) = 1 /\ ls[1] = label
        OBVIOUS
    <2>2. part.lines = Filled(NewLines(ls, key, addr), tab)
        BY <1>4
    <2> HIDE DEF part, ls, tab
    <2>3. /\ ~ Found(part).bad
          /\ Found(part).out = <<Peer(key, addr, ReadName(Substituted(ls[1], tab).val), part.path)>>
        BY <1>3, <2>1, <2>2, NewPeer
    <2> QED
        BY <1>3, <2>1, <2>3
<1>6. HasInterface(qs)
    <2>1. PICK p \in ToSet(ps) : \E l \in ToSet(p.lines) :
                l.t = "interface" /\ l.val \in {"plain", "noted"}
        BY <1>2 DEF HasInterface
    <2>2. Parts(ps) /\ Parts(qs)
        BY <1>1, PartsOfIs
    <2> DEFINE n == Len(Listing(d))
               i == Place(e, f)
    <2>3. /\ DOMAIN ps = 1..n /\ DOMAIN qs = 1..(n + 1) /\ n \in Nat /\ i \in 1..(n + 1)
          /\ \A j \in 1..n : (j < i => qs[j] = ps[j]) /\ (j >= i => qs[j + 1] = ps[j])
        BY <1>3, <2>2, Elements DEF Parts, Inserts
    <2> HIDE DEF n, i, ps, qs
    <2>4. PICK j \in 1..n : ps[j] = p
        BY <2>3 DEF ToSet
    <2>5. j \in 1..(n + 1) /\ j + 1 \in 1..(n + 1) /\ (j < i \/ j >= i)
        BY <2>3
    <2>6. p \in ToSet(qs)
        BY <2>3, <2>4, <2>5 DEF ToSet
    <2> QED
        BY <2>1, <2>6 DEF HasInterface
<1>7. ~ Broken(e, env)
    BY <1>2, <1>3, <1>5
<1>8. Sound(PeersOf(e, env), tab)
    <2>1. x.key = key /\ x.addr = addr
        BY DEF Peer
    <2> HIDE DEF x
    <2>2. PICK a, b : /\ Around(a, <<x>>, b, f) /\ PeersOf(d, env) = a \o b
                      /\ PeersOf(e, env) = (a \o <<x>>) \o b
        BY <1>3, <1>5, <1>7 DEF Encloses
    <2>3. x \in Assignment
        <3>1. <<x>> \in Seq(Assignment)
            BY <2>2 DEF Around
        <3> QED
            BY <3>1
    <2>4. Sound(a \o b, tab) /\ Welcome(x.key, x.addr, a \o b, tab)
        BY <1>2, <2>1, <2>2
    <2>5. Sound((a \o <<x>>) \o b, tab)
        BY <2>2, <2>3, <2>4, SoundWith
    <2> QED
        BY <2>2, <2>5
<1> QED
    BY <1>1, <1>2, <1>6, <1>7, <1>8, AcceptsIs DEF Broken, PeersOf
-----------------------------------------------------------------------------
(***************************************************************************)
(* What the command knows of the folder that it found, and of the one that  *)
(* it has made.                                                             *)
(***************************************************************************)
Passes(dir, env) == Reads(dir, env) /\ Accepts(PartsOf(dir, env), TabOf(dir, env))

\* The folder with the new peer.
Authored == With(before, fpath, NewLines(request.label, request.key, host))

Known ==
    /\ Reads(before, request.env) /\ ~ Broken(before, request.env)
    /\ existing = PeersOf(before, request.env)

Reading ==
    /\ pc \in {"partials", "decide", "find", "check"} =>
        ~ Misplaced(folder, request.env) /\ table = TabOf(folder, request.env)
    /\ pc \in {"decide", "find", "check"} =>
        Reads(folder, request.env) /\ partials = PartsOf(folder, request.env)
    /\ pc = "check" => fpath # None

\* peer add: an address is looked for in the subnet, among those that are free.
Adding ==
    request.op = "add" /\ (pc = "walk" \/ fpath # None) =>
        LET tab == TabOf(before, request.env) IN
        /\ Known
        /\ tab["subnet"] \in Cidr /\ tab["address"] \in Cidr
        /\ \A a \in ToSet(existing) : a.key # request.key
        /\ subnet = SubnetOf(tab["subnet"]) /\ used = Taken(tab, ToSet(existing))

\* It has been found, and the new file bears it.
Writing ==
    request.op = "add" /\ fpath # None =>
        /\ phase = "found" /\ fpath \in 10..LastPrefix /\ fpath \notin DOMAIN before
        /\ reply \notin Unsuccessful => folder = Authored
        /\ reply = "refused" => ~ Passes(Authored, request.env)

\* peer remove: the file that is gone held the key.
Removing ==
    request.op = "remove" /\ fpath # None =>
        /\ Known
        /\ fpath \in DOMAIN before
        /\ reply \notin Unsuccessful => folder = Without(before, fpath)
        /\ \E m \in DOMAIN PartsOf(before, request.env) :
            /\ Holds(PartsOf(before, request.env)[m], request.key)
            /\ PartsOf(before, request.env)[m].path = fpath

\* The folder that stays has passed the check.
Passed ==
    /\ pc = "compile" \/ reply \in {"added", "removed"} =>
        fpath # None /\ Passes(folder, request.env) /\ assigns = PeersOf(folder, request.env)
    /\ reply = "added" => request.op = "add"
    /\ reply = "removed" => request.op = "remove"

EditInv == Reading /\ Adding /\ Writing /\ Removing /\ Passed

LEMMA NewPartialIs == NewPartial = NewLines(request.label, request.key, host)
    BY DEF NewPartial, NewLines, NewBlock

\* What all functions but a few leave alone.
Subject == <<before, request, fpath, existing, walk>>

\* A way on that only moves between the functions.
LEMMA EditMoves ==
    ASSUME EditInv, UNCHANGED <<Subject, folder, assigns, reply>>,
           pc' # "compile", pc' # "walk", reply = "none", Reading'
    PROVE  EditInv'
<1>1. UNCHANGED <<before, request, fpath, existing, phase, subnet, used, host>>
    BY DEF Subject, walk
<1>2. Known' = Known /\ Authored' = Authored
    BY <1>1 DEF Known, Authored
<1>3. Adding'
    BY <1>1, <1>2 DEF EditInv, Adding
<1>4. Writing'
    BY <1>1, <1>2 DEF EditInv, Writing
<1>5. Removing'
    BY <1>1, <1>2 DEF EditInv, Removing
<1>6. Passed'
    BY DEF Passed
<1> QED
    BY <1>3, <1>4, <1>5, <1>6 DEF EditInv

\* An error return: the folder that the add has made did not pass.
LEMMA EditReturns ==
    ASSUME EditInv, NEW r \in {"refused", "failed"}, Return(r), reply = "none",
           r = "refused" /\ request.op = "add" /\ fpath # None => ~ Passes(folder, request.env)
    PROVE  EditInv'
<1>1. UNCHANGED <<before, request, fpath, existing, phase, subnet, used, host>>
      /\ pc' = "done" /\ reply' = r
    BY DEF Return, given, network, peers, walk
<1>2. Known' = Known /\ Authored' = Authored
    BY <1>1 DEF Known, Authored
<1>3. Adding'
    BY <1>1, <1>2 DEF EditInv, Adding
<1>4. Writing'
    BY <1>1, <1>2 DEF EditInv, Writing, Unsuccessful
<1>5. Removing'
    BY <1>1, <1>2 DEF EditInv, Removing, Unsuccessful
<1>6. Passed'
    BY <1>1 DEF Passed
<1>7. Reading'
    BY <1>1 DEF Reading
<1> QED
    BY <1>3, <1>4, <1>5, <1>6, <1>7 DEF EditInv

\* Nothing to do.
LEMMA EditAnswers ==
    ASSUME EditInv, FolderInv, pc \in {"decide", "find"},
           NEW r \in {"present", "absent"}, Answer(r), UNCHANGED walk
    PROVE  EditInv'
<1>1. UNCHANGED <<before, request, folder, fpath, existing, phase, subnet, used, host>>
      /\ pc' = "done" /\ reply' = r
    BY DEF Answer, given, disk, peers, walk
<1>2. fpath = None
    BY DEF FolderInv
<1> QED
    BY <1>1, <1>2 DEF EditInv, Reading, Adding, Writing, Removing, Passed

LEMMA DecideKeeps ==
    ASSUME EditInv, FolderInv, Decide
    PROVE  EditInv'
<1>1. /\ pc = "decide" /\ fpath = None /\ folder = before /\ request.op = "add" /\ reply = "none"
      /\ Reads(folder, request.env) /\ partials = PartsOf(folder, request.env)
      /\ table = TabOf(folder, request.env)
    BY DEF Decide, FolderInv, EditInv, Reading
<1>2. CASE Refuse
    BY <1>1, <1>2, EditReturns DEF Refuse
<1>3. CASE Answer("present") /\ UNCHANGED walk
    BY <1>1, <1>3, EditAnswers
<1>4. CASE ~ Refuse /\ ~ Answer("present")
    <2>1. /\ table["subnet"] \in Cidr /\ table["address"] \in Cidr
          /\ ~ Collected(partials).bad
          /\ \A a \in ToSet(Collected(partials).out) : a.key # request.key
          /\ Begin(SubnetOf(table["subnet"]), Taken(table, ToSet(Collected(partials).out)))
          /\ existing' = Collected(partials).out
          /\ pc' = "walk"
          /\ UNCHANGED <<given, disk, network, assigns, output>>
        BY <1>4 DEF Decide
    <2>2. UNCHANGED <<before, request, folder, fpath, reply>>
        BY <2>1 DEF given, disk, output
    <2>3. subnet' = SubnetOf(table["subnet"]) /\ used' = Taken(table, ToSet(existing'))
        BY <2>1 DEF Begin
    <2>4. Known'
        BY <1>1, <2>1, <2>2 DEF Known, Broken, PeersOf
    <2>5. Adding'
        BY <1>1, <2>1, <2>2, <2>3, <2>4 DEF Adding
    <2>6. Reading' /\ Writing' /\ Removing' /\ Passed'
        BY <1>1, <2>1, <2>2 DEF Reading, Writing, Removing, Passed
    <2> QED
        BY <2>5, <2>6 DEF EditInv
<1>5. Answer("present") => UNCHANGED walk
    BY DEF Answer
<1> QED
    BY <1>2, <1>3, <1>4, <1>5

LEMMA FindKeeps ==
    ASSUME EditInv, FolderInv, Find
    PROVE  EditInv'
<1>1. /\ pc = "find" /\ fpath = None /\ folder = before /\ request.op = "remove" /\ reply = "none"
      /\ Reads(folder, request.env) /\ partials = PartsOf(folder, request.env)
    BY DEF Find, FolderInv, EditInv, Reading
<1>2. CASE Refuse
    BY <1>1, <1>2, EditReturns DEF Refuse
<1>3. CASE Answer("absent")
    BY <1>1, <1>3, EditAnswers DEF Answer
<1>4. CASE Fail
    BY <1>1, <1>4, EditReturns DEF Fail
<1>5. CASE ~ Refuse /\ ~ Answer("absent") /\ ~ Fail
    <2>1. PICK m \in DOMAIN partials :
            /\ ~ Collected(partials).bad
            /\ IsFirstFile(partials, m, request.key) /\ Delete(partials[m].path)
        BY <1>5 DEF Find
    <2>2. /\ partials[m].path \in DOMAIN folder /\ fpath' = partials[m].path
          /\ folder' = Without(folder, fpath')
          /\ pc' = "vars"
          /\ existing' = Collected(partials).out
          /\ UNCHANGED <<before, request, reply>>
        BY <1>5, <2>1 DEF Delete, given, output
    <2>3. Holds(partials[m], request.key)
        BY <2>1 DEF IsFirstFile
    <2>4. Known'
        BY <1>1, <2>1, <2>2 DEF Known, Broken, PeersOf
    <2>5. Removing'
        BY <1>1, <2>1, <2>2, <2>3, <2>4 DEF Removing
    <2>6. Reading' /\ Adding' /\ Writing' /\ Passed'
        BY <1>1, <2>2 DEF Reading, Adding, Writing, Passed
    <2> QED
        BY <2>5, <2>6 DEF EditInv
<1> QED
    BY <1>2, <1>3, <1>4, <1>5

LEMMA AuthorEdits ==
    ASSUME EditInv, FolderInv, Author
    PROVE  EditInv'
<1>1. pc = "walk" /\ phase = "found" /\ fpath = None /\ folder = before
      /\ request.op = "add" /\ reply = "none"
    BY DEF Author, FolderInv
<1>2. CASE Fail
    BY <1>1, <1>2, EditReturns DEF Fail
<1>3. CASE ~ Fail
    <2>1. PICK highest \in OrderPrefixes(folder) :
            /\ IsHighest(folder, highest)
            /\ fpath' = highest + 10
            /\ folder' = With(folder, fpath', NewPartial)
            /\ pc' = "vars"
            /\ UNCHANGED <<given, saved, network, peers, output, walk>>
        BY <1>3 DEF Author
    <2>2. UNCHANGED <<before, request, existing, assigns, reply, phase, subnet, used, host>>
        BY <2>1 DEF given, peers, output, walk
    <2>3. DOMAIN folder \subseteq OldName
        BY <1>1 DEF FolderInv
    <2>4. highest \in Nat /\ highest + 10 \in FileName
        BY <2>3, RoomForOne
    <2>5. highest + 10 \in 10..LastPrefix
        BY <2>4 DEF FileName, Unnumbered, LastPrefix
    <2>6. highest + 10 \notin DOMAIN folder
        <3> SUFFICES ASSUME highest + 10 \in DOMAIN folder PROVE FALSE
            OBVIOUS
        <3>1. highest + 10 \in OrderPrefixes(folder)
            BY <2>4 DEF OrderPrefixes, Unnumbered
        <3>2. highest + 10 <= highest
            BY <2>1, <3>1 DEF IsHighest
        <3> QED
            BY <3>2, <2>4
    <2>7. folder' = Authored'
        BY <1>1, <2>1, <2>2, NewPartialIs DEF Authored
    <2>8. Writing'
        BY <1>1, <2>1, <2>2, <2>5, <2>6, <2>7 DEF Writing
    <2>9. Known' = Known
        BY <2>2 DEF Known
    <2>10. Adding'
        BY <1>1, <2>2, <2>9 DEF EditInv, Adding
    <2>11. Reading' /\ Removing' /\ Passed'
        BY <1>1, <2>1, <2>2 DEF Reading, Removing, Passed
    <2> QED
        BY <2>8, <2>10, <2>11 DEF EditInv
<1> QED
    BY <1>2, <1>3

\* A function that reads the folder: the refusals are for what it holds.
LEMMA LoadKeeps ==
    ASSUME EditInv, FolderInv, LoadVars \/ LoadPartials \/ Check
    PROVE  EditInv'
<1>1. reply = "none"
    BY DEF FolderInv, LoadVars, LoadPartials, Check
<1>2. CASE Refuse
    <2>1. ~ Passes(folder, request.env)
        <3>1. CASE LoadVars /\ Misplaced(folder, request.env)
            BY <3>1 DEF Passes, Reads
        <3>2. CASE LoadVars /\ ~ Misplaced(folder, request.env)
            BY <1>2, <3>2 DEF LoadVars, Refuse, Return
        <3>3. CASE LoadPartials
            <4>1. table = TabOf(folder, request.env)
                BY <3>3 DEF LoadPartials, EditInv, Reading
            <4>2. \E f \in DOMAIN folder : \E l \in ToSet(folder[f]) : Undefined(l, table)
                BY <1>2, <3>3 DEF LoadPartials, Refuse, Return
            <4> QED
                BY <4>1, <4>2 DEF Passes, Reads
        <3>4. CASE Check
            <4>1. table = TabOf(folder, request.env) /\ partials = PartsOf(folder, request.env)
                BY <3>4 DEF Check, EditInv, Reading
            <4>2. ~ Accepts(partials, table)
                BY <1>2, <3>4 DEF Check, Refuse, Return
            <4> QED
                BY <4>1, <4>2 DEF Passes
        <3> QED
            BY <3>1, <3>2, <3>3, <3>4
    <2> QED
        BY <1>1, <1>2, <2>1, EditReturns DEF Refuse
<1>3. CASE LoadVars /\ ~ Refuse
    <2>1. /\ ~ Misplaced(folder, request.env) /\ table' = TabOf(folder, request.env)
          /\ pc' = "partials"
          /\ UNCHANGED <<given, disk, partials, peers, output, walk>>
        BY <1>3 DEF LoadVars, TabOf
    <2>2. UNCHANGED <<Subject, folder, assigns, reply>>
        BY <2>1 DEF Subject, given, disk, peers, output
    <2>3. Reading'
        BY <2>1, <2>2 DEF Reading, Subject
    <2> QED
        BY <1>1, <2>1, <2>2, <2>3, EditMoves
<1>4. CASE LoadPartials /\ ~ Refuse
    <2>1. /\ \A f \in DOMAIN folder : \A l \in ToSet(folder[f]) : ~ Undefined(l, table)
          /\ partials' = Loaded(folder, table)
          /\ pc' = IF fpath # None THEN "check" ELSE IF request.op = "add" THEN "decide" ELSE "find"
          /\ UNCHANGED <<given, disk, table, peers, output, walk>>
        BY <1>4 DEF LoadPartials
    <2>2. UNCHANGED <<Subject, folder, assigns, reply>>
        BY <2>1 DEF Subject, given, disk, peers, output
    <2>3. ~ Misplaced(folder, request.env) /\ table = TabOf(folder, request.env)
        BY <1>4 DEF LoadPartials, EditInv, Reading
    <2>4. Reads(folder, request.env) /\ partials' = PartsOf(folder, request.env)
        BY <2>1, <2>3 DEF Reads, PartsOf
    <2>5. Reading'
        BY <2>1, <2>2, <2>3, <2>4 DEF Reading, Subject
    <2> QED
        BY <1>1, <2>1, <2>2, <2>5, EditMoves
<1>5. CASE Check /\ ~ Refuse
    <2>1. /\ Accepts(partials, table) /\ assigns' = Collected(partials).out /\ pc' = "compile"
          /\ UNCHANGED <<given, disk, network, existing, output, walk>>
        BY <1>5 DEF Check
    <2>2. UNCHANGED <<before, request, existing, fpath, folder, reply, phase, subnet, used, host>>
        BY <2>1 DEF given, disk, output, walk
    <2>3. /\ Reads(folder, request.env) /\ partials = PartsOf(folder, request.env)
          /\ table = TabOf(folder, request.env) /\ fpath # None
        BY <1>5 DEF Check, EditInv, Reading
    <2>4. Passed'
        BY <1>1, <2>1, <2>2, <2>3 DEF Passed, Passes, PeersOf
    <2>5. Known' = Known /\ Authored' = Authored
        BY <2>2 DEF Known, Authored
    <2>6. Reading'
        BY <2>1 DEF Reading
    <2>7. Adding'
        BY <2>1, <2>2, <2>5 DEF EditInv, Adding
    <2>8. Writing'
        BY <2>1, <2>2, <2>5 DEF EditInv, Writing
    <2>9. Removing'
        BY <2>1, <2>2, <2>5 DEF EditInv, Removing
    <2> QED
        BY <2>4, <2>6, <2>7, <2>8, <2>9 DEF EditInv
<1> QED
    BY <1>2, <1>3, <1>4, <1>5

LEMMA CompileEdits ==
    ASSUME EditInv, FolderInv, Compile
    PROVE  EditInv'
<1>1. reply = "none" /\ pc = "compile" /\ request.op \in {"add", "remove"}
    BY DEF FolderInv, Compile
<1>2. CASE Fail
    BY <1>1, <1>2, EditReturns DEF Fail
<1>3. CASE ~ Fail
    <2>1. /\ pc' = "done" /\ reply' = IF request.op = "add" THEN "added" ELSE "removed"
          /\ UNCHANGED <<given, disk, network, peers, walk>>
        BY <1>3 DEF Compile
    <2>2. UNCHANGED <<before, request, existing, assigns, fpath, folder, phase, subnet, used, host>>
        BY <2>1 DEF given, disk, peers, walk
    <2>3. Known' = Known /\ Authored' = Authored
        BY <2>2 DEF Known, Authored
    <2>4. Reading'
        BY <2>1 DEF Reading
    <2>5. Adding'
        BY <2>1, <2>2, <2>3 DEF EditInv, Adding
    <2>6. Writing'
        BY <1>1, <2>1, <2>2, <2>3 DEF EditInv, Writing, Unsuccessful
    <2>7. Removing'
        BY <1>1, <2>1, <2>2, <2>3 DEF EditInv, Removing, Unsuccessful
    <2>8. Passed'
        BY <1>1, <2>1, <2>2 DEF EditInv, Passed
    <2> QED
        BY <2>4, <2>5, <2>6, <2>7, <2>8 DEF EditInv
<1> QED
    BY <1>2, <1>3

LEMMA WalkEdits ==
    ASSUME EditInv, FolderInv, Walk
    PROVE  EditInv'
<1>1. /\ pc = "walk" /\ fpath = None /\ reply = "none"
      /\ UNCHANGED command /\ UNCHANGED <<subnet, used>>
    BY DEF Walk, FolderInv, Take, Step
<1>2. UNCHANGED <<before, request, existing, assigns, fpath, folder, reply, pc>>
    BY <1>1 DEF command, given, disk, peers, output
<1>3. Known' = Known
    BY <1>2 DEF Known
<1>4. Adding'
    BY <1>1, <1>2, <1>3 DEF EditInv, Adding
<1>5. Reading' /\ Writing' /\ Removing' /\ Passed'
    BY <1>1, <1>2 DEF Reading, Writing, Removing, Passed
<1> QED
    BY <1>4, <1>5 DEF EditInv

\* The invariant, function by function.
LEMMA EditInvHolds == Spec => []EditInv
<1>1. Init => EditInv
    <2> SUFFICES ASSUME Init PROVE EditInv
        OBVIOUS
    <2>1. pc = "vars" /\ fpath = None /\ reply = "none"
        BY DEF Init
    <2> QED
        BY <2>1 DEF EditInv, Reading, Adding, Writing, Removing, Passed
<1>2. EditInv /\ FolderInv /\ [Next]_vars => EditInv'
    <2> SUFFICES ASSUME EditInv, FolderInv, [Next]_vars PROVE EditInv'
        OBVIOUS
    <2>1. CASE Full
        <3>1. pc = "walk" /\ fpath = None /\ reply = "none" /\ Return("refused")
            BY <2>1 DEF Full, Refuse, FolderInv
        <3> QED
            BY <3>1, EditReturns
    <2>2. CASE UNCHANGED vars \/ Ended
        <3>1. UNCHANGED <<before, request, existing, assigns, fpath, folder, reply, pc, table,
                          partials, phase, subnet, used, host>>
            BY <2>2 DEF Ended, vars, command, given, disk, network, peers, output, walk
        <3>2. Known' = Known /\ Authored' = Authored
            BY <3>1 DEF Known, Authored
        <3>3. Reading'
            BY <3>1 DEF EditInv, Reading
        <3>4. Adding'
            BY <3>1, <3>2 DEF EditInv, Adding
        <3>5. Writing'
            BY <3>1, <3>2 DEF EditInv, Writing
        <3>6. Removing'
            BY <3>1, <3>2 DEF EditInv, Removing
        <3>7. Passed'
            BY <3>1 DEF EditInv, Passed
        <3> QED
            BY <3>3, <3>4, <3>5, <3>6, <3>7 DEF EditInv
    <2> QED
        BY <2>1, <2>2, LoadKeeps, DecideKeeps, FindKeeps, WalkEdits, AuthorEdits, CompileEdits
           DEF Next, Function
<1> QED
    BY <1>1, <1>2, FolderInvHolds, PTL DEF Spec

\* The folder that an add has made.
LEMMA AuthoredIs ==
    ASSUME EditInv, TextInv, WalkInv, request.op = "add", fpath # None
    PROVE  /\ Dir(Authored) /\ Grown(before, Authored, fpath)
           /\ Authored[fpath] = NewLines(request.label, request.key, host)
           /\ host \in Word
<1>1. phase = "found" /\ fpath \in 10..LastPrefix /\ fpath \notin DOMAIN before
    BY DEF EditInv, Writing
<1>2. fpath \in FileName
    BY <1>1 DEF FileName
<1>3. Lines(NewLines(request.label, request.key, host))
    BY <1>1, NewPartialIsLines, NewPartialIs
<1>4. Dir(Authored)
    BY <1>2, <1>3, WithIsDir DEF Authored, TextInv
<1>5. Grown(before, Authored, fpath)
    BY <1>1, <1>2 DEF Authored, With, Grown
<1>6. Authored[fpath] = NewLines(request.label, request.key, host)
    BY DEF Authored, With
<1>7. host \in Word
    BY <1>1 DEF WalkInv, HostsOf
<1> QED
    BY <1>4, <1>5, <1>6, <1>7

\* RoundTrip for every folder and every request, whatever lines its label has:
\* what render_peer_partial writes, load_partials and collect_assignments read
\* back in one row that ends with the new peer; under a label of one line it is
\* the only one there.
THEOREM AddReadsBack == Spec => []RoundTrip
<1>1. EditInv /\ TextInv /\ WalkInv => RoundTrip
    <2> SUFFICES ASSUME EditInv, TextInv, WalkInv, reply = "added"
                 PROVE  RoundTrip
        BY DEF RoundTrip
    <2>1. /\ request.op = "add" /\ fpath # None
          /\ Passes(folder, request.env) /\ assigns = PeersOf(folder, request.env)
        BY DEF EditInv, Passed
    <2>2. /\ Reads(before, request.env) /\ existing = PeersOf(before, request.env)
          /\ TabOf(before, request.env)["subnet"] \in Cidr
        BY <2>1 DEF EditInv, Adding, Known
    <2>3. folder = Authored
        BY <2>1 DEF EditInv, Writing, Unsuccessful
    <2>4. /\ Dir(before) /\ Dir(folder) /\ Grown(before, folder, fpath)
          /\ folder[fpath] = NewLines(request.label, request.key, host)
          /\ host \in Word /\ request.key \in Key
        BY <2>1, <2>3, AuthoredIs DEF TextInv
    <2>5. Reads(folder, request.env) /\ ~ Broken(folder, request.env)
        BY <2>1, AcceptsIs DEF Passes, Broken
    <2> DEFINE label == request.label
               tab == TabOf(before, request.env)
    <2>6. label \in Seq(ToSet(label)) /\ label[1].t = "name"
        BY DEF TextInv, Lines
    <2>7. PICK i \in 0..Len(assigns) : \E j \in i..Len(assigns) :
                /\ CutAt(existing, assigns, fpath, i, j)
                /\ EndsWith(assigns, i, j, request.key, host)
                /\ Len(label) = 1 =>
                        j = i + 1 /\ assigns[j].name = ReadName(Substituted(label[1], tab).val)
        BY <2>1, <2>2, <2>4, <2>5, <2>6, AddedIs
    <2>8. PICK j \in i..Len(assigns) :
                /\ CutAt(existing, assigns, fpath, i, j)
                /\ EndsWith(assigns, i, j, request.key, host)
                /\ Len(label) = 1 =>
                        j = i + 1 /\ assigns[j].name = ReadName(Substituted(label[1], tab).val)
        BY <2>7
    <2>9. label[1].ref = None => Substituted(label[1], tab).val = label[1].val
        BY <2>6 DEF Substituted
    <2> HIDE DEF tab
    <2>10. j \in (i + 1)..Len(assigns)
        BY <2>8 DEF EndsWith
    <2> QED
        BY <2>8, <2>9, <2>10 DEF RoundTrip, PlainLabel, CutAt, EndsWith
<1> QED
    BY <1>1, EditInvHolds, TextInvHolds, WalkInvHolds, PTL

\* RemoveExact for every folder and every request: the peers of the one file
\* stand in a row, the others keep their order, and the key is gone with them
\* unless it stood twice.
THEOREM RemoveTakesOneFile == Spec => []RemoveExact
<1>1. EditInv /\ TextInv => RemoveExact
    <2> SUFFICES ASSUME EditInv, TextInv, reply = "removed"
                 PROVE  RemoveExact
        BY DEF RemoveExact
    <2>1. /\ request.op = "remove" /\ fpath # None
          /\ Passes(folder, request.env) /\ assigns = PeersOf(folder, request.env)
        BY DEF EditInv, Passed
    <2>2. /\ Reads(before, request.env) /\ ~ Broken(before, request.env)
          /\ existing = PeersOf(before, request.env)
          /\ fpath \in DOMAIN before /\ folder = Without(before, fpath)
        BY <2>1 DEF EditInv, Removing, Known, Unsuccessful
    <2>3. PICK m \in DOMAIN PartsOf(before, request.env) :
            /\ Holds(PartsOf(before, request.env)[m], request.key)
            /\ PartsOf(before, request.env)[m].path = fpath
        BY <2>1 DEF EditInv, Removing
    <2>4. Dir(before) /\ Dir(folder)
        BY DEF TextInv
    <2>5. Grown(folder, before, fpath)
        BY <2>2, <2>4 DEF Without, Grown, Dir
    <2>6. Reads(folder, request.env) /\ TabOf(folder, request.env)["subnet"] \in Cidr
        BY <2>1, AcceptsIs DEF Passes
    <2>7. /\ Cut(assigns, existing, fpath)
          /\ \A y \in ToSet(assigns) : y.key = request.key =>
                \E i, j \in DOMAIN existing :
                    i # j /\ existing[i].key = request.key /\ existing[j].key = request.key
        BY <2>1, <2>2, <2>3, <2>4, <2>5, <2>6, RemovedIs
    <2> QED
        BY <2>7 DEF Cut, CutAt, RemoveExact
<1> QED
    BY <1>1, EditInvHolds, TextInvHolds, PTL

\* "The file that sorts first in a network folder, i.e. 00-main.conf"
\* (vars.h:18): its prefix is below those that next_peer_filename chooses.
MainFirst == \A c \in Cases : \E f \in DOMAIN c.folder : f \in 0..9

LEMMA MainStays == MainFirst => (Spec => [](\E f \in DOMAIN before : f \in 0..9))
<1> SUFFICES ASSUME MainFirst PROVE Spec => [](\E f \in DOMAIN before : f \in 0..9)
    OBVIOUS
<1> DEFINE Main == \E f \in DOMAIN before : f \in 0..9
<1>1. Init => Main
    BY DEF Init, MainFirst
<1>2. Main /\ [Next]_vars => Main'
    BY DEF Next, Function, LoadVars, LoadPartials, Decide, Find, Walk, Full, Author,
           Check, Compile, Ended, Refuse, Fail, Return, Answer, Delete, command, vars, given
<1> QED
    BY <1>1, <1>2, PTL DEF Spec

\* FailsForCause for every request with a plain label and every folder with its
\* 00-main.conf: a peer with a new key and a free address is no reason to refuse
\* the folder.
THEOREM RefusesForCause == MainFirst => (Spec => []FailsForCause)
<1> SUFFICES ASSUME MainFirst PROVE Spec => []FailsForCause
    OBVIOUS
<1> DEFINE Main == \E f \in DOMAIN before : f \in 0..9
<1>1. EditInv /\ TextInv /\ WalkInv /\ FolderInv /\ Main => FailsForCause
    <2> SUFFICES ASSUME EditInv, TextInv, WalkInv, FolderInv, Main,
                        reply = "refused", request.op = "add", fpath # None,
                        PlainLabel,
                        Accepts(PartsOf(before, request.env), TabOf(before, request.env))
                 PROVE  FALSE
        BY DEF FailsForCause, FolderInv, Unsuccessful, PartsOf, TabOf
    <2> DEFINE tab == TabOf(before, request.env)
               label == request.label[1]
    <2>1. /\ Reads(before, request.env) /\ existing = PeersOf(before, request.env)
          /\ \A a \in ToSet(existing) : a.key # request.key
          /\ subnet = SubnetOf(tab["subnet"]) /\ used = Taken(tab, ToSet(existing))
        BY DEF EditInv, Adding, Known
    <2>2. /\ phase = "found" /\ fpath \in 10..LastPrefix /\ fpath \notin DOMAIN before
          /\ ~ Passes(Authored, request.env)
        BY DEF EditInv, Writing
    <2>3. /\ Dir(before) /\ Dir(Authored) /\ Grown(before, Authored, fpath)
          /\ Authored[fpath] = NewLines(<<label>>, request.key, host)
          /\ host \in Word /\ request.key \in Key /\ label.t = "name" /\ label.ref = None
        <3>1. request.label \in Seq(ToSet(request.label)) /\ Len(request.label) = 1
            BY DEF TextInv, Lines, PlainLabel
        <3>2. request.label = <<label>>
            BY <3>1
        <3> QED
            BY <3>2, AuthoredIs DEF TextInv, PlainLabel
    <2> HIDE DEF label
    <2>4. Welcome(request.key, host, PeersOf(before, request.env), tab)
        <3>1. host \in HostsOf(subnet) /\ host \notin used
            BY <2>2 DEF WalkInv
        <3> QED
            BY <2>1, <3>1 DEF Welcome, Taken
    <2>5. Place(Authored, fpath) # 1
        <3>1. PICK f \in DOMAIN before : f \in 0..9
            OBVIOUS
        <3>2. Precedes(f, fpath)
            BY <2>2, <3>1 DEF Precedes, Unnumbered, Scaled, Digits, LastPrefix
        <3>3. /\ IsFiniteSet(DOMAIN before) /\ DOMAIN before \subseteq FileName
              /\ fpath \in FileName /\ DOMAIN Authored = DOMAIN before \cup {fpath}
            BY <2>3 DEF Dir, Grown
        <3> QED
            BY <2>2, <3>2, <3>3, ListingWith
    <2>6. Reads(Authored, request.env)
        BY <2>1, <2>3, <2>5, StillReads
    <2>7. Accepts(PartsOf(Authored, request.env), TabOf(Authored, request.env))
        BY <2>1, <2>3, <2>4, <2>5, StillAccepts
    <2> QED
        BY <2>2, <2>6, <2>7 DEF Passes
<1>2. Spec => []Main
    BY MainStays
<1> QED
    BY <1>1, <1>2, EditInvHolds, TextInvHolds, WalkInvHolds, FolderInvHolds, PTL
=============================================================================
