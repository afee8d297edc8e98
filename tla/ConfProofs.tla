----------------------------- MODULE ConfProofs -----------------------------
(***************************************************************************)
(* Theorem about Sources for every folder and every request: after a         *)
(* successful add or remove, WireGuard reads from the compiled conf the      *)
(* peers that the scan of the folder lists.                                 *)
(*                                                                          *)
(* The scan goes through the lines of one file at a time and remembers the   *)
(* block that is open; WireGuard sees the lines of all files in a row, with  *)
(* the private key put in.  Both find the same where the files are tidy: a   *)
(* block may go on in the next file, but takes no key or address from it.    *)
(***************************************************************************)
EXTENDS EditProofs

(***************************************************************************)
(* The peers of a conf.                                                     *)
(***************************************************************************)
\* The block that begins at b has its key at i and its address at j.
Pair(lines, b, i, j) ==
    /\ b \in DOMAIN lines /\ lines[b].t = "peer"
    /\ i \in Block(lines, b) /\ lines[i].t = "key"
    /\ j \in Block(lines, b) /\ lines[j].t = "ips"
Entry(lines, i, j) == <<lines[i].val, lines[j].val.addr>>

LEMMA PeersAre ==
    ASSUME NEW lines, NEW p
    PROVE  p \in Peers(lines) <=> \E b, i, j : Pair(lines, b, i, j) /\ p = Entry(lines, i, j)
<1> DEFINE in(b, t) == {lines[j].val : j \in {k \in Block(lines, b) : lines[k].t = t}}
           blocks == {b \in DOMAIN lines : lines[b].t = "peer"}
           of(b) == {<<k, c.addr>> : k \in in(b, "key"), c \in in(b, "ips")}
<1>1. Peers(lines) = UNION {of(b) : b \in blocks}
    BY DEF Peers
<1>2. ASSUME NEW b, NEW i, NEW j, Pair(lines, b, i, j), p = Entry(lines, i, j)
      PROVE  p \in Peers(lines)
    <2>1. p \in of(b) /\ b \in blocks
        BY <1>2 DEF Pair, Entry
    <2> HIDE DEF of, blocks
    <2> QED
        BY <1>1, <2>1
<1>3. ASSUME p \in Peers(lines)
      PROVE  \E b, i, j : Pair(lines, b, i, j) /\ p = Entry(lines, i, j)
    <2>1. PICK b \in blocks : p \in of(b)
        <3> HIDE DEF of, blocks
        <3> QED
            BY <1>1, <1>3
    <2>2. PICK i \in Block(lines, b), j \in Block(lines, b) :
                lines[i].t = "key" /\ lines[j].t = "ips" /\ p = Entry(lines, i, j)
        BY <2>1 DEF Entry
    <2>3. Pair(lines, b, i, j)
        BY <2>1, <2>2 DEF Pair
    <2> QED
        BY <2>2, <2>3
<1> QED
    BY <1>2, <1>3

LEMMA BlockIs ==
    ASSUME NEW n \in Nat, NEW lines, Len(lines) = n, NEW b \in 1..n, NEW i
    PROVE  i \in Block(lines, b) <=>
                /\ i \in 1..n /\ b < i
                /\ \A k \in 1..n : b < k /\ k <= i => lines[k].t \notin Headers
<1>1. (b + 1)..n = {k \in 1..n : b < k}
    OBVIOUS
<1>2. \A j \in 1..n : (b + 1)..j = {k \in 1..n : b < k /\ k <= j}
    OBVIOUS
<1> QED
    BY <1>1, <1>2 DEF Block

\* One sequence after the other: no block of the first goes on in the second
\* if all keys and addresses of the second are in its own blocks.
LEMMA JoinPeers ==
    ASSUME NEW U, NEW s \in Seq(U), NEW t \in Seq(U), Tidy(t)
    PROVE  Peers(s \o t) = Peers(s) \cup Peers(t)
<1> DEFINE n == Len(s)
           m == Len(t)
           r == s \o t
<1>1. /\ n \in Nat /\ m \in Nat /\ Len(r) = n + m
      /\ DOMAIN s = 1..n /\ DOMAIN t = 1..m /\ DOMAIN r = 1..(n + m)
      /\ \A i \in 1..n : r[i] = s[i]
      /\ \A i \in 1..m : r[n + i] = t[i]
    OBVIOUS
<1> HIDE DEF r, n, m
<1>2. \A b, i : b \in 1..n => (i \in Block(s, b) <=>
            i \in 1..n /\ b < i /\ \A k \in 1..n : b < k /\ k <= i => s[k].t \notin Headers)
    BY <1>1, BlockIs DEF n
<1>3. \A b, i : b \in 1..m => (i \in Block(t, b) <=>
            i \in 1..m /\ b < i /\ \A k \in 1..m : b < k /\ k <= i => t[k].t \notin Headers)
    BY <1>1, BlockIs DEF m
<1>4. \A b, i : b \in 1..(n + m) => (i \in Block(r, b) <=>
            i \in 1..(n + m) /\ b < i
            /\ \A k \in 1..(n + m) : b < k /\ k <= i => r[k].t \notin Headers)
    <2>1. n + m \in Nat /\ Len(r) = n + m
        BY <1>1
    <2> QED
        BY <2>1, BlockIs
<1>5. ASSUME NEW b \in 1..n, NEW i \in Block(s, b) PROVE i \in Block(r, b) /\ r[i] = s[i]
    <2>1. i \in 1..n /\ b < i /\ \A k \in 1..n : b < k /\ k <= i => s[k].t \notin Headers
        BY <1>2, <1>5
    <2>2. ASSUME NEW k \in 1..(n + m), b < k, k <= i PROVE r[k].t \notin Headers
        <3>1. k \in 1..n
            BY <1>1, <2>1, <2>2
        <3> QED
            BY <1>1, <2>1, <2>2, <3>1
    <2>3. i \in 1..(n + m) /\ b \in 1..(n + m)
        BY <1>1, <2>1
    <2> QED
        BY <1>1, <1>4, <2>1, <2>2, <2>3
<1>6. ASSUME NEW b \in 1..m, NEW i \in Block(t, b)
      PROVE  n + i \in Block(r, n + b) /\ r[n + i] = t[i]
    <2>1. i \in 1..m /\ b < i /\ \A k \in 1..m : b < k /\ k <= i => t[k].t \notin Headers
        BY <1>3, <1>6
    <2>2. ASSUME NEW k \in 1..(n + m), n + b < k, k <= n + i PROVE r[k].t \notin Headers
        <3>1. k - n \in 1..m /\ n + (k - n) = k /\ b < k - n /\ k - n <= i
            BY <1>1, <2>1, <2>2
        <3>2. r[k] = t[k - n]
            BY <1>1, <3>1
        <3> QED
            BY <2>1, <3>1, <3>2
    <2>3. n + i \in 1..(n + m) /\ n + b \in 1..(n + m) /\ n + b < n + i
        BY <1>1, <2>1
    <2> QED
        BY <1>1, <1>4, <2>1, <2>2, <2>3
<1>7. ASSUME NEW b \in 1..n, NEW i \in Block(r, b), r[i].t \in {"key", "ips"}
      PROVE  i \in Block(s, b) /\ r[i] = s[i]
    <2>0. b \in 1..(n + m)
        BY <1>1
    <2>1. /\ i \in 1..(n + m) /\ b < i
          /\ \A k \in 1..(n + m) : b < k /\ k <= i => r[k].t \notin Headers
        BY <1>4, <1>7, <2>0
    <2>2. CASE i \in 1..n
        <3>1. \A k \in 1..n : k \in 1..(n + m) /\ r[k] = s[k]
            BY <1>1
        <3> QED
            BY <1>2, <2>1, <2>2, <3>1
    <2>3. CASE i \notin 1..n
        <3>1. i - n \in 1..m /\ n + (i - n) = i
            BY <1>1, <2>1, <2>3
        <3>2. t[i - n].t \in {"key", "ips"}
            BY <1>1, <1>7, <3>1
        <3>3. PICK c \in 1..((i - n) - 1) : t[c].t = "peer"
            BY <1>1, <3>1, <3>2 DEF Tidy
        <3>4. c \in 1..m /\ n + c \in 1..(n + m) /\ b < n + c /\ n + c <= i
            BY <1>1, <3>1
        <3>5. r[n + c].t = "peer"
            BY <1>1, <3>3, <3>4
        <3> QED
            BY <2>1, <3>4, <3>5 DEF Headers
    <2> QED
        BY <2>2, <2>3
<1>8. ASSUME NEW b \in 1..m, NEW i \in Block(r, n + b)
      PROVE  i - n \in Block(t, b) /\ r[i] = t[i - n]
    <2>0. n + b \in 1..(n + m)
        BY <1>1
    <2>1. /\ i \in 1..(n + m) /\ n + b < i
          /\ \A k \in 1..(n + m) : n + b < k /\ k <= i => r[k].t \notin Headers
        BY <1>4, <1>8, <2>0
    <2>2. i - n \in 1..m /\ n + (i - n) = i /\ b < i - n
        BY <1>1, <2>1
    <2>3. ASSUME NEW k \in 1..m, b < k, k <= i - n PROVE t[k].t \notin Headers
        <3>1. n + k \in 1..(n + m) /\ n + b < n + k /\ n + k <= i
            BY <1>1, <2>2, <2>3
        <3> QED
            BY <1>1, <2>1, <3>1
    <2> QED
        BY <1>1, <1>3, <2>2, <2>3
<1>9. ASSUME NEW p, p \in Peers(s) PROVE p \in Peers(r)
    <2>1. PICK b, i, j : Pair(s, b, i, j) /\ p = Entry(s, i, j)
        BY <1>9, PeersAre
    <2>2. Pair(r, b, i, j) /\ p = Entry(r, i, j)
        BY <1>1, <1>5, <2>1 DEF Pair, Entry
    <2> QED
        BY <2>2, PeersAre
<1>10. ASSUME NEW p, p \in Peers(t) PROVE p \in Peers(r)
    <2>1. PICK b, i, j : Pair(t, b, i, j) /\ p = Entry(t, i, j)
        BY <1>10, PeersAre
    <2>2. Pair(r, n + b, n + i, n + j) /\ p = Entry(r, n + i, n + j)
        BY <1>1, <1>6, <2>1 DEF Pair, Entry
    <2> QED
        BY <2>2, PeersAre
<1>11. ASSUME NEW p, p \in Peers(r) PROVE p \in Peers(s) \/ p \in Peers(t)
    <2>1. PICK b, i, j : Pair(r, b, i, j) /\ p = Entry(r, i, j)
        BY <1>11, PeersAre
    <2>2. CASE b \in 1..n
        <3>1. Pair(s, b, i, j) /\ p = Entry(s, i, j)
            BY <1>1, <1>7, <2>1, <2>2 DEF Pair, Entry
        <3> QED
            BY <3>1, PeersAre
    <2>3. CASE b \notin 1..n
        <3>1. b - n \in 1..m /\ n + (b - n) = b
            BY <1>1, <2>1, <2>3 DEF Pair
        <3>2. Pair(t, b - n, i - n, j - n) /\ p = Entry(t, i - n, j - n)
            BY <1>1, <1>8, <2>1, <3>1 DEF Pair, Entry
        <3> QED
            BY <3>2, PeersAre
    <2> QED
        BY <2>2, <2>3
<1> QED
    BY <1>9, <1>10, <1>11 DEF r

\* The first k lines stand in out in their order, up[i] is where the i-th does,
\* and what stands between them is private.
Spread(lines, k, out, up) ==
    /\ up \in [1..k -> 1..Len(out)]
    /\ \A i, j \in 1..k : i < j => up[i] < up[j]
    /\ \A i \in 1..k : out[up[i]] = lines[i]
    /\ \A q \in 1..Len(out) : out[q].t = "private" \/ \E i \in 1..k : up[i] = q

\* Private lines change no block.
LEMMA SpreadPeers ==
    ASSUME NEW U, NEW lines \in Seq(U), NEW V, NEW out \in Seq(V),
           NEW up, Spread(lines, Len(lines), out, up)
    PROVE  Peers(out) = Peers(lines)
<1> DEFINE n == Len(lines)
           m == Len(out)
<1>1. n \in Nat /\ m \in Nat /\ DOMAIN lines = 1..n /\ DOMAIN out = 1..m
    OBVIOUS
<1> HIDE DEF n, m
<1>2. /\ up \in [1..n -> 1..m]
      /\ \A i, j \in 1..n : i < j => up[i] < up[j]
      /\ \A i \in 1..n : out[up[i]] = lines[i]
      /\ \A q \in 1..m : out[q].t = "private" \/ \E i \in 1..n : up[i] = q
    BY DEF Spread, n, m
<1>3. \A i, j \in 1..n : (up[i] < up[j] <=> i < j) /\ (up[i] <= up[j] <=> i <= j)
    <2> TAKE i, j \in 1..n
    <2>1. i \in Int /\ j \in Int /\ up[i] \in Int /\ up[j] \in Int
        BY <1>1, <1>2
    <2>2. (i < j => up[i] < up[j]) /\ (j < i => up[j] < up[i]) /\ (i = j => up[i] = up[j])
        BY <1>2
    <2> QED
        BY <2>1, <2>2
<1>4. ASSUME NEW b \in 1..n, NEW i \in 1..n
      PROVE  up[i] \in Block(out, up[b]) <=> i \in Block(lines, b)
    <2>1. up[b] \in 1..m /\ up[i] \in 1..m
        BY <1>2
    <2>2. up[i] \in Block(out, up[b]) <=>
            /\ up[b] < up[i]
            /\ \A q \in 1..m : up[b] < q /\ q <= up[i] => out[q].t \notin Headers
        BY <1>1, <2>1, BlockIs DEF m
    <2>3. i \in Block(lines, b) <=>
            b < i /\ \A k \in 1..n : b < k /\ k <= i => lines[k].t \notin Headers
        BY <1>1, BlockIs DEF n
    <2>4. (\A q \in 1..m : up[b] < q /\ q <= up[i] => out[q].t \notin Headers)
            <=> (\A k \in 1..n : b < k /\ k <= i => lines[k].t \notin Headers)
        <3>1. ASSUME \A q \in 1..m : up[b] < q /\ q <= up[i] => out[q].t \notin Headers,
                     NEW k \in 1..n, b < k, k <= i
              PROVE  lines[k].t \notin Headers
            <4>1. up[k] \in 1..m /\ up[b] < up[k] /\ up[k] <= up[i] /\ out[up[k]] = lines[k]
                BY <1>2, <1>3, <3>1
            <4> QED
                BY <3>1, <4>1
        <3>2. ASSUME \A k \in 1..n : b < k /\ k <= i => lines[k].t \notin Headers,
                     NEW q \in 1..m, up[b] < q, q <= up[i]
              PROVE  out[q].t \notin Headers
            <4>1. CASE out[q].t = "private"
                BY <4>1 DEF Headers
            <4>2. CASE out[q].t # "private"
                <5>1. PICK k \in 1..n : up[k] = q
                    BY <1>2, <4>2
                <5>2. b < k /\ k <= i /\ out[q] = lines[k]
                    BY <1>2, <1>3, <3>2, <5>1
                <5> QED
                    BY <3>2, <5>2
            <4> QED
                BY <4>1, <4>2
        <3> QED
            BY <3>1, <3>2
    <2> QED
        BY <1>3, <2>2, <2>3, <2>4
<1>5. ASSUME NEW p, p \in Peers(lines) PROVE p \in Peers(out)
    <2>1. PICK b, i, j : Pair(lines, b, i, j) /\ p = Entry(lines, i, j)
        BY <1>5, PeersAre
    <2>2. b \in 1..n /\ i \in 1..n /\ j \in 1..n
        BY <1>1, <2>1, BlockIs DEF Pair, n
    <2>3. Pair(out, up[b], up[i], up[j]) /\ p = Entry(out, up[i], up[j])
        BY <1>1, <1>2, <1>4, <2>1, <2>2 DEF Pair, Entry
    <2> QED
        BY <2>3, PeersAre
<1>6. ASSUME NEW p, p \in Peers(out) PROVE p \in Peers(lines)
    <2>1. PICK b, i, j : Pair(out, b, i, j) /\ p = Entry(out, i, j)
        BY <1>6, PeersAre
    <2>2. b \in 1..m /\ i \in 1..m /\ j \in 1..m
        BY <1>1, <2>1, BlockIs DEF Pair, m
    <2>3. PICK c \in 1..n, k \in 1..n, l \in 1..n : up[c] = b /\ up[k] = i /\ up[l] = j
        BY <1>2, <2>1, <2>2 DEF Pair
    <2>4. Pair(lines, c, k, l) /\ p = Entry(lines, k, l)
        BY <1>1, <1>2, <1>4, <2>1, <2>3 DEF Pair, Entry
    <2> QED
        BY <2>4, PeersAre
<1> QED
    BY <1>5, <1>6

LEMMA EmitSpreads ==
    ASSUME NEW key, NEW V, NEW out \in Seq(V), NEW lines, NEW k \in Nat, NEW up,
           Spread(lines, k, out, up), lines[k + 1] \in V, Line("private", None) \in V
    PROVE  \E next : Spread(lines, k + 1, Emit(key, out, lines[k + 1]), next)
<1> DEFINE n == Len(out)
           l == lines[k + 1]
           new == Emit(key, out, l)
           next == [i \in 1..(k + 1) |-> IF i = k + 1 THEN n + 1 ELSE up[i]]
<1>1. n \in Nat /\ DOMAIN out = 1..n
    OBVIOUS
<1>2. /\ Len(new) \in {n + 1, n + 2}
      /\ \A i \in 1..n : new[i] = out[i]
      /\ new[n + 1] = l
      /\ \A q \in 1..Len(new) : q \in 1..n \/ q = n + 1 \/ new[q].t = "private"
    <2>1. CASE new = Append(out, l)
        BY <2>1
    <2>2. CASE new = out \o <<l, Line("private", None)>>
        <3> DEFINE x == Line("private", None)
        <3>1. x.t = "private"
            BY DEF Line
        <3> HIDE DEF x, l
        <3>2. new = out \o <<l, x>> /\ l \in V /\ x \in V
            BY <2>2 DEF x, l
        <3> HIDE DEF new
        <3>3. /\ Len(new) = n + 2 /\ \A i \in 1..n : new[i] = out[i]
              /\ new[n + 1] = l /\ new[n + 2] = x
            BY <3>2
        <3>4. \A q \in 1..(n + 2) : q \in 1..n \/ q = n + 1 \/ q = n + 2
            BY <1>1
        <3> QED
            BY <1>1, <3>1, <3>3, <3>4
    <2> QED
        BY <2>1, <2>2 DEF Emit
<1> HIDE DEF n, l, new
<1>3. /\ up \in [1..k -> 1..n]
      /\ \A i, j \in 1..k : i < j => up[i] < up[j]
      /\ \A i \in 1..k : out[up[i]] = lines[i]
      /\ \A q \in 1..n : out[q].t = "private" \/ \E i \in 1..k : up[i] = q
    BY DEF Spread, n
<1>4. \A i \in 1..(k + 1) : i \in 1..k \/ i = k + 1
    OBVIOUS
<1>5. /\ next[k + 1] = n + 1
      /\ \A i \in 1..k : next[i] = up[i] /\ up[i] \in 1..n /\ up[i] < n + 1
    BY <1>1, <1>3
<1>6. next \in [1..(k + 1) -> 1..Len(new)]
    <2>1. 1..n \subseteq 1..Len(new) /\ n + 1 \in 1..Len(new)
        BY <1>1, <1>2
    <2> QED
        BY <1>3, <1>4, <2>1
<1> HIDE DEF next
<1>7. ASSUME NEW i \in 1..(k + 1), NEW j \in 1..(k + 1), i < j
      PROVE  next[i] < next[j]
    <2>1. i \in 1..k
        BY <1>7
    <2>2. CASE j \in 1..k
        BY <1>3, <1>5, <1>7, <2>1, <2>2
    <2>3. CASE j = k + 1
        BY <1>5, <2>1, <2>3
    <2> QED
        BY <1>4, <2>2, <2>3
<1>8. ASSUME NEW i \in 1..(k + 1) PROVE new[next[i]] = lines[i]
    <2>1. CASE i \in 1..k
        <3>1. next[i] \in 1..n /\ out[next[i]] = lines[i]
            BY <1>3, <1>5, <2>1
        <3> QED
            BY <1>2, <3>1
    <2>2. CASE i = k + 1
        BY <1>2, <1>5, <2>2 DEF l
    <2> QED
        BY <1>4, <2>1, <2>2
<1>9. ASSUME NEW q \in 1..Len(new)
      PROVE  new[q].t = "private" \/ \E i \in 1..(k + 1) : next[i] = q
    <2>1. CASE q \in 1..n
        <3>1. new[q] = out[q] /\ (out[q].t = "private" \/ \E i \in 1..k : up[i] = q)
            BY <1>2, <1>3, <2>1
        <3>2. \A i \in 1..k : i \in 1..(k + 1) /\ next[i] = up[i]
            BY <1>5
        <3> QED
            BY <3>1, <3>2
    <2>2. CASE q = n + 1
        BY <1>5, <2>2
    <2> QED
        BY <1>2, <2>1, <2>2
<1>10. Spread(lines, k + 1, new, next)
    BY <1>6, <1>7, <1>8, <1>9 DEF Spread
<1> QED
    BY <1>10 DEF new, l

\* The key that is injected changes no peer.
LEMMA EmittedPeers ==
    ASSUME NEW key, NEW U, NEW lines \in Seq(U)
    PROVE  Peers(Emitted(key, lines)) = Peers(lines)
<1> DEFINE n == Len(lines)
           V == ConfLine(U)
<1>1. n \in Nat /\ DOMAIN lines = 1..n /\ \A k \in 1..n : lines[k] \in U
    OBVIOUS
<1>2. PICK pre \in [0..n -> Seq(V)] : EmitPrefixes(key, n, lines, Emitted(key, lines), pre)
    BY <1>1, EmitRuns
<1>3. U \subseteq V /\ Line("private", None) \in V
    BY DEF ConfLine
<1> HIDE DEF n, V
<1> DEFINE Good == {k \in Nat : k <= n => \E up : Spread(lines, k, pre[k], up)}
<1>4. 0 \in Good
    <2>1. pre[0] = <<>> /\ 1..0 = {} /\ Len(<<>>) = 0
        BY <1>2 DEF EmitPrefixes
    <2>2. Spread(lines, 0, <<>>, <<>>)
        BY <2>1 DEF Spread
    <2> QED
        BY <2>1, <2>2
<1>5. ASSUME NEW k \in Nat, k \in Good PROVE k + 1 \in Good
    <2> SUFFICES ASSUME k + 1 <= n PROVE \E up : Spread(lines, k + 1, pre[k + 1], up)
        OBVIOUS
    <2>1. k \in 0..n /\ k + 1 \in 1..n /\ (k + 1) - 1 = k /\ k <= n
        BY <1>1
    <2>2. PICK up : Spread(lines, k, pre[k], up)
        BY <1>5, <2>1, Zenon
    <2>3. pre[k + 1] = Emit(key, pre[k], lines[k + 1])
        BY <1>2, <2>1 DEF EmitPrefixes
    <2>4. pre[k] \in Seq(V) /\ lines[k + 1] \in V
        BY <1>1, <1>3, <2>1
    <2>5. \E next : Spread(lines, k + 1, Emit(key, pre[k], lines[k + 1]), next)
        <3> HIDE DEF Good
        <3> DEFINE out == pre[k]
        <3>1. out \in Seq(V) /\ Spread(lines, k, out, up)
            BY <2>2, <2>4
        <3> HIDE DEF out
        <3>2. \E next : Spread(lines, k + 1, Emit(key, out, lines[k + 1]), next)
            BY <1>3, <2>4, <3>1, EmitSpreads
        <3> QED
            BY <3>2 DEF out
    <2> QED
        BY <2>3, <2>5
<1>6. n \in Good /\ n <= n
    <2> HIDE DEF Good
    <2>1. \A k \in Nat : k \in Good
        BY <1>4, <1>5, Induction
    <2> QED
        BY <1>1, <2>1
<1>7. PICK up : Spread(lines, n, pre[n], up)
    BY <1>6, Zenon
<1>8. pre[n] \in Seq(V) /\ pre[n] = Emitted(key, lines)
    <2>1. n \in 0..n
        BY <1>1
    <2> QED
        BY <1>2, <2>1 DEF EmitPrefixes
<1> QED
    BY <1>7, <1>8, SpreadPeers DEF n
-----------------------------------------------------------------------------
(***************************************************************************)
(* The peers of a file: the scan against the blocks.                        *)
(***************************************************************************)
Entries(out) == {<<a.key, a.addr>> : a \in ToSet(out)}

\* After k lines, the block at b is open, or a header has closed it.
IsOpen(lines, k, b) ==
    b \in 1..k /\ lines[b].t = "peer" /\ \A h \in 1..k : b < h => lines[h].t \notin Headers
Shut(lines, k, b) == \E h \in 1..k : b < h /\ lines[h].t \in Headers

Within(lines, k, b, t) == \E i \in 1..k : b < i /\ lines[i].t = t

\* The scan holds the fields of the block that is open, ...
Holding(s, lines, k) ==
    /\ s.inPeer <=> \E b : IsOpen(lines, k, b)
    /\ \A b : IsOpen(lines, k, b) =>
        /\ s.cur.key # None <=> Within(lines, k, b, "key")
        /\ s.cur.addr # None <=> Within(lines, k, b, "ips")
        /\ \A i \in 1..k : b < i =>
            /\ lines[i].t = "key" => lines[i].val = s.cur.key
            /\ lines[i].t = "ips" => lines[i].val.addr = s.cur.addr

\* ... and has found the peers of those that are shut.
FoundShut(out, lines, k) ==
    \A p : p \in Entries(out) <=>
        \E b, i, j : Pair(lines, b, i, j) /\ Shut(lines, k, b) /\ p = Entry(lines, i, j)
FoundBelow(out, lines, k) ==
    \A p : p \in Entries(out) <=>
        \E b, i, j : Pair(lines, b, i, j) /\ b <= k /\ p = Entry(lines, i, j)

LEMMA EntriesMore ==
    ASSUME NEW out \in Seq(Assignment), NEW x \in Assignment
    PROVE  Entries(Append(out, x)) = Entries(out) \cup {<<x.key, x.addr>>}
<1> DEFINE n == Len(out)
           new == Append(out, x)
<1>1. /\ n \in Nat /\ DOMAIN out = 1..n /\ DOMAIN new = 1..(n + 1)
      /\ \A i \in 1..n : new[i] = out[i]
      /\ new[n + 1] = x
    OBVIOUS
<1>2. 1..(n + 1) = (1..n) \cup {n + 1}
    BY <1>1
<1> HIDE DEF n, new
<1>3. ToSet(new) = ToSet(out) \cup {x}
    BY <1>1, <1>2 DEF ToSet
<1> QED
    BY <1>3 DEF Entries, new

\* At the end of a block the scan has found its peer.
LEMMA FlushFinds ==
    ASSUME NEW U, NEW lines \in Seq(U), NEW k \in 0..Len(lines), NEW s \in Scanning,
           Holding(s, lines, k), FoundShut(s.out, lines, k),
           k = Len(lines) \/ lines[k + 1].t \in Headers,
           ~ s.bad, ~ Flush(s).bad
    PROVE  FoundBelow(Flush(s).out, lines, k)
<1> DEFINE n == Len(lines)
<1>1. n \in Nat /\ DOMAIN lines = 1..n /\ k \in Nat /\ k <= n
    OBVIOUS
<1> HIDE DEF n
<1>2. ASSUME NEW b \in 1..k PROVE Shut(lines, k, b) \/ lines[b].t # "peer" \/ IsOpen(lines, k, b)
    BY DEF Shut, IsOpen
<1>3. ASSUME NEW b, Shut(lines, k, b), b \in 1..n PROVE b <= k
    BY <1>1, <1>3 DEF Shut
<1>4. ASSUME NEW b, NEW i, NEW j, Pair(lines, b, i, j), b <= k
      PROVE  b \in 1..k /\ lines[b].t = "peer"
    BY <1>1, <1>4 DEF Pair
<1>5. ASSUME NEW b, IsOpen(lines, k, b), NEW i
      PROVE  i \in Block(lines, b) <=> i \in 1..k /\ b < i
    <2>1. b \in 1..n /\ b \in 1..k
        BY <1>1, <1>5 DEF IsOpen
    <2>2. i \in Block(lines, b) <=>
            i \in 1..n /\ b < i /\ \A h \in 1..n : b < h /\ h <= i => lines[h].t \notin Headers
        BY <1>1, <2>1, BlockIs DEF n
    <2>3. \A h \in 1..k : b < h => lines[h].t \notin Headers
        BY <1>5 DEF IsOpen
    <2>4. ASSUME i \in 1..k, b < i PROVE i \in Block(lines, b)
        <3>1. i \in 1..n /\ \A h \in 1..n : b < h /\ h <= i => h \in 1..k
            BY <1>1, <2>4
        <3> QED
            BY <2>2, <2>3, <2>4, <3>1
    <2>5. ASSUME i \in Block(lines, b) PROVE i \in 1..k /\ b < i
        <3>1. CASE k = n
            BY <2>2, <2>5, <3>1
        <3>2. CASE k # n
            <4>0. k + 1 \in 1..n /\ b < k + 1
                BY <1>1, <2>1, <3>2
            <4>1. k + 1 \in 1..n /\ b < k + 1 /\ lines[k + 1].t \in Headers
                BY <3>2, <4>0 DEF n
            <4>2. ~ (k + 1 <= i)
                BY <2>2, <2>5, <4>1
            <4> QED
                BY <1>1, <2>2, <2>5, <4>2
        <3> QED
            BY <3>1, <3>2
    <2> QED
        BY <2>4, <2>5
<1>6. CASE ~ s.inPeer
    <2>1. Flush(s) = s
        BY <1>6 DEF Flush
    <2>2. \A b : ~ IsOpen(lines, k, b)
        BY <1>6 DEF Holding
    <2>3. \A b, i, j : Pair(lines, b, i, j) => (Shut(lines, k, b) <=> b <= k)
        <3>1. \A b, i, j : Pair(lines, b, i, j) => b \in 1..n
            BY <1>1 DEF Pair
        <3> QED
            BY <1>2, <1>3, <1>4, <2>2, <3>1
    <2> QED
        BY <2>1, <2>3 DEF FoundShut, FoundBelow
<1>7. CASE s.inPeer
    <2> DEFINE x == s.cur
    <2>1. PICK c : IsOpen(lines, k, c)
        BY <1>7 DEF Holding
    <2>2. ~ Half(x)
        <3> SUFFICES ASSUME Half(x) PROVE FALSE
            OBVIOUS
        <3>1. Flush(s) = [s EXCEPT !.bad = TRUE]
            BY <1>7 DEF Flush
        <3> QED
            BY <3>1 DEF Scanning, ScanState
    <2>3. Flush(s).out = IF Stub(x) THEN s.out ELSE Append(s.out, x)
        BY <1>7, <2>2 DEF Flush, Scanning, ScanState
    <2>4. ASSUME NEW b, NEW i, NEW j, Pair(lines, b, i, j), b <= k, ~ Shut(lines, k, b)
          PROVE  ~ Stub(x) /\ Entry(lines, i, j) = <<x.key, x.addr>>
        <3>1. IsOpen(lines, k, b)
            BY <1>2, <1>4, <2>4
        <3>2. /\ i \in 1..k /\ b < i /\ lines[i].t = "key"
              /\ j \in 1..k /\ b < j /\ lines[j].t = "ips"
            BY <1>5, <2>4, <3>1 DEF Pair
        <3>3. lines[i].val = x.key /\ lines[j].val.addr = x.addr
            BY <3>1, <3>2 DEF Holding
        <3>4. x.key # None
            BY <3>1, <3>2 DEF Holding, Within
        <3> QED
            BY <3>3, <3>4 DEF Entry, Stub
    <2>5. ASSUME ~ Stub(x)
          PROVE  \E b, i, j : Pair(lines, b, i, j) /\ b <= k /\ <<x.key, x.addr>> = Entry(lines, i, j)
        <3>1. x.key # None /\ x.addr # None
            BY <2>2, <2>5 DEF Half, Stub
        <3>2. PICK i \in 1..k, j \in 1..k :
                c < i /\ lines[i].t = "key" /\ c < j /\ lines[j].t = "ips"
            BY <2>1, <3>1 DEF Holding, Within
        <3>3. lines[i].val = x.key /\ lines[j].val.addr = x.addr
            BY <2>1, <3>2 DEF Holding
        <3>4. c \in 1..k /\ c \in DOMAIN lines /\ lines[c].t = "peer" /\ c <= k
            BY <1>1, <2>1 DEF IsOpen
        <3>5. Pair(lines, c, i, j)
            BY <1>5, <2>1, <3>2, <3>4 DEF Pair
        <3> QED
            BY <3>3, <3>4, <3>5 DEF Entry
    <2>6. \A b, i, j : Pair(lines, b, i, j) /\ Shut(lines, k, b) => b <= k
        BY <1>1, <1>3 DEF Pair
    <2>7. \A p : p \in Entries(Flush(s).out) <=>
                    p \in Entries(s.out) \/ (~ Stub(x) /\ p = <<x.key, x.addr>>)
        <3>1. CASE Stub(x)
            BY <2>3, <3>1
        <3>2. CASE ~ Stub(x)
            <4>1. x \in Assignment /\ s.out \in Seq(Assignment)
                BY <1>7, <2>2, <3>2, BlockIsPeer DEF Scanning, ScanState
            <4>2. Entries(Flush(s).out) = Entries(s.out) \cup {<<x.key, x.addr>>}
                BY <2>3, <3>2, <4>1, EntriesMore
            <4> QED
                BY <3>2, <4>2
        <3> QED
            BY <3>1, <3>2
    <2> HIDE DEF x
    <2>8. ASSUME NEW p, p \in Entries(Flush(s).out)
          PROVE  \E b, i, j : Pair(lines, b, i, j) /\ b <= k /\ p = Entry(lines, i, j)
        <3>1. CASE p \in Entries(s.out)
            BY <2>6, <3>1 DEF FoundShut
        <3>2. CASE ~ Stub(x) /\ p = <<x.key, x.addr>>
            BY <2>5, <3>2
        <3> QED
            BY <2>7, <2>8, <3>1, <3>2
    <2>9. ASSUME NEW p, NEW b, NEW i, NEW j, Pair(lines, b, i, j), b <= k, p = Entry(lines, i, j)
          PROVE  p \in Entries(Flush(s).out)
        <3>1. CASE Shut(lines, k, b)
            <4>1. p \in Entries(s.out)
                BY <2>9, <3>1 DEF FoundShut
            <4> QED
                BY <2>7, <4>1
        <3>2. CASE ~ Shut(lines, k, b)
            BY <2>4, <2>7, <2>9, <3>2
        <3> QED
            BY <3>1, <3>2
    <2> QED
        BY <2>8, <2>9 DEF FoundBelow
<1> QED
    BY <1>6, <1>7

\* The block of a key or an address has no other, in a tidy file.
LEMMA OneToABlock ==
    ASSUME NEW U, NEW lines \in Seq(U), Tidy(lines), NEW k \in Nat, k + 1 <= Len(lines),
           NEW b, IsOpen(lines, k, b), lines[k + 1].t \in {"key", "ips"},
           NEW i \in 1..k, b < i
    PROVE  lines[i].t # lines[k + 1].t
<1> DEFINE n == Len(lines)
<1>1. n \in Nat /\ DOMAIN lines = 1..n /\ k + 1 \in 1..n /\ (k + 1) - 1 = k
    OBVIOUS
<1>2. /\ b \in 1..k /\ b \in 1..n /\ lines[b].t = "peer"
      /\ \A h \in 1..k : b < h => lines[h].t \notin Headers
    BY <1>1 DEF IsOpen
<1>3. PICK c \in 1..k :
        /\ lines[c].t = "peer" /\ k + 1 \in Block(lines, c)
        /\ \A j \in Block(lines, c) : lines[j].t = lines[k + 1].t => j = k + 1
    BY <1>1 DEF Tidy
<1> HIDE DEF n
<1>4. c \in 1..n /\ \A h \in 1..n : c < h /\ h <= k + 1 => lines[h].t \notin Headers
    <2>1. c \in 1..n
        BY <1>1
    <2> QED
        BY <1>1, <1>3, <2>1, BlockIs DEF n
<1>5. c = b
    <2>1. ~ (b < c)
        BY <1>2, <1>3 DEF Headers
    <2>2. ~ (c < b)
        BY <1>2, <1>4 DEF Headers
    <2> QED
        BY <2>1, <2>2, <1>2
<1>6. i \in Block(lines, b)
    <2>1. i \in 1..n /\ \A h \in 1..n : b < h /\ h <= i => h \in 1..k
        BY <1>1
    <2> QED
        BY <1>1, <1>2, <2>1, BlockIs DEF n
<1>7. i # k + 1
    OBVIOUS
<1> QED
    BY <1>3, <1>5, <1>6, <1>7

\* What one more line changes of the blocks.
LEMMA OneMore ==
    ASSUME NEW lines, NEW k \in Nat
    PROVE  LET l == lines[k + 1] IN
           /\ \A b : Shut(lines, k + 1, b) <=>
                    Shut(lines, k, b) \/ (l.t \in Headers /\ b < k + 1)
           /\ l.t \notin Headers => \A b : IsOpen(lines, k + 1, b) <=> IsOpen(lines, k, b)
           /\ l.t = "interface" => \A b : ~ IsOpen(lines, k + 1, b)
           /\ l.t = "peer" => \A b : IsOpen(lines, k + 1, b) <=> b = k + 1
<1>1. 1..(k + 1) = (1..k) \cup {k + 1}
    OBVIOUS
<1>2. \A b \in 1..k : b < k + 1 /\ b # k + 1
    OBVIOUS
<1>3. ~ (k + 1 < k + 1) /\ \A h \in 1..k : ~ (k + 1 < h)
    OBVIOUS
<1> DEFINE l == lines[k + 1]
<1>4. \A b : Shut(lines, k + 1, b) <=> Shut(lines, k, b) \/ (l.t \in Headers /\ b < k + 1)
    BY <1>1 DEF Shut
<1>5. ASSUME l.t \notin Headers, NEW b PROVE IsOpen(lines, k + 1, b) <=> IsOpen(lines, k, b)
    BY <1>1, <1>5 DEF IsOpen, Headers
<1>6. ASSUME l.t = "interface", NEW b PROVE ~ IsOpen(lines, k + 1, b)
    BY <1>1, <1>2, <1>6 DEF IsOpen, Headers
<1>7. ASSUME l.t = "peer", NEW b PROVE IsOpen(lines, k + 1, b) <=> b = k + 1
    BY <1>1, <1>2, <1>3, <1>7 DEF IsOpen, Headers
<1> QED
    BY <1>4, <1>5, <1>6, <1>7

LEMMA ScanFinds ==
    ASSUME NEW U, NEW lines \in Seq(U), Tidy(lines), NEW k \in Nat, k + 1 <= Len(lines),
           Ready(lines[k + 1]), NEW s \in InFile,
           Holding(s, lines, k), FoundShut(s.out, lines, k),
           ~ s.bad, ~ Scan(s, lines[k + 1]).bad
    PROVE  /\ Holding(Scan(s, lines[k + 1]), lines, k + 1)
           /\ FoundShut(Scan(s, lines[k + 1]).out, lines, k + 1)
<1> DEFINE l == lines[k + 1]
           r == Scan(s, l)
<1>1. s \in Scanning /\ s \in ScanState
    BY DEF InFile, Scanning
<1>2. 1..(k + 1) = (1..k) \cup {k + 1} /\ \A b \in 1..k : b < k + 1
    OBVIOUS
<1>3. /\ \A b : Shut(lines, k + 1, b) <=>
                    Shut(lines, k, b) \/ (l.t \in Headers /\ b < k + 1)
      /\ l.t \notin Headers => \A b : IsOpen(lines, k + 1, b) <=> IsOpen(lines, k, b)
      /\ l.t = "interface" => \A b : ~ IsOpen(lines, k + 1, b)
      /\ l.t = "peer" => \A b : IsOpen(lines, k + 1, b) <=> b = k + 1
    BY OneMore
<1>4. ASSUME l.t \in Headers, ~ Flush(s).bad
      PROVE  FoundShut(Flush(s).out, lines, k + 1)
    <2>1. k \in 0..Len(lines)
        OBVIOUS
    <2>2. FoundBelow(Flush(s).out, lines, k)
        BY <1>1, <1>4, <2>1, FlushFinds
    <2>3. \A b, i, j : Pair(lines, b, i, j) => (Shut(lines, k + 1, b) <=> b <= k)
        <3>1. \A b, i, j : Pair(lines, b, i, j) => b \in 1..Len(lines)
            BY DEF Pair
        <3>2. \A b \in 1..Len(lines) : b < k + 1 <=> b <= k
            OBVIOUS
        <3>3. \A b \in 1..Len(lines) : Shut(lines, k, b) => b < k + 1
            BY DEF Shut
        <3> HIDE DEF l, r
        <3> QED
            BY <1>3, <1>4, <3>1, <3>2, <3>3
    <2> QED
        BY <2>2, <2>3 DEF FoundShut, FoundBelow
<1>5. ASSUME l.t \notin Headers, r.out = s.out PROVE FoundShut(r.out, lines, k + 1)
    <2> HIDE DEF l, r
    <2>1. \A b : Shut(lines, k + 1, b) <=> Shut(lines, k, b)
        BY <1>3, <1>5
    <2> QED
        BY <1>5, <2>1 DEF FoundShut
<1> HIDE DEF r
<1>6. CASE l.t \notin Headers \cup {"key", "ips"}
    <2>1. r.inPeer = s.inPeer /\ r.cur = s.cur /\ r.out = s.out
        BY <1>1, <1>6 DEF Scan, Headers, ScanState, r
    <2>2. Holding(r, lines, k + 1)
        <3> HIDE DEF l
        <3>1. \A b : IsOpen(lines, k + 1, b) <=> IsOpen(lines, k, b)
            BY <1>3, <1>6
        <3>2. \A b : /\ Within(lines, k + 1, b, "key") <=> Within(lines, k, b, "key")
                     /\ Within(lines, k + 1, b, "ips") <=> Within(lines, k, b, "ips")
            BY <1>2, <1>6 DEF Within, l
        <3> QED
            BY <1>2, <1>6, <2>1, <3>1, <3>2 DEF Holding, l
    <2> QED
        BY <1>5, <1>6, <2>1, <2>2 DEF r
<1>7. CASE l.t = "interface"
    <2>1. r = Flush(s)
        BY <1>7 DEF Scan, r
    <2>2. ~ r.inPeer /\ r.inPeer \in BOOLEAN
        <3>1. r \in Scanning
            BY <1>1, <2>1, FlushType
        <3> QED
            BY <1>1, <2>1, <3>1, FlushCloses DEF r, l, Scanning, ScanState
    <2>3. Holding(r, lines, k + 1)
        BY <1>3, <1>7, <2>2 DEF Holding
    <2>4. l.t \in Headers /\ ~ Flush(s).bad
        BY <1>7, <2>1 DEF Headers, r
    <2> QED
        BY <1>4, <2>1, <2>3, <2>4 DEF r
<1>8. CASE l.t = "peer"
    <2> DEFINE f == Flush(s)
    <2>1. f \in Scanning /\ f \in ScanState
        BY <1>1, FlushType DEF Scanning
    <2>2. r = [f EXCEPT !.inPeer = TRUE, !.name = None, !.cur = Opened(s.name, s.file)]
        BY <1>8 DEF Scan, r
    <2>3. l.t \in Headers /\ ~ f.bad
        <3> HIDE DEF f
        <3>1. r.bad = f.bad
            BY <2>1, <2>2 DEF ScanState
        <3> QED
            BY <1>8, <3>1 DEF Headers, r
    <2>4. FoundShut(f.out, lines, k + 1)
        BY <1>4, <2>3
    <2> HIDE DEF f
    <2>5. r.inPeer /\ r.cur.key = None /\ r.cur.addr = None /\ r.out = f.out
        BY <2>1, <2>2 DEF ScanState, Opened
    <2>6. \A b : IsOpen(lines, k + 1, b) <=> b = k + 1
        BY <1>3, <1>8
    <2>7. \A i \in 1..(k + 1) : ~ (k + 1 < i)
        OBVIOUS
    <2>8. Holding(r, lines, k + 1)
        <3>1. r.inPeer <=> \E b : IsOpen(lines, k + 1, b)
            BY <2>5, <2>6
        <3>2. \A t : ~ Within(lines, k + 1, k + 1, t)
            BY <2>7 DEF Within
        <3> QED
            BY <2>5, <2>6, <2>7, <3>1, <3>2, Zenon DEF Holding
    <2> QED
        BY <2>4, <2>5, <2>8 DEF r
<1>9. CASE l.t = "key"
    <2>1. r = IF s.inPeer THEN [s EXCEPT !.cur.key = l.val] ELSE s
        BY <1>9 DEF Scan, r
    <2>2. l.t \notin Headers /\ l.val # None
        <3>1. l.val \in Key \cup Value
            BY <1>9 DEF Ready
        <3> QED
            BY <1>9, <3>1, CasesAssumption DEF Headers
    <2>3. r.inPeer = s.inPeer /\ r.out = s.out /\ r.cur.addr = s.cur.addr
          /\ (s.inPeer => r.cur.key = l.val)
        BY <1>1, <2>1 DEF ScanState
    <2>4. \A b : IsOpen(lines, k, b) => \A i \in 1..k : b < i => lines[i].t # "key"
        BY <1>9, OneToABlock DEF l
    <2>5. \A b : IsOpen(lines, k, b) => b < k + 1 /\ s.inPeer
        BY DEF IsOpen, Holding
    <2> HIDE DEF l
    <2>6. \A b : IsOpen(lines, k + 1, b) <=> IsOpen(lines, k, b)
        BY <1>3, <2>2
    <2>7. \A b : IsOpen(lines, k, b) => Within(lines, k + 1, b, "key")
        BY <1>2, <1>9, <2>5 DEF Within, l
    <2>8. \A b : Within(lines, k + 1, b, "ips") <=> Within(lines, k, b, "ips")
        BY <1>2, <1>9 DEF Within, l
    <2>9. ASSUME NEW b, IsOpen(lines, k, b), NEW i \in 1..(k + 1), b < i
          PROVE  /\ lines[i].t = "key" => lines[i].val = r.cur.key
                 /\ lines[i].t = "ips" => lines[i].val.addr = r.cur.addr
        <3>1. CASE i \in 1..k
            BY <2>3, <2>4, <2>9, <3>1 DEF Holding
        <3>2. CASE i = k + 1
            BY <1>9, <2>3, <2>5, <2>9, <3>2 DEF l
        <3> QED
            BY <1>2, <3>1, <3>2
    <2>10. Holding(r, lines, k + 1)
        <3>1. r.inPeer <=> \E b : IsOpen(lines, k + 1, b)
            BY <2>3, <2>6 DEF Holding
        <3>2. ASSUME NEW b, IsOpen(lines, k, b)
              PROVE  /\ r.cur.key # None <=> Within(lines, k + 1, b, "key")
                     /\ r.cur.addr # None <=> Within(lines, k + 1, b, "ips")
            BY <2>2, <2>3, <2>5, <2>7, <2>8, <3>2 DEF Holding
        <3> QED
            BY <2>6, <2>9, <3>1, <3>2 DEF Holding
    <2> QED
        BY <1>5, <2>2, <2>3, <2>10 DEF r, l
<1>10. CASE l.t = "ips"
    <2>1. r = IF s.inPeer THEN IF l.val = NotACidr THEN [s EXCEPT !.bad = TRUE]
                               ELSE [s EXCEPT !.cur.addr = l.val.addr]
              ELSE s
        BY <1>10 DEF Scan, r
    <2>2. l.t \notin Headers /\ l.val.addr # None
        <3>1. l.val.addr \in Word
            BY <1>10, SpanAssumption DEF Ready, Value, NotACidr, Cidr, Word
        <3> QED
            BY <1>10, <3>1, CasesAssumption DEF Headers
    <2>3. r.inPeer = s.inPeer /\ r.out = s.out /\ r.cur.key = s.cur.key
          /\ (s.inPeer => r.cur.addr = l.val.addr)
        <3>1. s.inPeer => l.val # NotACidr
            BY <1>1, <2>1 DEF ScanState, r
        <3> QED
            BY <1>1, <2>1, <3>1 DEF ScanState
    <2>4. \A b : IsOpen(lines, k, b) => \A i \in 1..k : b < i => lines[i].t # "ips"
        BY <1>10, OneToABlock DEF l
    <2>5. \A b : IsOpen(lines, k, b) => b < k + 1 /\ s.inPeer
        BY DEF IsOpen, Holding
    <2> HIDE DEF l
    <2>6. \A b : IsOpen(lines, k + 1, b) <=> IsOpen(lines, k, b)
        BY <1>3, <2>2
    <2>7. \A b : IsOpen(lines, k, b) => Within(lines, k + 1, b, "ips")
        BY <1>2, <1>10, <2>5 DEF Within, l
    <2>8. \A b : Within(lines, k + 1, b, "key") <=> Within(lines, k, b, "key")
        BY <1>2, <1>10 DEF Within, l
    <2>9. ASSUME NEW b, IsOpen(lines, k, b), NEW i \in 1..(k + 1), b < i
          PROVE  /\ lines[i].t = "key" => lines[i].val = r.cur.key
                 /\ lines[i].t = "ips" => lines[i].val.addr = r.cur.addr
        <3>1. CASE i \in 1..k
            BY <2>3, <2>4, <2>9, <3>1 DEF Holding
        <3>2. CASE i = k + 1
            BY <1>10, <2>3, <2>5, <2>9, <3>2 DEF l
        <3> QED
            BY <1>2, <3>1, <3>2
    <2>10. Holding(r, lines, k + 1)
        <3>1. r.inPeer <=> \E b : IsOpen(lines, k + 1, b)
            BY <2>3, <2>6 DEF Holding
        <3>2. ASSUME NEW b, IsOpen(lines, k, b)
              PROVE  /\ r.cur.key # None <=> Within(lines, k + 1, b, "key")
                     /\ r.cur.addr # None <=> Within(lines, k + 1, b, "ips")
            BY <2>2, <2>3, <2>5, <2>7, <2>8, <3>2 DEF Holding
        <3> QED
            BY <2>6, <2>9, <3>1, <3>2 DEF Holding
    <2> QED
        BY <1>5, <2>2, <2>3, <2>10 DEF r, l
<1> QED
    BY <1>6, <1>7, <1>8, <1>9, <1>10 DEF Headers, r

\* In a tidy file the scan finds the peers of the blocks.
LEMMA TidyFound ==
    ASSUME NEW part, Part(part), Tidy(part.lines), ~ Found(part).bad
    PROVE  Entries(Found(part).out) = Peers(part.lines)
<1> DEFINE lines == part.lines
           n == Len(lines)
           b == [Blank EXCEPT !.name = None, !.file = part.path]
           U == ToSet(lines)
<1>1. /\ n \in Nat /\ DOMAIN lines = 1..n /\ \A k \in 1..n : Ready(lines[k])
      /\ lines \in Seq(U)
    BY Elements DEF Part
<1>2. b \in InFile /\ ~ b.inPeer /\ b.out = <<>> /\ ~ b.bad
    <2>1. part.path \in FileName /\ None \in Named
        BY DEF Part, Named
    <2> QED
        BY <2>1, BlankIsScanning DEF InFile, Scanning, ScanState, Blank
<1>3. Found(part) = Flush(FoldLeft(Scan, b, lines))
    BY DEF ScanFile, Found
<1> HIDE DEF lines, n, b, U
<1>4. PICK p \in [0..n -> InFile] : ScanPrefixes(n, lines, b, p)
    BY <1>1, <1>2, ScanRuns
<1>5. /\ p[0] = b /\ Found(part) = Flush(p[n])
      /\ \A k \in 1..n : p[k] = Scan(p[k - 1], lines[k])
    BY <1>3, <1>4 DEF ScanPrefixes
<1> DEFINE Right(k) == Holding(p[k], lines, k) /\ FoundShut(p[k].out, lines, k)
           Good == {k \in Nat : k <= n => p[k].bad \/ Right(k)}
<1>6. 0 \in Good
    <2>1. 1..0 = {} /\ ToSet(<<>>) = {}
        BY DEF ToSet
    <2>2. Holding(b, lines, 0) /\ FoundShut(<<>>, lines, 0)
        BY <1>2, <2>1 DEF Holding, FoundShut, IsOpen, Shut, Entries
    <2> QED
        BY <1>2, <1>5, <2>2
<1>7. ASSUME NEW k \in Nat, k \in Good PROVE k + 1 \in Good
    <2> SUFFICES ASSUME k + 1 <= n, ~ p[k + 1].bad PROVE Right(k + 1)
        OBVIOUS
    <2>1. k \in 0..n /\ k + 1 \in 1..n /\ (k + 1) - 1 = k /\ k <= n
        BY <1>1
    <2>2. p[k].bad \/ Right(k)
        BY <1>7, <2>1, Zenon
    <2>3. p[k + 1] = Scan(p[k], lines[k + 1])
        BY <1>5, <2>1
    <2>4. p[k] \in InFile /\ Ready(lines[k + 1])
        BY <1>1, <2>1
    <2>5. ~ p[k].bad
        BY <2>3 DEF Scan
    <2> HIDE DEF Good
    <2>6. Tidy(lines) /\ k + 1 <= Len(lines)
        BY DEF lines, n
    <2> QED
        BY <1>1, <2>2, <2>3, <2>4, <2>5, <2>6, ScanFinds
<1>8. n \in Good /\ n <= n
    <2> HIDE DEF Good
    <2>1. \A k \in Nat : k \in Good
        BY <1>6, <1>7, Induction
    <2> QED
        BY <1>1, <2>1
<1>9. p[n].bad \/ Right(n)
    BY <1>8, Zenon
<1>10. p[n] \in Scanning
    BY <1>1, n \in 0..n DEF InFile
<1>11. ~ p[n].bad
    BY <1>5, <1>10, FlushCloses
<1>12. FoundBelow(Found(part).out, lines, n)
    <2>1. n \in 0..Len(lines) /\ n = Len(lines)
        BY <1>1 DEF n
    <2> QED
        BY <1>1, <1>5, <1>9, <1>10, <1>11, <2>1, FlushFinds
<1>13. \A c, i, j : Pair(lines, c, i, j) => c <= n
    BY <1>1 DEF Pair
<1>14. \A e : e \in Entries(Found(part).out) <=> e \in Peers(lines)
    BY <1>12, <1>13, PeersAre DEF FoundBelow
<1> QED
    BY <1>14 DEF lines
-----------------------------------------------------------------------------
(***************************************************************************)
(* The peers of a folder.                                                   *)
(***************************************************************************)
LEMMA EntriesJoined ==
    ASSUME NEW s \in Seq(Assignment), NEW t \in Seq(Assignment)
    PROVE  Entries(s \o t) = Entries(s) \cup Entries(t)
<1> DEFINE n == Len(s)
           m == Len(t)
           r == s \o t
<1>1. /\ n \in Nat /\ m \in Nat
      /\ DOMAIN s = 1..n /\ DOMAIN t = 1..m /\ DOMAIN r = 1..(n + m)
      /\ \A i \in 1..n : r[i] = s[i]
      /\ \A i \in 1..m : r[n + i] = t[i]
    OBVIOUS
<1> HIDE DEF n, m, r
<1>2. \A i \in 1..n : i \in 1..(n + m)
    BY <1>1
<1>3. \A i \in 1..m : n + i \in 1..(n + m)
    BY <1>1
<1>4. \A i \in 1..(n + m) : i \in 1..n \/ (i - n \in 1..m /\ n + (i - n) = i)
    BY <1>1
<1>5. ToSet(r) = ToSet(s) \cup ToSet(t)
    <2>1. ToSet(s) \subseteq ToSet(r)
        BY <1>1, <1>2 DEF ToSet
    <2>2. ToSet(t) \subseteq ToSet(r)
        BY <1>1, <1>3 DEF ToSet
    <2>3. ToSet(r) \subseteq ToSet(s) \cup ToSet(t)
        <3>1. \A i \in 1..(n + m) : r[i] \in ToSet(s) \cup ToSet(t)
            <4> TAKE i \in 1..(n + m)
            <4>1. CASE i \in 1..n
                BY <1>1, <4>1 DEF ToSet
            <4>2. CASE i - n \in 1..m /\ n + (i - n) = i
                <5>1. r[i] = t[i - n]
                    BY <1>1, <4>2
                <5> QED
                    BY <1>1, <4>2, <5>1 DEF ToSet
            <4> QED
                BY <1>4, <4>1, <4>2
        <3> QED
            BY <1>1, <3>1 DEF ToSet
    <2> QED
        BY <2>1, <2>2, <2>3
<1> QED
    BY <1>5 DEF Entries, r

\* The conf has the peers that the files hold, if these are tidy.
LEMMA CompiledPeers ==
    ASSUME NEW key, NEW ps, Parts(ps), Len(ps) # 0, ~ Collected(ps).bad,
           \A i \in 1..Len(ps) : Tidy(ps[i].lines)
    PROVE  Peers(Compiled(ps, key)) = Entries(Collected(ps).out)
<1> DEFINE n == Len(ps)
           U == LinesOf(ps)
           seqs == [i \in DOMAIN ps |-> ps[i].lines]
           flat == FlattenSeq(seqs)
<1>1. n \in Nat \ {0} /\ DOMAIN ps = 1..n /\ \A i \in 1..n : Part(ps[i]) /\ Tidy(ps[i].lines)
    BY Elements DEF Parts
<1>2. seqs \in [1..n -> Seq(U)] /\ \A i \in 1..n : seqs[i] = ps[i].lines
    BY <1>1, PartLines
<1>3. PICK outs \in [0..n -> Seq(Assignment)] :
            Gathers(n, ps, outs) /\ Collected(ps).out = outs[n]
    BY CollectedIs
<1>4. \A i \in 1..n : ~ Found(ps[i]).bad
    BY CollectedIs
<1> HIDE DEF n, U, seqs
<1>5. PICK f : Joins(n, seqs, f) /\ flat = f[n]
    BY <1>1, <1>2, FlattenJoins
<1> HIDE DEF flat
<1> DEFINE Right(k) == f[k] \in Seq(U) /\ Peers(f[k]) = Entries(outs[k])
           Good == {k \in Nat : k \in 1..n => Right(k)}
<1>6. ASSUME NEW k \in 1..n
      PROVE  /\ seqs[k] \in Seq(U) /\ Tidy(seqs[k]) /\ Found(ps[k]).out \in Seq(Assignment)
             /\ Peers(seqs[k]) = Entries(Found(ps[k]).out)
    <2>1. Part(ps[k]) /\ Tidy(ps[k].lines) /\ ~ Found(ps[k]).bad /\ seqs[k] = ps[k].lines
        BY <1>1, <1>2, <1>4
    <2> QED
        BY <1>2, <2>1, TidyFound, FoundIs
<1>7. 0 \in Good
    OBVIOUS
<1>8. ASSUME NEW k \in Nat, k \in Good PROVE k + 1 \in Good
    <2> SUFFICES ASSUME k + 1 \in 1..n PROVE Right(k + 1)
        OBVIOUS
    <2> DEFINE o == Found(ps[k + 1]).out
               s == seqs[k + 1]
    <2>1. s \in Seq(U) /\ Tidy(s) /\ o \in Seq(Assignment) /\ Peers(s) = Entries(o)
        BY <1>6
    <2>2. f[k + 1] = IF k + 1 = 1 THEN s ELSE f[(k + 1) - 1] \o s
        BY <1>5 DEF Joins
    <2>3. outs[k + 1] = outs[k] \o o
        <3>1. (k + 1) - 1 = k
            OBVIOUS
        <3>2. outs[k + 1] = outs[(k + 1) - 1] \o o
            BY <1>3 DEF Gathers
        <3> HIDE DEF o
        <3> QED
            BY <3>1, <3>2, Zenon
    <2> HIDE DEF Good, o, s
    <2>4. CASE k = 0
        <3>1. f[k + 1] = s
            BY <2>2, <2>4
        <3>2. outs[k] = <<>>
            BY <1>3, <2>4 DEF Gathers
        <3>3. outs[k + 1] = o
            BY <2>1, <2>3, <3>2
        <3> QED
            BY <2>1, <3>1, <3>3
    <2>5. CASE k # 0
        <3>1. k \in 1..n /\ (k + 1) - 1 = k /\ k + 1 # 1 /\ k \in 0..n
            BY <1>1, <2>5
        <3>2. Right(k)
            BY <1>8, <3>1, Zenon DEF Good
        <3>3. f[k + 1] = f[k] \o s
            BY <2>2, <3>1
        <3>4. Peers(f[k] \o s) = Peers(f[k]) \cup Peers(s)
            BY <2>1, <3>2, JoinPeers
        <3>5. Entries(outs[k] \o o) = Entries(outs[k]) \cup Entries(o)
            BY <2>1, <3>1, EntriesJoined
        <3>6. f[k] \o s \in Seq(U)
            BY <2>1, <3>2
        <3> QED
            BY <2>1, <2>3, <3>2, <3>3, <3>4, <3>5, <3>6
    <2> QED
        BY <2>4, <2>5
<1>9. n \in Good
    <2> HIDE DEF Good
    <2>1. \A k \in Nat : k \in Good
        BY <1>7, <1>8, Induction
    <2> QED
        BY <1>1, <2>1
<1>10. n \in 1..n
    BY <1>1
<1>11. Right(n)
    BY <1>9, <1>10, Zenon
<1>12. Peers(Emitted(key, flat)) = Peers(flat)
    BY <1>5, <1>11, EmittedPeers
<1> QED
    BY <1>3, <1>5, <1>11, <1>12 DEF Compiled, flat, seqs

\* Peers that check has nothing against have as many addresses.
LEMMA AddressesDiffer ==
    ASSUME NEW found \in Seq(Assignment), NEW tab, Sound(found, tab)
    PROVE  Cardinality({p[2] : p \in Entries(found)}) = Len(found)
<1> DEFINE n == Len(found)
           A == {p[2] : p \in Entries(found)}
           f == [i \in 1..n |-> found[i].addr]
<1>1. n \in Nat /\ DOMAIN found = 1..n
    OBVIOUS
<1>2. A = {found[i].addr : i \in 1..n}
    <2>1. ToSet(found) = {found[i] : i \in 1..n}
        BY <1>1 DEF ToSet
    <2>2. A = {a.addr : a \in ToSet(found)}
        <3>1. \A a : <<a.key, a.addr>>[2] = a.addr
            OBVIOUS
        <3> QED
            BY <3>1 DEF Entries
    <2> HIDE DEF A, n
    <2> QED
        BY <2>1, <2>2
<1>3. \A i, j \in 1..n : j < i => found[j].addr # found[i].addr
    <2> SUFFICES ASSUME NEW i \in 1..n, NEW j \in 1..n, j < i
                 PROVE  found[j].addr # found[i].addr
        OBVIOUS
    <2>1. j \in 1..(i - 1)
        BY <1>1
    <2> QED
        BY <1>1, <2>1 DEF Sound, Fresh
<1> HIDE DEF n, A
<1>4. f \in [1..n -> A] /\ \A a \in A : \E i \in 1..n : f[i] = a
    BY <1>2
<1>5. ASSUME NEW i \in 1..n, NEW j \in 1..n, f[i] = f[j] PROVE i = j
    <2>1. i \in Nat /\ j \in Nat
        BY <1>1
    <2>2. ~ (i < j) /\ ~ (j < i)
        BY <1>3, <1>5
    <2> QED
        BY <2>1, <2>2
<1> HIDE DEF f
<1>6. f \in Bijection(1..n, A)
    BY <1>4, <1>5, Zenon DEF Bijection, Injection, Surjection, IsInjective
<1>7. IsFiniteSet(1..n) /\ Cardinality(1..n) = n
    BY <1>1, FS_Interval
<1>8. Cardinality(A) = n
    <2>1. ExistsBijection(1..n, A)
        BY <1>6 DEF ExistsBijection
    <2> QED
        BY <1>7, <2>1, FS_Bijection
<1> QED
    BY <1>8 DEF n, A

\* A line that is filled stays what it is, and so does a tidy file.
LEMMA TidyFilled ==
    ASSUME NEW U, NEW lines \in Seq(U), Tidy(lines), NEW tab
    PROVE  Tidy(Filled(lines, tab))
<1> DEFINE n == Len(lines)
           new == Filled(lines, tab)
<1>1. \A l : Substituted(l, tab).t = l.t
    BY DEF Substituted, Line
<1>2. /\ n \in Nat /\ DOMAIN lines = 1..n /\ DOMAIN new = 1..n /\ Len(new) = n
      /\ \A i \in 1..n : new[i].t = lines[i].t
    <2>1. new = [j \in 1..n |-> Substituted(lines[j], tab)]
        BY DEF Filled
    <2> HIDE DEF new
    <2>2. n \in Nat /\ DOMAIN new = 1..n /\ Len(new) = n
        BY <2>1
    <2>3. \A i \in 1..n : new[i] = Substituted(lines[i], tab)
        BY <2>1
    <2> QED
        BY <1>1, <2>2, <2>3
<1> HIDE DEF n, new
<1>3. \A b \in 1..n : Block(new, b) = Block(lines, b)
    <2> SUFFICES ASSUME NEW b \in 1..n, NEW i
                 PROVE  i \in Block(new, b) <=> i \in Block(lines, b)
        OBVIOUS
    <2>1. i \in Block(new, b) <=>
            i \in 1..n /\ b < i /\ \A k \in 1..n : b < k /\ k <= i => new[k].t \notin Headers
        BY <1>2, BlockIs
    <2>2. i \in Block(lines, b) <=>
            i \in 1..n /\ b < i /\ \A k \in 1..n : b < k /\ k <= i => lines[k].t \notin Headers
        BY <1>2, BlockIs DEF n
    <2> QED
        BY <1>2, <2>1, <2>2
<1>4. ASSUME NEW i \in 1..n, new[i].t \in {"key", "ips"}
      PROVE  \E b \in 1..(i - 1) :
                /\ new[b].t = "peer" /\ i \in Block(new, b)
                /\ \A j \in Block(new, b) : new[j].t = new[i].t => j = i
    <2>1. PICK b \in 1..(i - 1) :
                /\ lines[b].t = "peer" /\ i \in Block(lines, b)
                /\ \A j \in Block(lines, b) : lines[j].t = lines[i].t => j = i
        BY <1>2, <1>4 DEF Tidy
    <2>2. b \in 1..n
        BY <1>2
    <2>3. \A j \in Block(lines, b) : j \in 1..n
        BY <1>2, <2>2, BlockIs DEF n
    <2>4. new[b].t = "peer" /\ i \in Block(new, b)
        BY <1>2, <1>3, <2>1, <2>2
    <2>5. ASSUME NEW j \in Block(new, b), new[j].t = new[i].t PROVE j = i
        BY <1>2, <1>3, <2>1, <2>2, <2>3, <2>5
    <2> QED
        BY <2>4, <2>5
<1>5. Tidy(new)
    BY <1>2, <1>4 DEF Tidy
<1> QED
    BY <1>5 DEF new

\* The conf is compiled from the partials of the folder that has been checked.
CompiledInv ==
    /\ pc = "compile" => partials = PartsOf(folder, request.env)
    /\ reply \in {"added", "removed"} =>
            conf = Compiled(PartsOf(folder, request.env), hasKey)

LEMMA CompiledInvHolds == Spec => []CompiledInv
<1>1. Init => CompiledInv
    BY DEF Init, CompiledInv
<1>2. CompiledInv /\ EditInv /\ FolderInv /\ [Next]_vars => CompiledInv'
    <2> SUFFICES ASSUME CompiledInv, EditInv, FolderInv, [Next]_vars PROVE CompiledInv'
        OBVIOUS
    <2>1. CASE pc' = "done" /\ reply' \notin {"added", "removed"}
        BY <2>1 DEF CompiledInv
    <2>2. CASE reply = "none" /\ reply' = reply /\ pc' # "compile"
        BY <2>2 DEF CompiledInv
    <2>3. CASE LoadVars \/ LoadPartials \/ Decide \/ Find \/ Walk \/ Full \/ Author
        <3>1. pc \notin {"compile", "done"} /\ reply = "none"
            BY <2>3 DEF LoadVars, LoadPartials, Decide, Find, Walk, Full, Author, FolderInv
        <3> QED
            BY <2>1, <2>2, <2>3, <3>1
               DEF LoadVars, LoadPartials, Decide, Find, Walk, Full, Author, Delete,
                   Refuse, Fail, Return, Answer, output, command
    <2>4. CASE Check
        <3>1. CASE Accepts(partials, table)
            BY <2>4, <3>1 DEF Check, CompiledInv, EditInv, Reading, FolderInv,
                              given, disk, network, output
        <3> QED
            BY <2>1, <2>4, <3>1 DEF Check, Refuse, Return
    <2>5. CASE Compile
        <3>1. CASE Fail
            BY <2>1, <3>1 DEF Fail, Return
        <3>2. CASE ~ Fail
            BY <2>5, <3>2 DEF Compile, CompiledInv, given, disk, network
        <3> QED
            BY <3>1, <3>2
    <2>6. CASE Ended \/ UNCHANGED vars
        BY <2>6 DEF Ended, vars, command, given, disk, network, output, CompiledInv
    <2> QED
        BY <2>3, <2>4, <2>5, <2>6 DEF Next, Function
<1> QED
    BY <1>1, <1>2, EditInvHolds, FolderInvHolds, PTL DEF Spec

\* ConfMatchesLedger for every folder and every request: WireGuard finds in the
\* one conf that render_conf joins from all files the peers that
\* collect_assignments found and check compared file by file, each once.
THEOREM ConfHasThePeers == Spec => []ConfMatchesLedger
<1>1. CompiledInv /\ EditInv /\ TextInv => ConfMatchesLedger
    <2> SUFFICES ASSUME CompiledInv, EditInv, TextInv, reply \in {"added", "removed"},
                        \A f \in DOMAIN folder : Tidy(folder[f])
                 PROVE  /\ Peers(conf) = Entries(assigns)
                        /\ Cardinality({p[2] : p \in Peers(conf)}) = Len(assigns)
        BY DEF ConfMatchesLedger, Entries
    <2> DEFINE tab == TabOf(folder, request.env)
               ps == PartsOf(folder, request.env)
    <2>1. /\ Reads(folder, request.env) /\ Accepts(ps, tab)
          /\ assigns = Collected(ps).out /\ conf = Compiled(ps, hasKey)
        BY DEF EditInv, Passed, Passes, PeersOf, CompiledInv
    <2>2. Parts(ps) /\ Dir(folder)
        BY <2>1, PartsOfIs DEF TextInv
    <2>3. HasInterface(ps) /\ ~ Collected(ps).bad /\ Sound(assigns, tab)
        BY <2>1, AcceptsIs
    <2>4. \A i \in 1..Len(ps) : Tidy(ps[i].lines)
        <3> SUFFICES ASSUME NEW i \in 1..Len(ps) PROVE Tidy(ps[i].lines)
            OBVIOUS
        <3> DEFINE f == Listing(folder)[i]
        <3>1. f \in DOMAIN folder /\ ps[i] = PartOf(folder, f, tab)
            BY <2>2, LoadedIs DEF PartsOf
        <3>2. ps[i].lines = Filled(folder[f], tab)
            BY <3>1 DEF PartOf
        <3>3. folder[f] \in Seq(ToSet(folder[f])) /\ Tidy(folder[f])
            BY <2>2, <3>1 DEF Dir, Lines
        <3> QED
            BY <3>2, <3>3, TidyFilled
    <2> HIDE DEF ps, tab
    <2>5. Len(ps) # 0
        BY <2>2, <2>3, Elements DEF Parts, HasInterface, ToSet
    <2>6. Peers(conf) = Entries(assigns)
        BY <2>1, <2>2, <2>3, <2>4, <2>5, CompiledPeers
    <2>7. assigns \in Seq(Assignment)
        BY <2>1, <2>2, CollectedType DEF Scanning, ScanState
    <2> QED
        BY <2>3, <2>6, <2>7, AddressesDiffer
<1> QED
    BY <1>1, CompiledInvHolds, EditInvHolds, TextInvHolds, PTL
=============================================================================
