------------------------------ MODULE Sources ------------------------------
(***************************************************************************)
(* One `peer add` or `peer remove` as it handles the text of a network      *)
(* folder: variables, placeholders, the scan for [Peer] blocks, the choice  *)
(* of an address and a file name, check, the compiled conf, and the way     *)
(* back if the changed folder is refused.  One action per function.  The    *)
(* lock is held throughout, so nothing else changes the folder.             *)
(*                                                                          *)
(* A file is a sequence of lines [t, val, ref].  If ref is not None, the    *)
(* line's value is the placeholder ${ref}; a line of text is a sequence of  *)
(* characters instead, and no line closes an escape that an earlier one     *)
(* leaves open.  By t, a line is                                            *)
(*   var        #= env: name = value            val = [env, name, value]    *)
(*   name       # wirebard: name=label          val = the label             *)
(*   interface  the header: val is plain ([Interface] or [interface]),      *)
(*              noted (the same with more text after it) or upper (any      *)
(*              other case)                                                 *)
(*   peer       [Peer]                                                      *)
(*   key        PublicKey = val                                             *)
(*   ips        AllowedIPs = val, a CIDR or NotACidr                        *)
(*   private    PrivateKey, which only the compiler writes                  *)
(*   text       any other line, val = its characters                        *)
(***************************************************************************)
EXTENDS Allocation, Placeholders, SequencesExt

CONSTANTS
    Key,      \* public keys
    Label,    \* peer names
    Env,      \* environments
    None,     \* no value, no environment, no placeholder
    Spelling, \* the characters of a variable's name -> the variable
    Bare,     \* a label -> what is read back of it: no blanks at its ends and no
              \* first '$' of an escape; None if nothing is left
    Cases     \* the requests and what they find: [folder, hasKey, request]

NotACidr == [addr |-> 0, size |-> 0]
Value == Cidr \cup {NotACidr}
Required == {"subnet", "endpoint", "server_public_key", "address"}
Variable == Required \cup {"tag"}

\* A file's name by its order prefix, of two or three digits; Unnumbered is a
\* name without one.  Old names leave room for one more.
Unnumbered == -1
LastPrefix == 999
FileName == {Unnumbered} \cup 0..LastPrefix
OldName == {Unnumbered} \cup 0..(LastPrefix - 10)

\* The lines that a file may hold.
IsLine(l) ==
    /\ l.t \in {"var", "name", "interface", "peer", "key", "ips", "text"}
    /\ l.t = "var" => l.val \in [env : Env \cup {None}, name : Variable, value : Value]
    /\ l.t = "interface" => l.val \in {"plain", "noted", "upper"}
    /\ IF l.ref # None
       THEN l.t \in {"name", "key", "ips"} /\ l.ref \in Variable
       ELSE /\ l.t = "name" => l.val \in Label \cup {None}
            /\ l.t = "key" => l.val \in Key
            /\ l.t = "ips" => l.val \in Value
            /\ l.t = "text" => l.val \in Seq(ToSet(l.val))

ASSUME CasesAssumption ==
    /\ None \notin FileName \cup Key \cup Value \cup Word
    /\ Bare \in [Label -> Label \cup {None}]
    /\ \A c \in Cases :
        /\ c.hasKey \in BOOLEAN
        /\ c.request.op \in {"add", "remove"}
        /\ c.request.key \in Key
        /\ c.request.label \in Seq(ToSet(c.request.label)) /\ c.request.label # <<>>
        /\ c.request.label[1].t = "name"
        /\ \A l \in ToSet(c.request.label) : IsLine(l)
        /\ IsFiniteSet(DOMAIN c.folder) /\ DOMAIN c.folder \subseteq OldName
        /\ c.folder = [f \in DOMAIN c.folder |-> c.folder[f]]
        /\ \A f \in DOMAIN c.folder :
            /\ c.folder[f] \in Seq(ToSet(c.folder[f]))
            /\ \A l \in ToSet(c.folder[f]) : IsLine(l)

VARIABLES
    folder,    \* file name -> lines
    before,    \* what it was when the request came (history)
    hasKey,    \* server.key holds more than white space
    request,   \* add or remove, the key, the environment, and the line or lines
               \* that "# wirebard: name=" and the label make
    pc,        \* the function that runs next
    table,     \* VarTable: variable -> value
    partials,  \* load_partials: [path, lines], substituted, in file order
    existing,  \* collect_assignments, before the change
    assigns,   \* collect_assignments, of the last check
    fpath,     \* the partial that was authored or deleted, or None
    saved,     \* the lines of a deleted one
    conf,      \* the compiled lines
    reply      \* none, present, added, absent, removed, refused for what the
               \* files say, failed because a call did

given == <<before, hasKey, request>>
disk == <<folder, fpath, saved>>
network == <<table, partials>>
peers == <<existing, assigns>>
output == <<conf, reply>>
command == <<given, disk, network, peers, output, pc>>
vars == <<command, walk>>

Line(t, val) == [t |-> t, val |-> val, ref |-> None]
-----------------------------------------------------------------------------
(* Names of files (list_partials, next_peer_filename).                      *)

\* "{:02}-": the first digit decides, then the next, then the shorter name;
\* '-' sorts before the digits, and letters after them.
Digits(n) == IF n < 100 THEN 2 ELSE 3
Scaled(n) == IF n < 100 THEN n * 10 ELSE n
Precedes(m, n) ==
    \/ n = Unnumbered
    \/ m # Unnumbered /\ Scaled(m) < Scaled(n)
    \/ m # Unnumbered /\ Scaled(m) = Scaled(n) /\ Digits(m) <= Digits(n)

\* Sorted: the i-th is the one that i names, itself included, do not follow.
Listing(dir) ==
    LET place(f) == Cardinality({g \in DOMAIN dir : Precedes(g, f)})
    IN  [i \in 1..Cardinality(DOMAIN dir) |-> CHOOSE f \in DOMAIN dir : place(f) = i]

\* A name without a prefix counts as 0.
OrderPrefixes(dir) == {0} \cup (DOMAIN dir \ {Unnumbered})

\* Mutant: the prefix of the file listed last is taken for the highest.
IsPrefixOfLast(dir, n) == n = Listing(dir)[Cardinality(DOMAIN dir)]

IsHighest(dir, n) == \A m \in OrderPrefixes(dir) : m <= n
-----------------------------------------------------------------------------
(* Variables and placeholders (VarTable::load, substitute).                 *)

Directives(lines) == {l \in ToSet(lines) : l.t = "var"}

\* Mutant: one pass, so that a later base line beats the environment's.
OnePass(lines, env) ==
    FoldLeft(LAMBDA tab, l :
                IF l.t = "var" /\ l.val.env \in {None, env}
                THEN [tab EXCEPT ![l.val.name] = l.val.value] ELSE tab,
             [v \in Variable |-> None], lines)

\* The lines of an environment, or of none, assigned one after the other.
Layer(table0, lines, env) ==
    FoldLeft(LAMBDA tab, l :
                IF l.t = "var" /\ l.val.env = env
                THEN [tab EXCEPT ![l.val.name] = l.val.value] ELSE tab,
             table0, lines)

\* The base layer, then the environment's lines on top; the later line wins.
Table(lines, env) ==
    LET base == Layer([v \in Variable |-> None], lines, None)
    IN  IF env = None THEN base ELSE Layer(base, lines, env)

\* No file, a '#=' outside the first, or an environment that no line mentions.
Misplaced(dir, env) ==
    LET files == Listing(dir) IN
    \/ files = <<>>
    \/ \E i \in 2..Len(files) : Directives(dir[files[i]]) # {}
    \/ env # None /\ \A l \in Directives(dir[files[1]]) : l.val.env # env

\* VarTable::get, of a name as it is spelt.
Get(name, tab) == IF name \in DOMAIN Spelling THEN tab[Spelling[name]] ELSE None

\* substitute gives up.
Undefined(line, tab) ==
    IF line.t = "text"
    THEN \E token \in ToSet(Tokens(line.val)) :
            token.kind = "placeholder" /\ Get(token.piece, tab) = None
    ELSE line.ref # None /\ tab[line.ref] = None

\* In a text a value stands as one character.
Rendered(text, tab) ==
    LET rendered(token) ==
            IF token.kind = "placeholder" THEN <<Get(token.piece, tab)>> ELSE token.piece
    IN  FoldLeft(LAMBDA out, token : out \o rendered(token), <<>>, Tokens(text))

\* The variables' own lines keep their raw text.
Substituted(line, tab) ==
    CASE line.t = "text" -> Line("text", Rendered(line.val, tab))
      [] line.t \notin {"text", "var"} /\ line.ref # None -> Line(line.t, tab[line.ref])
      [] OTHER -> line
-----------------------------------------------------------------------------
(* The scan for peers (collect_assignments).                                *)

Opened(name, file) == [key |-> None, addr |-> None, name |-> name, file |-> file]

Stub(c) == c.key = None /\ c.addr = None

\* Mutant: a key alone makes a peer.
Keyless(c) == c.key = None /\ c.addr # None

\* One field without the other.
Half(c) == (c.key = None) # (c.addr = None)

\* An empty stub is nothing; half a peer is an error.
Flush(s) ==
    CASE ~ s.inPeer -> s
      [] s.inPeer /\ Half(s.cur) -> [s EXCEPT !.bad = TRUE]
      [] OTHER -> [s EXCEPT !.inPeer = FALSE,
                            !.out = IF Stub(s.cur) THEN @ ELSE Append(@, s.cur)]

\* The value of a placeholder is read as it is.
ReadName(val) == IF val \in Label THEN Bare[val] ELSE val

\* A header closes the block before it; a label waits for the next [Peer].
Scan(s, l) ==
    IF s.bad THEN s ELSE
    CASE l.t = "name" -> [s EXCEPT !.name = ReadName(l.val)]
      [] l.t = "interface" -> Flush(s)
      [] l.t = "peer" -> [Flush(s) EXCEPT !.inPeer = TRUE, !.name = None,
                                          !.cur = Opened(s.name, s.file)]
      [] l.t = "key" /\ s.inPeer -> [s EXCEPT !.cur.key = l.val]
      [] l.t = "ips" /\ s.inPeer ->
            IF l.val = NotACidr THEN [s EXCEPT !.bad = TRUE]
            ELSE [s EXCEPT !.cur.addr = l.val.addr]
      [] OTHER -> s

\* Mutant: the block at the end of a file is not closed.
ScanUnclosed(s, part) ==
    FoldLeft(Scan, [s EXCEPT !.name = None, !.inPeer = FALSE, !.file = part.path],
             part.lines)

\* A block ends with its file, and so does a label that found no [Peer].
ScanFile(s, part) ==
    Flush(FoldLeft(Scan, [s EXCEPT !.name = None, !.file = part.path], part.lines))

Collected(parts) ==
    FoldLeft(ScanFile,
             [inPeer |-> FALSE, cur |-> Opened(None, None), name |-> None,
              file |-> None, out |-> <<>>, bad |-> FALSE],
             parts)

Holds(part, key) == \E a \in ToSet(Collected(<<part>>).out) : a.key = key

\* Mutant: the file scanned last.
IsLastFile(parts, i, key) == i = Len(parts)

\* The file of the first peer with the key.
IsFirstFile(parts, i, key) ==
    Holds(parts[i], key) /\ \A j \in 1..(i - 1) : ~ Holds(parts[j], key)
-----------------------------------------------------------------------------
(* check_network and compile.                                               *)

HasInterface(parts) ==
    \E part \in ToSet(parts) : \E l \in ToSet(part.lines) :
        l.t = "interface" /\ l.val \in {"plain", "noted"}

\* Mutant: addresses may repeat.
FreshKey(found, i) == \A j \in 1..(i - 1) : found[j].key # found[i].key

\* Neither key nor address has been seen on an earlier peer.
Fresh(found, i) ==
    \A j \in 1..(i - 1) : found[j].key # found[i].key /\ found[j].addr # found[i].addr

\* No diagnostic.
Accepts(parts, tab) ==
    LET found == Collected(parts)
        net == SubnetOf(tab["subnet"])
    IN
    /\ HasInterface(parts)
    /\ tab["subnet"] \in Cidr /\ tab["address"] \in Cidr
    /\ ~ found.bad
    /\ \A i \in DOMAIN found.out :
        LET a == found.out[i] IN
        /\ Fresh(found.out, i)
        /\ InSubnet(net, a.addr) /\ a.addr \notin {net.addr, Broadcast(net)}
        /\ a.addr # tab["address"].addr

\* is_interface_header: nothing but the header on the line, in any case.
IsHeader(l) == l.t = "interface" /\ l.val \in {"plain", "upper"}

\* Mutant: the key is injected under every header.
EmitAll(key, out, l) ==
    IF key /\ IsHeader(l) THEN out \o <<l, Line("private", None)>> ELSE Append(out, l)

\* The private key, if there is one, goes under the first header.
Emit(key, out, l) ==
    IF key /\ IsHeader(l) /\ \A i \in DOMAIN out : out[i].t # "private"
    THEN out \o <<l, Line("private", None)>>
    ELSE Append(out, l)

Emitted(key, lines) == FoldLeft(LAMBDA out, l : Emit(key, out, l), <<>>, lines)

Compiled(parts, key) ==
    Emitted(key, FlattenSeq([i \in DOMAIN parts |-> parts[i].lines]))
-----------------------------------------------------------------------------
(* peer_add and peer_remove.                                                *)

Init ==
    /\ \E c \in Cases :
        folder = c.folder /\ before = c.folder /\ hasKey = c.hasKey /\ request = c.request
    /\ pc = "vars" /\ table = [v \in Variable |-> None]
    /\ partials = <<>> /\ existing = <<>> /\ assigns = <<>>
    /\ fpath = None /\ saved = <<>> /\ conf = <<>> /\ reply = "none"
    /\ WalkInit

With(dir, f, lines) ==
    [g \in DOMAIN dir \cup {f} |-> IF g = f THEN lines ELSE dir[g]]
Without(dir, f) == [g \in DOMAIN dir \ {f} |-> dir[g]]

\* Mutant: an authored partial is removed, a deleted one stays deleted.
RollbackAdd == IF request.op = "add" THEN Without(folder, fpath) ELSE folder

\* The partial that was authored is removed, the one that was deleted written.
Rollback ==
    IF fpath = None THEN folder
    ELSE IF request.op = "add" THEN Without(folder, fpath)
    ELSE With(folder, fpath, saved)

\* An error return.
Return(r) ==
    /\ folder' = Rollback
    /\ pc' = "done" /\ reply' = r
    /\ UNCHANGED <<given, fpath, saved, network, peers, conf, walk>>

Refuse == Return("refused")
Fail == Return("failed")

LoadVars ==
    /\ pc = "vars"
    /\ IF Misplaced(folder, request.env) THEN Refuse
       ELSE /\ table' = Table(folder[Listing(folder)[1]], request.env)
            /\ pc' = "partials"
            /\ UNCHANGED <<given, disk, partials, peers, output, walk>>

\* load_partials of a folder in which every name is defined.
Loaded(dir, tab) ==
    LET files == Listing(dir)
        lines(f) == [j \in DOMAIN dir[f] |-> Substituted(dir[f][j], tab)]
    IN  [i \in DOMAIN files |-> [path |-> files[i], lines |-> lines(files[i])]]

LoadPartials ==
    /\ pc = "partials"
    /\ IF \E f \in DOMAIN folder : \E l \in ToSet(folder[f]) : Undefined(l, table)
       THEN Refuse
       ELSE /\ partials' = Loaded(folder, table)
            /\ pc' = IF fpath # None THEN "check"
                     ELSE IF request.op = "add" THEN "decide" ELSE "find"
            /\ UNCHANGED <<given, disk, table, peers, output, walk>>

\* Nothing to do.
Answer(r) ==
    /\ pc' = "done" /\ reply' = r
    /\ UNCHANGED <<given, disk, network, peers, conf, walk>>

\* Mutant: the server's address is up for allocation.
TakenByPeers(tab, known) == {a.addr : a \in known}

\* The addresses allocate_address walks over.
Taken(tab, known) == {tab["address"].addr} \cup {a.addr : a \in known}

\* peer_add: read_net_vars, collect_assignments and the search for the key.
Decide ==
    /\ pc = "decide"
    /\ LET found == Collected(partials)
           known == ToSet(found.out)
           usable == /\ \A v \in Required : table[v] # None
                     /\ table["subnet"] \in Cidr /\ table["address"] \in Cidr
                     /\ ~ found.bad
       IN
       \/ ~ usable /\ Refuse
       \/ usable /\ (\E a \in known : a.key = request.key) /\ Answer("present")
       \/ /\ usable /\ \A a \in known : a.key # request.key
          /\ Begin(SubnetOf(table["subnet"]), Taken(table, known))
          /\ existing' = found.out
          /\ pc' = "walk"
          /\ UNCHANGED <<given, disk, network, assigns, output>>

\* The file is deleted, whatever else it holds; or it cannot be read or removed.
Delete(f) ==
    \/ Fail
    \/ /\ f \in DOMAIN folder
       /\ fpath' = f
       /\ saved' = folder[f]
       /\ folder' = Without(folder, f)
       /\ pc' = "vars"
       /\ existing' = Collected(partials).out
       /\ UNCHANGED <<given, network, assigns, output, walk>>

\* peer_remove: collect_assignments and the search for the key.
Find ==
    /\ pc = "find"
    /\ LET bad == Collected(partials).bad
           there == \E part \in ToSet(partials) : Holds(part, request.key)
       IN
       \/ bad /\ Refuse
       \/ ~ bad /\ ~ there /\ Answer("absent")
       \/ /\ ~ bad /\ there
          /\ \E i \in DOMAIN partials :
                IsFirstFile(partials, i, request.key) /\ Delete(partials[i].path)

Walk ==
    /\ pc = "walk"
    /\ Take \/ Step
    /\ UNCHANGED command

Full ==
    /\ pc = "walk"
    /\ phase = "full"
    /\ Refuse

\* render_peer_partial: the label is written as it came.
NewPartial ==
    request.label \o <<Line("peer", None), Line("key", request.key),
                       Line("ips", [addr |-> host, size |-> 1])>>

\* Under the name that next_peer_filename chooses; or it cannot be written.
Author ==
    /\ pc = "walk"
    /\ phase = "found"
    /\ \/ Fail
       \/ \E highest \in OrderPrefixes(folder) :
            /\ IsHighest(folder, highest)
            /\ fpath' = highest + 10
            /\ folder' = With(folder, fpath', NewPartial)
            /\ pc' = "vars"
            /\ UNCHANGED <<given, saved, network, peers, output, walk>>

\* check_network of the changed folder.
Check ==
    /\ pc = "check"
    /\ IF Accepts(partials, table)
       THEN /\ assigns' = Collected(partials).out
            /\ pc' = "compile"
            /\ UNCHANGED <<given, disk, network, existing, output, walk>>
       ELSE Refuse

\* compile_network, and the apply that installs and reloads the conf.
Compile ==
    /\ pc = "compile"
    /\ \/ Fail
       \/ /\ conf' = Compiled(partials, hasKey)
          /\ pc' = "done"
          /\ reply' = IF request.op = "add" THEN "added" ELSE "removed"
          /\ UNCHANGED <<given, disk, network, peers, walk>>

Ended == pc = "done" /\ UNCHANGED vars

Function ==
    \/ LoadVars \/ LoadPartials \/ Decide \/ Find \/ Walk \/ Full
    \/ Author \/ Check \/ Compile
Next == Function \/ Ended

Spec == Init /\ [][Next]_vars
-----------------------------------------------------------------------------
Assignment ==
    [key : Key \cup Value, addr : Word, name : Label \cup {None} \cup Value, file : FileName]

TypeOK ==
    /\ WalkTypeOK
    /\ \A f \in DOMAIN folder : f \in FileName
    /\ pc \in {"vars", "partials", "decide", "find", "walk", "check", "compile", "done"}
    /\ table \in [Variable -> Value \cup {None}]
    /\ ToSet(existing) \cup ToSet(assigns) \subseteq Assignment
    /\ fpath \in {None} \cup FileName
    /\ reply \in {"none", "present", "added", "absent", "removed", "refused", "failed"}

\* A label that is one line, and holds no placeholder.
PlainLabel == Len(request.label) = 1 /\ request.label[1].ref = None

\* The loader, the scanner and the check agree with the writer: the folder as
\* it is read back holds the peers it held, in their order, and in one row those
\* of the new file, which end with the peer that was asked for.  If the label is
\* one line, that peer is the only one, under the label without its blanks;
\* the lines of a longer label (peer.cpp:169) may make others.
RoundTrip ==
    reply = "added" =>
        \E i \in 0..Len(assigns) : \E j \in (i + 1)..Len(assigns) :
            /\ {k \in DOMAIN assigns : assigns[k].file = fpath} = (i + 1)..j
            /\ existing = SubSeq(assigns, 1, i) \o SubSeq(assigns, j + 1, Len(assigns))
            /\ assigns[j].key = request.key /\ assigns[j].addr = host
            /\ Len(request.label) = 1 => j = i + 1
            /\ PlainLabel => assigns[j].name = ReadName(request.label[1].val)

\* A remove that was answered "removed" took the peers of one file and no
\* other, in their old order, and the key is gone unless it stood twice.
RemoveExact ==
    reply = "removed" =>
        /\ \E i \in 0..Len(existing) : \E j \in i..Len(existing) :
            /\ {k \in DOMAIN existing : existing[k].file = fpath} = (i + 1)..j
            /\ assigns = SubSeq(existing, 1, i) \o SubSeq(existing, j + 1, Len(existing))
        /\ \A a \in ToSet(assigns) : a.key = request.key =>
              \E i, j \in DOMAIN existing :
                  i # j /\ existing[i].key = request.key /\ existing[j].key = request.key

\* No file but the one that is authored or deleted is touched, whatever names
\* the folder holds; in particular the name of a new file is new.
OthersUntouched ==
    \A f \in DOMAIN before :
        \/ f = fpath /\ request.op = "remove"
        \/ f \in DOMAIN folder /\ folder[f] = before[f]

\* A command that does not succeed leaves the folder as it found it, wherever
\* it fails: "delete the partial so source and live state stay in sync"
\* (commands/peer.cpp:209), or put it back.
Restored ==
    reply \in {"refused", "failed", "present", "absent"} => folder = before

\* A partial that the add authored under a plain label is never itself the
\* reason for it to be refused: the folder without it is refused as well.  (A
\* label is substituted and read like any other text: with a placeholder, or
\* with lines of its own, it may well be the reason.)
FailsForCause ==
    reply = "refused" /\ request.op = "add" /\ fpath # None /\ PlainLabel =>
        LET tab == Table(folder[Listing(folder)[1]], request.env)
        IN  ~ Accepts(Loaded(folder, tab), tab)

\* The lines of text mean what vars.h:53-56 says, wherever placeholders,
\* escapes and lone characters stand: a value for every name, "${name}" for
\* every escaped one, all other characters as they were, and an error exactly
\* if a name that is not escaped is undefined.  (An escape that is never
\* closed is left out: the text before it is emitted twice.)
SubstitutedAsDocumented ==
    pc = "partials" =>
        \A f \in DOMAIN folder : \A l \in ToSet(folder[f]) :
            l.t = "text" /\ EscapesClosed(l.val) =>
                LET text == l.val
                    names == {p \in Placed(text) : ~ IsEscaped(text, p)}
                    value(p) == Get(Name(text, p), table)
                    covered(i) ==
                        \/ \E p \in names : i \in (p[1] + 1)..p[2]
                        \/ \E p \in Placed(text) \ names : i = p[1] - 1
                    piece(i) ==
                        IF \E p \in names : p[1] = i
                        THEN <<value(CHOOSE p \in names : p[1] = i)>>
                        ELSE IF covered(i) THEN <<>> ELSE <<text[i]>>
                IN
                IF \E p \in names : value(p) = None
                THEN Undefined(l, table)
                ELSE /\ ~ Undefined(l, table)
                     /\ Rendered(text, table) = FlattenSeq([i \in DOMAIN text |-> piece(i)])

(***************************************************************************)
(* What WireGuard reads: a block is all lines of the whole conf up to the   *)
(* next header, with the one key and address that a tidy block has.         *)
(***************************************************************************)
Headers == {"peer", "interface"}
Block(lines, i) ==
    {j \in (i + 1)..Len(lines) : \A k \in (i + 1)..j : lines[k].t \notin Headers}
Peers(lines) ==
    LET in(i, t) == {lines[j].val : j \in {k \in Block(lines, i) : lines[k].t = t}}
        blocks == {i \in DOMAIN lines : lines[i].t = "peer"}
    IN  UNION {{<<k, c.addr>> : k \in in(i, "key"), c \in in(i, "ips")} : i \in blocks}

\* One PublicKey and one AllowedIPs line to a block, none outside of [Peer].
Tidy(lines) ==
    \A i \in DOMAIN lines : lines[i].t \in {"key", "ips"} =>
        \E b \in 1..(i - 1) :
            /\ lines[b].t = "peer" /\ i \in Block(lines, b)
            /\ \A j \in Block(lines, b) : lines[j].t = lines[i].t => j = i

\* The peers that wirebard checked file by file are those that WireGuard
\* finds in the one conf: all of them, each once.
ConfMatchesLedger ==
    reply \in {"added", "removed"} /\ (\A f \in DOMAIN folder : Tidy(folder[f])) =>
        /\ Peers(conf) = {<<a.key, a.addr>> : a \in ToSet(assigns)}
        /\ Cardinality({p[2] : p \in Peers(conf)}) = Len(assigns)

\* "The server PrivateKey is injected exactly once, right under the first
\* [Interface] header we emit" (render.cpp:43); a blank server.key "renders
\* WITHOUT it" (render.h:21), and the command succeeds.
KeyOnce ==
    reply \in {"added", "removed"} =>
        LET keys == {j \in DOMAIN conf : conf[j].t = "private"} IN
        IF hasKey
        THEN \E i \in DOMAIN conf :
                /\ conf[i].t = "interface"
                /\ \A j \in 1..(i - 1) : conf[j].t # "interface"
                /\ keys = {i + 1}
        ELSE keys = {}

\* A variable has the value of the environment's last line for it, or else of
\* the last base line, wherever the lines stand.
Overlaid ==
    pc = "partials" =>
        LET lines == folder[Listing(folder)[1]]
            of(e, v) == {i \in DOMAIN lines :
                            /\ lines[i].t = "var"
                            /\ lines[i].val.env = e /\ lines[i].val.name = v}
            last(S) == lines[CHOOSE i \in S : \A j \in S : j <= i].val.value
        IN
        \A v \in Variable :
            table[v] = IF request.env # None /\ of(request.env, v) # {}
                       THEN last(of(request.env, v))
                       ELSE IF of(None, v) # {} THEN last(of(None, v)) ELSE None
=============================================================================
