----------------------------- MODULE MCSources -----------------------------
(* Constants of Sources for TLC.                                            *)
EXTENDS Sources

CONSTANTS k1, k2, k3, k4, alice, padded, blank, bob, ay, tee

MCSpan == 8
MCKey == {k1, k2, k3, k4}
MCLabel == {alice, padded, blank, bob}
MCBare == (padded :> alice) @@ (blank :> None) @@ [l \in {alice, bob} |-> l]
MCEnv == {"prod"}

\* The variables address and tag are spelt with one character each; nothing is
\* spelt with two.
MCIdent == {ay, tee}
MCSpelling == <<ay>> :> "address" @@ <<tee>> :> "tag"
Main == 0

Set(env, name, addr, size) ==
    Line("var", [env |-> env, name |-> name, value |-> [addr |-> addr, size |-> size]])
Interface(form) == Line("interface", form)
Text(text) == Line("text", text)
Ref(char) == <<Dollar, Open, char, Close>>
Ips(addr) == Line("ips", [addr |-> addr, size |-> 1])

\* The subnets 4..7 (at the top of the range), 0..7 (all of it) and 6..7 (no
\* hosts); an environment above its base line; two headers; no subnet; no
\* endpoint.
Server == <<Set(None, "endpoint", 0, 0), Set(None, "server_public_key", 0, 0)>>
Top == Server \o <<Set(None, "subnet", 5, 4), Set(None, "address", 5, 4)>>
Wide == Server \o <<Set(None, "subnet", 0, 8), Set(None, "address", 2, 8), Interface("plain")>>
Mains == {
    Top \o <<Interface("plain")>>,
    <<Set("prod", "address", 6, 4)>> \o Top \o <<Interface("plain"), Text(Ref(ay))>>,
    Top \o <<Interface("plain"), Text(<<tee>>), Interface("upper"), Set("prod", "tag", 1, 1)>>,
    Top \o <<Interface("upper")>>,
    Wide,
    Server \o <<Set(None, "subnet", 6, 2), Set(None, "address", 6, 2), Interface("plain")>>,
    Server \o <<Set(None, "address", 6, 2), Interface("plain")>>,
    Tail(Top) \o <<Interface("plain")>> }

\* What a hand may write into a partial.
Written == {Line("name", bob), Line("peer", None), Line("key", k2), Ips(6), Ips(1),
            Interface("plain"), Set(None, "tag", 1, 1),
            [t |-> "ips", val |-> None, ref |-> "address"]}
Short == {<<x, y>> : x, y \in Written} \cup {<<x, y, z>> : x, y, z \in Written}
Tidied(key, addr) == <<Line("peer", None), Line("key", key), Ips(addr)>>

\* A gap in the names, a name past 99, a name without a number; two peers in
\* a file, and two files with one address.
HandFolders ==
    {(Main :> m) @@ hand : m \in Mains, hand \in
        {<<>>}
        \cup {10 :> s : s \in Short}
        \cup {(Unnumbered :> s) @@ (90 :> Tidied(k2, 6)) :
                s \in {<<Line("peer", None)>>, <<Line("name", bob)>>, <<Text(Ref(tee))>>}}
        \cup {(90 :> Tidied(k2, 6)) @@ (100 :> s) :
                s \in {<<Line("peer", None)>>, Tidied(k3, 7), Tidied(k3, 6)}}
        \cup {10 :> Tidied(k2, x) \o Tidied(k3, y) : x, y \in {1, 6, 7}}}

\* Every text of up to six characters.
TextFolders ==
    {Main :> Top \o <<Set(None, "tag", 1, 1), Interface("plain"), Text(text)>> :
        text \in UNION {[1..n -> {Dollar, Open, Close, tee}] : n \in 0..6}}

\* A key in two files, peers in the main file, a file that the others need.
RemoveFolders ==
    {(Main :> Top \o <<Interface("plain")>> \o p) @@ (20 :> q) @@ (90 :> r) :
        p \in {<<>>, Tidied(k2, 6)},
        q \in {Tidied(k2, 6), Tidied(k3, 6), Tidied(k3, 7) \o Tidied(k2, 6)},
        r \in {<<>>, Tidied(k2, 6), Tidied(k1, 6), <<Line("ips", NotACidr)>>}}

\* Room for more peers beside those that there are.
AddFolders ==
    {(Main :> Wide \o p) @@ (20 :> q) @@ (90 :> r) :
        p \in {<<>>, Tidied(k3, 4)},
        q \in {<<Line("peer", None)>>, Tidied(k2, 1), Tidied(k3, 6)},
        r \in {<<>>, Tidied(k3, 3), Tidied(k2, 3), <<Interface("upper")>>}}

\* A name at the command line: blanks at its ends or nothing else, a
\* placeholder, or a name with more lines after it.
Called(label) == <<Line("name", label)>>
CalledBy(var) == <<[t |-> "name", val |-> None, ref |-> var]>>
LongNames ==
    {Called(alice) \o more : more \in
        {<<l>> : l \in Written \cup {Text(<<tee>>), Text(Ref(ay))}}
        \cup {Tidied(k4, 5), Tidied(k4, 6), Tidied(k1, 5), Tidied(k4, 5) \o Called(bob),
            Tail(Tidied(k4, 5))}}

AddOf(key, label, env) == [op |-> "add", key |-> key, label |-> label, env |-> env]
RemoveOf(key, env) == [op |-> "remove", key |-> key, label |-> Called(None), env |-> env]
CasesOf(folders, requests, keys) == [folder : folders, request : requests, hasKey : keys]

MCCases ==
    CasesOf(HandFolders,
            {AddOf(k1, Called(alice), None), AddOf(k1, Called(padded), "prod"),
             AddOf(k2, CalledBy("tag"), None), RemoveOf(k2, None), RemoveOf(k3, "prod")},
            {TRUE})
    \cup CasesOf(RemoveFolders, {RemoveOf(k2, None)}, BOOLEAN)
    \cup CasesOf(AddFolders, {AddOf(k1, Called(blank), None), AddOf(k1, CalledBy("address"), None)},
                 BOOLEAN)
    \cup CasesOf(AddFolders, {AddOf(k1, name, None) : name \in LongNames}, {TRUE})
    \cup CasesOf(TextFolders, {AddOf(k1, Called(alice), None)}, {TRUE})

\* The same with a remark after the header.
NotedCases ==
    CasesOf({Main :> Top \o <<Interface("noted")>>}, {AddOf(k1, Called(alice), None)}, {TRUE})
=============================================================================
