--------------------------- MODULE MCCommandLine ---------------------------
(* Constants of CommandLine for TLC.                                         *)
EXTENDS CommandLine

MCText == STRING
MCNames == <<"home", "roam">>
MCLayouts == {{".", "/etc/wireguard"}, {"/etc/wireguard", "lab"}}
MCKeys == {"key"}

\* Any four tokens, of each kind one or two.
Tokens == {"build", "home", "-C", "lab", "--env", "--dry-run", "-h", "--frob"}
Scrambled == UNION {[1..n -> Tokens] : n \in 0..4}

\* Sensible ones.
Options == {<<>>, <<"--dry-run">>}
Loops ==
    {<<c>> \o n : c \in {"build", "check", "apply"}, n \in {<<>>, <<"roam", "home">>}}
    \cup {<<"apply", "--dry-run">>, <<"build", "--dry-run">>, <<"check", "gone">>}
Lists == {<<"list">>, <<"network", "list">>, <<"network">>, <<"list", "-C", "lab">>}
Peers ==
    {<<"peer", s, "--network", n, "--pubkey", k>> \o o :
        s \in {"add", "list"}, n \in {"home", "gone"}, k \in {"key", "junk"}, o \in Options}
Swallowed == {<<"peer", "remove", "--network", "home", "--pubkey", "key", "--name", "--dry-run">>}
MCInvocations == Scrambled \cup Loops \cup Lists \cup Peers \cup Swallowed
=============================================================================
