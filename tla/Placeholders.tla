---------------------------- MODULE Placeholders ----------------------------
(***************************************************************************)
(* scan_placeholders (vars.cpp): a text, as a sequence of characters, is     *)
(* cut into literals, placeholders ${name} and escaped placeholders          *)
(* $${name}.                                                                *)
(***************************************************************************)
EXTENDS Integers, Sequences, FiniteSets

CONSTANTS
    Dollar, Open, Close,  \* the characters $ { }
    Ident                 \* the characters of names: letters, digits, _

ASSUME CharactersAssumption ==
    Dollar \notin {Open, Close} \cup Ident /\ Close \notin {Open} \cup Ident

CharAt(text, i, c) == i \in DOMAIN text /\ text[i] = c

Token(kind, piece) == <<[kind |-> kind, piece |-> piece]>>

\* No token for an empty literal.
Literal(text, from, to) ==
    IF from <= to THEN Token("literal", SubSeq(text, from, to)) ELSE <<>>

\* Mutant: an escape is passed on as it stands.
EscapedWhole(text, i, close) == Token("escaped", SubSeq(text, i, close))

\* "$${name}" without its first $.
Escaped(text, i, close) == Token("escaped", SubSeq(text, i + 1, close))

\* The first position in a set, or the one after the text.
FirstOf(text, positions) ==
    LET all == positions \cup {Len(text) + 1} IN
    CHOOSE i \in all : \A j \in all : i <= j

Closer(text, i) == FirstOf(text, {j \in i..Len(text) : text[j] = Close})
NameEnd(text, i) == FirstOf(text, {j \in i..Len(text) : text[j] \notin Ident})

\* From character i on, where the literal not yet passed on begins at start.
\* An escape that nothing closes passes the literal on and keeps its start.
Tokens(text) ==
    LET n == Len(text)
        scan[i \in 1..(n + 1)] == [start \in 1..i |->
            LET literal == Literal(text, start, i - 1)
                close == Closer(text, i + 2)
                end == NameEnd(text, i + 2)
                escape == /\ CharAt(text, i, Dollar)
                          /\ CharAt(text, i + 1, Dollar)
                          /\ CharAt(text, i + 2, Open)
                named == /\ CharAt(text, i, Dollar)
                         /\ CharAt(text, i + 1, Open)
                         /\ end > i + 2 /\ CharAt(text, end, Close)
            IN
            CASE i > n -> literal
              [] escape /\ close <= n ->
                    literal \o Escaped(text, i, close) \o scan[close + 1][close + 1]
              [] escape /\ close > n -> literal \o scan[i + 1][start]
              [] named ->
                    literal \o Token("placeholder", SubSeq(text, i + 2, end - 1))
                            \o scan[end + 1][end + 1]
              [] OTHER -> scan[i + 1][start]]
    IN  scan[1][1]
-----------------------------------------------------------------------------
(* What vars.h says of them, position by position.                          *)

\* ${name} stands from i to j.
Stands(text, i, j) ==
    /\ CharAt(text, i, Dollar) /\ CharAt(text, i + 1, Open)
    /\ j > i + 2 /\ CharAt(text, j, Close)
    /\ \A k \in (i + 2)..(j - 1) : text[k] \in Ident

Placed(text) ==
    {p \in (1..Len(text)) \X (1..Len(text)) : Stands(text, p[1], p[2])}
IsEscaped(text, p) == CharAt(text, p[1] - 1, Dollar)
Name(text, p) == SubSeq(text, p[1] + 2, p[2] - 1)

\* Every $${ goes on with a name and }.
EscapesClosed(text) ==
    \A i \in 2..Len(text) :
        (CharAt(text, i - 1, Dollar) /\ CharAt(text, i, Dollar) /\ CharAt(text, i + 1, Open))
            => \E p \in Placed(text) : p[1] = i
=============================================================================
