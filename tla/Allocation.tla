----------------------------- MODULE Allocation -----------------------------
(***************************************************************************)
(* Subnet (net.cpp) and allocate_address (alloc.cpp) in the program's       *)
(* wrapping arithmetic, the walk over the hosts one iteration a step.       *)
(*                                                                          *)
(* A CIDR addr/p is a record of addr and the size 2^(32-p) of the subnet    *)
(* that p stands for, so that masks become remainders.                      *)
(***************************************************************************)
EXTENDS Integers

CONSTANT Span  \* how many addresses there are: 2^32

ASSUME SpanAssumption == Span \in Nat \ {0}

Word == 0..(Span - 1)
Wrap(n) == n % Span

\* Prefix 32 is size 1, prefix 0 is size Span.
Sizes == {z \in 1..Span : Span % z = 0}
Cidr == [addr : Word, size : Sizes]

Masked(addr, size) == addr - (addr % size)

\* What Subnet::parse makes of a CIDR: the host bits masked off.
SubnetOf(c) == [addr |-> Masked(c.addr, c.size), size |-> c.size]
Subnets == {SubnetOf(c) : c \in Cidr}

Broadcast(s) == s.addr + s.size - 1
InSubnet(s, addr) == Masked(addr, s.size) = s.addr
FirstHost(s) == Wrap(s.addr + 1)
LastHost(s) == Wrap(Broadcast(s) - 1)

VARIABLES
    phase,   \* idle, walk, found, full
    subnet,  \* the arguments: the subnet,
    used,    \* and the addresses of the server and of the peers
    host        \* the host looked at

walk == <<phase, subnet, used, host>>

WalkTypeOK ==
    /\ phase \in {"idle", "walk", "found", "full"}
    /\ subnet \in Subnets
    /\ used \in SUBSET Word
    /\ host \in Word

WalkInit ==
    /\ phase = "idle"
    /\ subnet = [addr |-> 0, size |-> Span]
    /\ used = {}
    /\ host = 0

\* Mutant: no early return for the small subnets.
BeginAlways(s, taken) ==
    /\ subnet' = s
    /\ used' = taken
    /\ phase' = "walk"
    /\ host' = FirstHost(s)

\* A /31 or a /32 has no host.
Begin(s, taken) ==
    /\ subnet' = s
    /\ used' = taken
    /\ IF s.size <= 2
       THEN phase' = "full" /\ UNCHANGED host
       ELSE phase' = "walk" /\ host' = FirstHost(s)

\* The first gap wins.
Take ==
    /\ phase = "walk"
    /\ host \notin used
    /\ phase' = "found"
    /\ UNCHANGED <<subnet, used, host>>

\* A host in use: go on, unless it is the last.
Step ==
    /\ phase = "walk"
    /\ host \in used
    /\ phase' = IF host = LastHost(subnet) THEN "full" ELSE "walk"
    /\ host' = IF phase' = "full" THEN host ELSE Wrap(host + 1)
    /\ UNCHANGED <<subnet, used>>
-----------------------------------------------------------------------------
\* The addresses check_network lets a peer have (check.cpp:95-103).
HostsOf(s) == {a \in Word : InSubnet(s, a) /\ a # s.addr /\ a # Broadcast(s)}

\* The walk finds the lowest address that check accepts and nobody uses, and
\* reports a full subnet only when there is none: wherever the subnet lies,
\* the top of the 32-bit range included.
AllocatesLowest ==
    LET free == HostsOf(subnet) \ used IN
    /\ phase = "found" => host \in free /\ \A g \in free : host <= g
    /\ phase = "full" => free = {}
=============================================================================
