---------------------------- MODULE AddressPlan ----------------------------
(***************************************************************************)
(* The allocation ledger of one network and the pure functions wirebard    *)
(* computes over it: which address a new peer gets (alloc.cpp) and when a   *)
(* network is valid (check.cpp).                                            *)
(*                                                                          *)
(* A network folder is a function from file names to the [Peer] blocks the  *)
(* file holds.  A file that is not there holds none.  00-main.conf carries  *)
(* the variables and no peers; the variables appear here as the constants   *)
(* Network, Broadcast (the `subnet` variable) and Server (`address`).       *)
(***************************************************************************)
EXTENDS Integers

CONSTANTS
    Key,         \* WireGuard public keys
    File,        \* names a peer partial may have
    MaxAddress,  \* the largest address: 2^32 - 1 in the program
    Network,     \* the subnet's network address
    Broadcast,   \* the subnet's broadcast address
    Server       \* the server's own address

ASSUME AddressAssumption ==
    /\ MaxAddress \in Nat
    /\ Network \in 0..MaxAddress
    /\ Broadcast \in Network..MaxAddress
    /\ Server \in 0..MaxAddress

Address == 0..MaxAddress
Peer == [key : Key, addr : Address]
Folder == [File -> SUBSET Peer]
NoPartials == [f \in File |-> {}]

\* The compiled peer files of a folder (list_partials).
Present(folder) == {f \in File : folder[f] # {}}

\* Every [Peer] block of a folder (collect_assignments).
PeersOf(folder) == UNION {folder[f] : f \in File}
KeysOf(peers) == {a.key : a \in peers}
AddressesOf(peers) == {a.addr : a \in peers}

\* Mutant: a sign slip in first_host.
HostsShifted == (Network - 1)..(Broadcast - 1)

(***************************************************************************)
(* Subnet::first_host .. Subnet::last_host.  A /31 or a /32 has Broadcast - *)
(* Network < 2 and no host, which is the early return of allocate_address.  *)
(***************************************************************************)
Hosts == (Network + 1)..(Broadcast - 1)

(***************************************************************************)
(* allocate_address for a key that has no assignment yet: hosts are walked  *)
(* from the lowest, and the first one that neither the server nor a peer    *)
(* uses wins; none is left when the subnet is full.                         *)
(***************************************************************************)
Free(peers) == Hosts \ ({Server} \cup AddressesOf(peers))
LowestFree(peers) ==
    CHOOSE h \in Free(peers) : \A g \in Free(peers) : h <= g

(***************************************************************************)
(* The per-peer checks of check_network: no key and no address twice, every *)
(* address a host of the subnet, none the server's.                         *)
(***************************************************************************)
Distinct(folder) ==
    \A f, g \in File : \A a \in folder[f], b \in folder[g] :
        (a.key = b.key \/ a.addr = b.addr) => (f = g /\ a = b)
Placed(peers) == AddressesOf(peers) \subseteq Hosts \ {Server}
Sound(folder) == Distinct(folder) /\ Placed(PeersOf(folder))

\* The same for the peers of a compiled conf, where files no longer exist.
SoundPeers(peers) ==
    /\ \A a, b \in peers : (a.key = b.key \/ a.addr = b.addr) => a = b
    /\ Placed(peers)
=============================================================================
