----------------------- MODULE ProvisioningProperties -----------------------
(* What the model-checking runs ask of Provisioning.                        *)
EXTENDS Provisioning

(***************************************************************************)
(* The ledger as callers may rely on it: a change that is still in flight,  *)
(* and that its process would roll back, has not happened yet.              *)
(***************************************************************************)
Settled ==
    IF lock # NoProcess /\ mine[lock] # NoFile
    THEN [ledger EXCEPT ![mine[lock]] = saved[lock]]
    ELSE ledger

R == INSTANCE Registry WITH
    members <- PeersOf(Settled),
    request <- req,
    answer <- [p \in Process |-> IF pc[p] = "exit" THEN reply[p] ELSE "none"]

\* peer add and peer remove are atomic and all-or-nothing towards the ledger,
\* whatever other commands, failures and crashes they meet (commands/peer.cpp
\* with FileLock and the rollback of a failed apply).
RegistrySpec == R!Spec

\* No interleaving of commands, failure, crash or reboot ever gives the ledger
\* two peers with one key or one address, or a peer outside the subnet, not
\* even while a change is in flight (FileLock around allocate_address and the
\* authoring of the partial; the rollback of a remove).
LedgerSound == Sound(ledger)

\* When nobody holds the lock the ledger, the installed conf and the interface
\* agree, what is live comes back after a reboot, and the copy of the private
\* key in .sync is gone (execute_apply under FileLock).
LockFreeConsistent ==
    lock = NoProcess => /\ conf = PeersOf(ledger)
                        /\ up => (live = conf /\ unit /\ enabled)
                        /\ syncFile = {}

\* Adding or removing a peer never interrupts another one: a peer that is live
\* and stays in the ledger stays live (wg syncconf of the whole conf, never a
\* restart of the interface).
NoPeerInterrupted ==
    [][\A a \in live : (a \in PeersOf(ledger) /\ a \in PeersOf(ledger'))
                        => a \in live']_vars

\* Every command comes to an end: the wait for the lock is bounded and every
\* failure path leads to exit (FileLock::acquire, commands/peer.cpp).
CommandsTerminate == \A p \in Process : pc[p] # "idle" ~> pc[p] = "idle"

\* A peer becomes live only when a reboot would bring it back: the conf that
\* holds it is installed and the unit is enabled ("in this order so a crash
\* never leaves it un-persisted", design doc, 5).
PersistedBeforeLive ==
    [][\A a \in live' \ live : a \in conf' /\ enabled']_vars

\* A command that exits 0 after it has applied leaves the interface up with
\* exactly the installed conf and the unit enabled; an add or a remove, whatever
\* failed or crashed before it and whatever a concurrent apply installed, leaves
\* the ledger in agreement as well ("applied+persisted-before-exit-0", 7).
AppliedBeforeExit ==
    [][\A p \in Process :
        (pc[p] # "exit" /\ pc'[p] = "exit"
           /\ reply'[p] \in {"added", "removed", "applied"})
          => /\ enabled' /\ up' /\ unit' /\ live' = conf'
             /\ reply'[p] # "applied" => conf' = PeersOf(ledger')]_vars

\* The interface never routes one address to two peers, a key twice, or an
\* address outside the subnet, and neither does the conf it is restarted from,
\* although partials are edited by hand and commands without the lock read them
\* one by one while others change them: check_network stands before every
\* install.
InstalledSound ==
    /\ SoundPeers(conf) /\ SoundPeers(live)
    /\ \A c \in syncFile : SoundPeers(c)

-----------------------------------------------------------------------------
(* What comments and the design document say, and the code does not do.     *)

\* "already applied on a previous add" (commands/peer.cpp:203): the key an add
\* reports as present is in the installed conf.
PresentMeansApplied ==
    \A p \in Process :
        (pc[p] = "exit" /\ reply[p] = "present")
          => req[p].key \in KeysOf(conf)

\* "The per-network lock makes concurrent callers safe; ... so the source never
\* diverges from the live interface" (commands/peer.cpp:5-6): with the lock free
\* and nothing failing, every peer of the ledger is in the installed conf and
\* no other is.
SourceNeverDiverges == lock = NoProcess => conf = PeersOf(ledger)

\* "apply fails -> restore previous conf, delete partial, exit 3" (design doc,
\* 5): an add that rolls its partial back leaves no trace of it in the conf.
FailedAddRestoresConf ==
    \A p \in Process :
        (pc[p] = "exit" /\ reply[p] = "env" /\ lock = p)
          => conf \subseteq PeersOf(ledger)
=============================================================================
