------------------------- MODULE ProvisioningProofs -------------------------
(* Theorems about Provisioning for every set of processes, keys and files,   *)
(* every subnet, every mix of commands and every mix of faults: types, the   *)
(* peers in the ledger and in what is installed, the contract of Registry,   *)
(* and, last, the host: what an apply leaves behind.                         *)
EXTENDS ProvisioningProperties, WellFoundedInduction, TLAPS

LEMMA NoPartialsType == NoPartials \in Folder
BY DEF NoPartials, Folder

LEMMA PeersOfType ==
    ASSUME NEW folder \in Folder
    PROVE  PeersOf(folder) \in SUBSET Peer
BY DEF PeersOf, Folder

LEMMA SuccessType == ASSUME NEW p PROVE Success(p) \in Replies
BY DEF Success, Replies, Done

\* Unless the subnet is full, allocate_address yields an address.
LEMMA LowestFreeType ==
    ASSUME NEW peers \in SUBSET Peer, Free(peers) # {}
    PROVE  /\ LowestFree(peers) \in Free(peers)
           /\ \A g \in Free(peers) : LowestFree(peers) <= g
<1>1. Free(peers) \subseteq Nat
  BY AddressAssumption DEF Free, Hosts
<1>2. PICK h \in Free(peers) :
           \A g \in Free(peers) : ~ (<<g, h>> \in OpToRel(<, Nat))
  BY <1>1, NatLessThanWellFounded, WFMin
<1>3. \A g \in Free(peers) : ~ (g < h)
  BY <1>1, <1>2, Zenon DEF OpToRel
<1>4. \A g \in Free(peers) : h <= g
  BY <1>1, <1>3
<1> QED BY <1>4 DEF LowestFree

LEMMA TypeInit == Init => TypeOK
<1> SUFFICES ASSUME Init PROVE TypeOK
  OBVIOUS
<1>1. "idle" \in Labels /\ "none" \in Replies
  BY DEF Labels, Replies
<1>2. /\ pc \in [Process -> Labels]
      /\ req \in [Process -> Request \cup {NoRequest}]
      /\ reply \in [Process -> Replies]
  BY <1>1 DEF Init
<1> QED BY <1>2, NoPartialsType DEF Init, TypeOK

LEMMA AuthoredType ==
    ASSUME TypeOK, NEW p \in Process, Author(p)
    PROVE  ledger' \in Folder
<1> USE DEF TypeOK
<1>1. PICK f \in File :
           ledger' = [ledger EXCEPT ![f] =
             {[key |-> req[p].key, addr |-> LowestFree(PeersOf(snap[p]))]}]
  BY DEF Author, Present
<1>2. req[p].key \in Key
  BY DEF Author, Deciding, Request, NoRequest, LedgerOps, AllOps
<1>3. LowestFree(PeersOf(snap[p])) \in Address
  BY LowestFreeType, PeersOfType, AddressAssumption DEF Author, Free, Hosts, Address
<1> QED BY <1>1, <1>2, <1>3 DEF Folder, Peer

\* Reading the folder keeps the types.
LEMMA TypeLoad ==
    ASSUME TypeOK, NEW p \in Process, LoadStep(p)
    PROVE  TypeOK'
<1> USE DEF TypeOK, Goto, Labels, disk, host, load, undo
<1>1. CASE ListForVars(p)
  BY <1>1 DEF ListForVars, Present
<1>2. CASE LoadVars(p)
  BY <1>2, NoPartialsType DEF LoadVars, Present
<1>3. CASE VarsVanished(p)
  BY <1>3, NoPartialsType DEF VarsVanished, LoadFails, Fail, Unload, Replies
<1>4. CASE ReadPartial(p)
  BY <1>4 DEF ReadPartial, Present, Folder
<1>5. CASE PartialVanished(p)
  BY <1>5, NoPartialsType DEF PartialVanished, LoadFails, Fail, Unload, Replies
<1> QED BY <1>1, <1>2, <1>3, <1>4, <1>5 DEF LoadStep

\* Deciding, changing the ledger and rolling back keep the types.
LEMMA TypeLedger ==
    ASSUME TypeOK, NEW p \in Process, LedgerStep(p)
    PROVE  TypeOK'
<1> USE DEF TypeOK, Goto, Labels, disk, host, load, undo
<1>1. CASE AddPresent(p)
  BY <1>1, NoPartialsType DEF AddPresent, Finish, Unload, Replies, Done
<1>2. CASE AddFull(p)
  BY <1>2, NoPartialsType DEF AddFull, Finish, Unload, Replies, Done
<1>3. CASE Author(p)
  <2>1. ledger' \in Folder
    BY <1>3, AuthoredType
  <2>2. mine' \in [Process -> File \cup {NoFile}]
    BY <1>3 DEF Author
  <2> QED BY <1>3, <2>1, <2>2 DEF Author
<1>4. CASE AuthorFails(p)
  BY <1>4, NoPartialsType DEF AuthorFails, Fail, Unload, Replies
<1>5. CASE RemoveAbsent(p)
  BY <1>5, NoPartialsType DEF RemoveAbsent, Finish, Unload, Replies, Done
<1>6. CASE Delete(p)
  BY <1>6 DEF Delete, Present, Folder
<1>7. CASE DeleteFails(p)
  BY <1>7, NoPartialsType DEF DeleteFails, Fail, Unload, Replies
<1>8. CASE Rollback(p)
  BY <1>8, NoPartialsType DEF Rollback, Finish, Unload, Replies, Done, Folder
<1>9. CASE RollbackFails(p)
  BY <1>9, NoPartialsType DEF RollbackFails, Finish, Unload, Replies, Done
<1> QED BY <1>1, <1>2, <1>3, <1>4, <1>5, <1>6, <1>7, <1>8, <1>9 DEF LedgerStep

\* Checking, compiling and installing keep the types.
LEMMA TypeSpine ==
    ASSUME TypeOK, NEW p \in Process, SpineStep(p)
    PROVE  TypeOK'
<1> USE DEF TypeOK, Goto, Labels, disk, host, load, undo
<1>1. CASE CheckFails(p)
  BY <1>1, NoPartialsType DEF CheckFails, Fail, Unload, Replies
<1>2. CASE Show(p)
  BY <1>2, NoPartialsType, SuccessType DEF Show, Finish, Unload, Replies, Done
<1>3. CASE Compile(p)
  BY <1>3 DEF Compile
<1>4. CASE CompileFails(p)
  BY <1>4, NoPartialsType DEF CompileFails, Fail, Unload, Replies
<1>5. CASE Install(p)
  BY <1>5, NoPartialsType, SuccessType, PeersOfType DEF Install, Finish, Unload, Replies, Done
<1>6. CASE InstallFails(p)
  BY <1>6, NoPartialsType DEF InstallFails, Fail, Unload, Replies
<1> QED BY <1>1, <1>2, <1>3, <1>4, <1>5, <1>6 DEF SpineStep

\* execute_apply after the conf is installed keeps the types.
LEMMA TypeApply ==
    ASSUME TypeOK, NEW p \in Process, ApplyStep(p)
    PROVE  TypeOK'
<1> USE DEF TypeOK, Goto, Labels, disk, host, load, undo
<1>1. CASE Enable(p)
  BY <1>1 DEF Enable
<1>2. CASE EnableFails(p)
  BY <1>2, NoPartialsType DEF EnableFails, Fail, Unload, Replies
<1>3. CASE Probe(p)
  BY <1>3 DEF Probe
<1>4. CASE ProbeFails(p)
  BY <1>4, NoPartialsType DEF ProbeFails, Fail, Unload, Replies
<1>5. CASE Strip(p)
  BY <1>5 DEF Strip
<1>6. CASE StripFails(p)
  BY <1>6, NoPartialsType DEF StripFails, Fail, Unload, Replies
<1>7. CASE SyncConf(p)
  BY <1>7 DEF SyncConf
<1>8. CASE SyncConfFails(p)
  BY <1>8 DEF SyncConfFails, Replies
<1>9. CASE RemoveSync(p)
  BY <1>9, NoPartialsType, SuccessType DEF RemoveSync, Fail, Finish, Unload, Replies, Done
<1>10. CASE Start(p)
  BY <1>10, NoPartialsType, SuccessType DEF Start, Finish, Unload, Replies, Done
<1>11. CASE StartFails(p)
  BY <1>11, NoPartialsType DEF StartFails, Fail, Unload, Replies
<1> QED BY <1>1, <1>2, <1>3, <1>4, <1>5, <1>6, <1>7, <1>8, <1>9, <1>10, <1>11 DEF ApplyStep

\* What processes and their environment do keeps the types.
LEMMA TypeStep == TypeOK /\ [Next]_vars => TypeOK'
<1> SUFFICES ASSUME TypeOK, [Next]_vars PROVE TypeOK'
  OBVIOUS
<1> USE DEF TypeOK, Goto, Labels, disk, host, load, undo
<1>1. ASSUME NEW p \in Process, Invoke(p) PROVE TypeOK'
  BY <1>1 DEF Invoke
<1>2. ASSUME NEW p \in Process, Step(p) PROVE TypeOK'
  <2>1. CASE Acquire(p)
    BY <2>1 DEF Acquire
  <2>2. CASE LockTimeout(p)
    BY <2>2, NoPartialsType DEF LockTimeout, Fail, Unload, Replies
  <2>3. CASE Exit(p)
    BY <2>3 DEF Exit, Replies
  <2>4. CASE LoadStep(p) \/ LedgerStep(p) \/ SpineStep(p) \/ ApplyStep(p)
    BY <2>4, TypeLoad, TypeLedger, TypeSpine, TypeApply
  <2> QED BY <1>2, <2>1, <2>2, <2>3, <2>4 DEF Step
<1>3. ASSUME NEW p \in Process, Crash(p) PROVE TypeOK'
  BY <1>3, NoPartialsType DEF Crash, Forget, Replies
<1>4. CASE Reboot
  BY <1>4, NoPartialsType DEF Reboot, Forget, Replies
<1>5. CASE InterfaceDown
  BY <1>5 DEF InterfaceDown
<1>6. CASE Edit
  BY <1>6, ProvisioningAssumption DEF Edit, Folder
<1>7. CASE UNCHANGED vars
  BY <1>7 DEF vars
<1> QED BY <1>1, <1>2, <1>3, <1>4, <1>5, <1>6, <1>7 DEF Next, Environment

\* Every variable keeps its type: an address that is authored lies in the
\* subnet, a rollback writes a partial back, a reply is one the program gives.
THEOREM TypeCorrect == Spec => []TypeOK
<1> QED BY TypeInit, TypeStep, PTL DEF Spec
-----------------------------------------------------------------------------
(***************************************************************************)
(* What is installed is sound.  The invariant says besides that a folder    *)
(* that waits to be installed has passed check_network, although the ledger *)
(* it was read from may have changed since.                                 *)
(***************************************************************************)
Checked(p) ==
    pc[p] = "install" \/ (pc[p] = "acquire" /\ req[p].op \notin LedgerOps)

InstalledInv ==
    /\ InstalledSound
    /\ \A p \in Process : Checked(p) => SoundPeers(PeersOf(snap[p]))

\* check_network accepts a folder only if its peers are sound as one set.
LEMMA SoundFolder ==
    ASSUME NEW folder \in Folder, Sound(folder)
    PROVE  SoundPeers(PeersOf(folder))
BY DEF Sound, Distinct, SoundPeers, PeersOf

LEMMA NothingSound == SoundPeers({})
BY DEF SoundPeers, Placed, AddressesOf

LEMMA InstalledInit == Init => InstalledInv
BY NothingSound DEF Init, InstalledInv, InstalledSound, Checked

\* A step that touches neither the conf, .sync nor the interface, and lets a
\* process wait for its install only with a sound folder, keeps the invariant.
LEMMA InstalledKept ==
    ASSUME TypeOK, InstalledInv, UNCHANGED <<conf, syncFile, live>>,
           \A p \in Process :
               Checked(p)' => SoundPeers(PeersOf(snap[p])')
    PROVE  InstalledInv'
BY DEF InstalledInv, InstalledSound

\* The same for a step of one process.
LEMMA InstalledStep ==
    ASSUME TypeOK, InstalledInv, NEW p \in Process, Invoke(p) \/ Step(p)
    PROVE  InstalledInv'
<1> USE DEF TypeOK, Goto, disk, host, load, undo, Checked, InstalledInv
<1>1. CASE Invoke(p)
  BY <1>1, InstalledKept DEF Invoke
<1>2. CASE Acquire(p)
  BY <1>2, InstalledKept DEF Acquire
<1>3. CASE LockTimeout(p)
  BY <1>3, InstalledKept DEF LockTimeout, Fail, Unload
<1>4. CASE Exit(p)
  BY <1>4, InstalledKept DEF Exit
<1>5. CASE ListForVars(p)
  BY <1>5, InstalledKept DEF ListForVars
<1>6. CASE LoadVars(p)
  BY <1>6, InstalledKept DEF LoadVars
<1>7. CASE VarsVanished(p)
  BY <1>7, InstalledKept DEF VarsVanished, LoadFails, Fail, Unload
<1>8. CASE ReadPartial(p)
  BY <1>8, InstalledKept DEF ReadPartial
<1>9. CASE PartialVanished(p)
  BY <1>9, InstalledKept DEF PartialVanished, LoadFails, Fail, Unload
<1>10. CASE AddPresent(p)
  BY <1>10, InstalledKept DEF AddPresent, Finish, Unload
<1>11. CASE AddFull(p)
  BY <1>11, InstalledKept DEF AddFull, Finish, Unload
<1>12. CASE Author(p)
  BY <1>12, InstalledKept DEF Author, Deciding
<1>13. CASE AuthorFails(p)
  BY <1>13, InstalledKept DEF AuthorFails, Fail, Unload
<1>14. CASE RemoveAbsent(p)
  BY <1>14, InstalledKept DEF RemoveAbsent, Finish, Unload
<1>15. CASE Delete(p)
  BY <1>15, InstalledKept DEF Delete, Deciding
<1>16. CASE DeleteFails(p)
  BY <1>16, InstalledKept DEF DeleteFails, Fail, Unload
<1>17. CASE Rollback(p)
  BY <1>17, InstalledKept DEF Rollback, Finish, Unload
<1>18. CASE RollbackFails(p)
  BY <1>18, InstalledKept DEF RollbackFails, Finish, Unload
<1>19. CASE CheckFails(p)
  BY <1>19, InstalledKept DEF CheckFails, Fail, Unload
<1>20. CASE Show(p)
  BY <1>20, InstalledKept DEF Show, Finish, Unload
<1>21. CASE CompileFails(p)
  BY <1>21, InstalledKept DEF CompileFails, Fail, Unload
<1>22. CASE InstallFails(p)
  BY <1>22, InstalledKept DEF InstallFails, Fail, Unload
<1>23. CASE Enable(p)
  BY <1>23, InstalledKept DEF Enable
<1>24. CASE EnableFails(p)
  BY <1>24, InstalledKept DEF EnableFails, Fail, Unload
<1>25. CASE Probe(p)
  BY <1>25, InstalledKept DEF Probe
<1>26. CASE ProbeFails(p)
  BY <1>26, InstalledKept DEF ProbeFails, Fail, Unload
<1>27. CASE StripFails(p)
  BY <1>27, InstalledKept DEF StripFails, Fail, Unload
<1>28. CASE Compile(p)
  BY <1>28, SoundFolder, InstalledKept DEF Compile
<1>29. CASE Install(p)
  BY <1>29 DEF Install, Finish, Unload, InstalledSound
<1>30. CASE Strip(p)
  BY <1>30 DEF Strip, InstalledSound
<1>31. CASE SyncConf(p)
  BY <1>31 DEF SyncConf, InstalledSound
<1>32. CASE SyncConfFails(p)
  BY <1>32 DEF SyncConfFails, InstalledSound
<1>33. CASE RemoveSync(p)
  BY <1>33 DEF RemoveSync, Finish, InstalledSound, Fail, Unload
<1>34. CASE Start(p)
  BY <1>34 DEF Start, InstalledSound, Finish, Unload
<1>35. CASE StartFails(p)
  BY <1>35 DEF StartFails, InstalledSound, Fail, Unload
<1> QED BY <1>1, <1>2, <1>3, <1>4, <1>5, <1>6, <1>7, <1>8, <1>9, <1>10, <1>11, <1>12, <1>13, <1>14, <1>15, <1>16, <1>17, <1>18, <1>19, <1>20, <1>21, <1>22, <1>23, <1>24, <1>25, <1>26, <1>27, <1>28, <1>29, <1>30, <1>31, <1>32, <1>33, <1>34, <1>35
    DEF Step, LoadStep, LedgerStep, SpineStep, ApplyStep

\* What dies, restarts or is edited keeps the invariant too.
LEMMA InstalledNext == TypeOK /\ InstalledInv /\ [Next]_vars => InstalledInv'
<1> SUFFICES ASSUME TypeOK, InstalledInv, [Next]_vars PROVE InstalledInv'
  OBVIOUS
<1> USE DEF TypeOK, disk, host, load, undo, Checked, InstalledInv
<1>1. ASSUME NEW p \in Process, Invoke(p) \/ Step(p) PROVE InstalledInv'
  BY <1>1, InstalledStep
<1>2. ASSUME NEW p \in Process, Crash(p) PROVE InstalledInv'
  BY <1>2, InstalledKept DEF Crash, Forget
<1>3. CASE Reboot
  BY <1>3, NothingSound DEF Reboot, Forget, InstalledSound
<1>4. CASE InterfaceDown
  BY <1>4, NothingSound DEF InterfaceDown, InstalledSound
<1>5. CASE Edit
  BY <1>5, InstalledKept DEF Edit
<1>6. CASE UNCHANGED vars
  BY <1>6, InstalledKept DEF vars
<1> QED BY <1>1, <1>2, <1>3, <1>4, <1>5, <1>6 DEF Next, Environment

\* Whatever commands run side by side, with or without the lock, whatever fails
\* or is edited by hand meanwhile: the installed conf, the copy in .sync and the
\* interface never hold a key or an address twice, nor an address that is not a
\* host of the subnet or that is the server's.
THEOREM InstalledAlwaysSound == Spec => []InstalledSound
<1>1. InstalledInv => InstalledSound
  BY DEF InstalledInv
<1> QED BY <1>1, InstalledInit, InstalledNext, TypeCorrect, PTL DEF Spec
-----------------------------------------------------------------------------
(***************************************************************************)
(* The ledger under the lock, when nobody edits partials by hand.           *)
(***************************************************************************)
\* A command that changes the ledger, between taking the lock and its exit.
Busy(p) ==
    req[p].op \in LedgerOps /\ pc[p] \notin {"idle", "acquire", "exit"}

\* Such a command holds the lock, and only such a command has a change in
\* flight; only then is there something to roll back.
Exclusive ==
    \A p \in Process : /\ Busy(p) => lock = p
                       /\ mine[p] # NoFile => Busy(p)
                       /\ pc[p] = "rollback" => mine[p] # NoFile

\* The ledger with the change of p taken back.
Restored(p) == [ledger EXCEPT ![mine[p]] = saved[p]]

Restorable ==
    \A p \in Process : /\ mine[p] = NoFile => saved[p] = {}
                       /\ mine[p] # NoFile => Sound(Restored(p))

\* What a busy command has read is still so.
ReadsTrue ==
    \A p \in Process : (Busy(p) /\ pc[p] = "read") =>
        \A f \in File : f \notin todo[p] => snap[p][f] = ledger[f]

LedgerInv == Sound(ledger) /\ Exclusive /\ Restorable /\ ReadsTrue

-----------------------------------------------------------------------------
\* A peer with a new key at a free host may join a sound folder.
LEMMA JoinSound ==
    ASSUME NEW folder \in Folder, Sound(folder), NEW f \in File,
           NEW k \in Key \ KeysOf(PeersOf(folder)),
           NEW h \in Free(PeersOf(folder))
    PROVE  Sound([folder EXCEPT ![f] = {[key |-> k, addr |-> h]}])
<1> DEFINE new == [folder EXCEPT ![f] = {[key |-> k, addr |-> h]}]
<1> USE DEF Folder, KeysOf, PeersOf, Free, AddressesOf
<1>1. Distinct(new)
  BY DEF Sound, Distinct
<1>2. Placed(PeersOf(new))
  BY DEF Sound, Placed
<1> QED BY <1>1, <1>2 DEF Sound

\* A folder stays sound when a file goes.
LEMMA LeaveSound ==
    ASSUME NEW folder \in Folder, Sound(folder), NEW f \in File
    PROVE  Sound([folder EXCEPT ![f] = {}])
BY DEF Sound, Distinct, Placed, AddressesOf, PeersOf, Folder

LEMMA LedgerInit == Init => LedgerInv
BY ProvisioningAssumption
   DEF Init, LedgerInv, Sound, Distinct, Placed, AddressesOf, PeersOf, NoPartials,
       Exclusive, Busy, Restorable, ReadsTrue, NoRequest, LedgerOps

\* A command that decides has read the ledger as it is.
LEMMA DecidesOnLedger ==
    ASSUME TypeOK, LedgerInv, NEW p \in Process, Loaded(p), req[p].op \in LedgerOps
    PROVE  snap[p] = ledger /\ lock = p
<1>1. Busy(p)
  BY DEF Busy, Loaded
<1> QED BY <1>1 DEF TypeOK, LedgerInv, ReadsTrue, Exclusive, Loaded, Folder

\* A command that leaves, for whatever reason, keeps the invariant.
LEMMA FinishKeeps ==
    ASSUME TypeOK, LedgerInv, NEW p \in Process, NEW outcome, Finish(p, outcome),
           UNCHANGED <<ledger, lock, req>>
    PROVE  LedgerInv'
<1> USE DEF TypeOK, LedgerInv, Finish, Unload, Goto, Labels
<1>1. Exclusive'
  BY DEF Exclusive, Busy
<1>2. Restorable'
  BY DEF Restorable, Restored
<1>3. ReadsTrue'
  BY DEF ReadsTrue, Busy
<1> QED BY <1>1, <1>2, <1>3

LEMMA FailKeeps ==
    ASSUME TypeOK, LedgerInv, NEW p \in Process, NEW outcome, Fail(p, outcome),
           UNCHANGED <<ledger, lock, req>>
    PROVE  LedgerInv'
<1> USE DEF TypeOK, LedgerInv, Fail, Unload, Goto, Labels, undo
<1>1. Exclusive'
  BY DEF Exclusive, Busy
<1>2. Restorable'
  BY DEF Restorable, Restored
<1>3. ReadsTrue'
  BY DEF ReadsTrue, Busy
<1> QED BY <1>1, <1>2, <1>3

\* So does one that goes on and touches neither the ledger nor the lock.
LEMMA GoOnKeeps ==
    ASSUME TypeOK, LedgerInv, NEW p \in Process, NEW label \in Labels, Goto(p, label),
           label \notin {"idle", "read", "rollback"},
           pc[p] \notin {"idle", "acquire", "exit"}, label = "acquire" => ~ Busy(p),
           label # "exit",
           UNCHANGED <<ledger, lock, req, mine, saved>>,
           \A q \in Process : q # p => snap'[q] = snap[q] /\ todo'[q] = todo[q]
    PROVE  LedgerInv'
<1> USE DEF TypeOK, LedgerInv, Goto
<1>1. Exclusive'
  BY DEF Exclusive, Busy
<1>2. Restorable'
  BY DEF Restorable, Restored
<1>3. ReadsTrue'
  BY DEF ReadsTrue, Busy
<1> QED BY <1>1, <1>2, <1>3

\* Reading the folder keeps the invariant.
LEMMA LedgerLoad ==
    ASSUME TypeOK, LedgerInv, NEW p \in Process, LoadStep(p)
    PROVE  LedgerInv'
<1> USE DEF disk, host, load, undo
<1>1. CASE ListForVars(p)
  BY <1>1, GoOnKeeps DEF ListForVars, Labels
<1>2. CASE LoadVars(p)
  <2> USE DEF LoadVars, TypeOK, LedgerInv, Goto
  <2>1. Exclusive'
    BY <1>2, ProvisioningAssumption DEF Exclusive, Busy, LedgerOps
  <2>2. Restorable'
    BY <1>2 DEF Restorable, Restored, Exclusive, Busy
  <2>3. ReadsTrue'
    BY <1>2 DEF ReadsTrue, Busy, NoPartials, Present
  <2>4. Sound(ledger)'
    BY <1>2
  <2> QED BY <2>1, <2>2, <2>3, <2>4
<1>3. CASE VarsVanished(p)
  BY <1>3, FailKeeps DEF VarsVanished, LoadFails
<1>4. CASE ReadPartial(p)
  <2> USE DEF ReadPartial, TypeOK, LedgerInv, Goto
  <2>1. Exclusive'
    BY <1>4, ProvisioningAssumption DEF Exclusive, Busy, LedgerOps
  <2>2. Restorable'
    BY <1>4 DEF Restorable, Restored, Exclusive, Busy
  <2>3. ReadsTrue'
    <3>1. PICK f \in todo[p] :
               /\ snap' = [snap EXCEPT ![p][f] = ledger[f]]
               /\ todo' = [todo EXCEPT ![p] = todo[p] \ {f}]
      BY <1>4 DEF ReadPartial
    <3>2. ASSUME NEW g \in File, snap[p][g] = ledger[g] \/ g = f
          PROVE  snap'[p][g] = ledger[g]
      BY <3>1, <3>2 DEF Folder
    <3>3. ASSUME NEW q \in Process, q # p PROVE snap'[q] = snap[q] /\ todo'[q] = todo[q]
      BY <3>1, <3>3
    <3> QED BY <1>4, <3>1, <3>2, <3>3 DEF ReadsTrue, Busy
  <2>4. Sound(ledger)'
    BY <1>4
  <2> QED BY <2>1, <2>2, <2>3, <2>4
<1>5. CASE PartialVanished(p)
  BY <1>5, FailKeeps DEF PartialVanished, LoadFails
<1> QED BY <1>1, <1>2, <1>3, <1>4, <1>5 DEF LoadStep

\* Deciding, changing the ledger and rolling back keep the invariant.
LEMMA LedgerChanges ==
    ASSUME TypeOK, LedgerInv, NEW p \in Process, LedgerStep(p)
    PROVE  LedgerInv'
<1> USE DEF disk, host, load, undo
<1>1. CASE AddPresent(p)
  BY <1>1, FinishKeeps DEF AddPresent
<1>2. CASE AddFull(p)
  BY <1>2, FinishKeeps DEF AddFull
<1>3. CASE Author(p)
  <2> USE DEF TypeOK, LedgerInv, Goto, Restorable, Restored, Exclusive, ReadsTrue, Busy, LedgerOps
  <2>1. snap[p] = ledger /\ lock = p
    BY <1>3, DecidesOnLedger DEF Author, Deciding
  <2>2. PICK f \in File \ Present(ledger) :
           /\ mine' = [mine EXCEPT ![p] = f]
           /\ ledger' = [ledger EXCEPT ![f] =
                {[key |-> req[p].key, addr |-> LowestFree(PeersOf(ledger))]}]
    BY <1>3, <2>1 DEF Author
  <2>3. req[p].key \in Key \ KeysOf(PeersOf(ledger))
    BY <1>3, <2>1 DEF Author, Known, Deciding, Request, NoRequest, AllOps
  <2>4. LowestFree(PeersOf(ledger)) \in Free(PeersOf(ledger))
    BY <1>3, <2>1, LowestFreeType, PeersOfType DEF Author
  <2>5. Sound(ledger')
    BY <2>2, <2>3, <2>4, JoinSound
  <2>6. [ledger' EXCEPT ![f] = {}] = ledger
    BY <2>2 DEF Present, Folder
  <2>7. Exclusive'
    BY <1>3, <2>1, <2>2 DEF Author, Deciding, Loaded
  <2>8. Restorable'
    <3>1. ASSUME NEW q \in Process, q # p PROVE mine[q] = NoFile /\ mine'[q] = NoFile
      BY <2>1, <2>2, <3>1
    <3>2. saved' = saved /\ saved[p] = {} /\ mine'[p] = f
      BY <1>3, <2>2 DEF Author, Deciding
    <3>3. Restored(p)' = ledger
      BY <2>6, <3>2
    <3> QED BY <3>1, <3>2, <3>3
  <2>9. ReadsTrue'
    BY <1>3, <2>1 DEF Author
  <2> QED BY <2>5, <2>7, <2>8, <2>9
<1>4. CASE AuthorFails(p)
  BY <1>4, FailKeeps DEF AuthorFails
<1>5. CASE RemoveAbsent(p)
  BY <1>5, FinishKeeps DEF RemoveAbsent
<1>6. CASE Delete(p)
  <2> USE DEF TypeOK, LedgerInv, Goto, Restorable, Restored, Exclusive, ReadsTrue, Busy, LedgerOps
  <2>1. lock = p
    BY <1>6, DecidesOnLedger DEF Delete, Deciding
  <2>2. PICK f \in File :
           /\ mine' = [mine EXCEPT ![p] = f]
           /\ saved' = [saved EXCEPT ![p] = ledger[f]]
           /\ ledger' = [ledger EXCEPT ![f] = {}]
    BY <1>6 DEF Delete, Present
  <2>3. Sound(ledger')
    BY <2>2, LeaveSound
  <2>4. [ledger' EXCEPT ![f] = ledger[f]] = ledger
    BY <2>2 DEF Folder
  <2>5. Exclusive'
    BY <1>6, <2>1, <2>2 DEF Delete, Deciding, Loaded
  <2>6. Restorable'
    <3>1. ASSUME NEW q \in Process, q # p PROVE mine[q] = NoFile /\ mine'[q] = NoFile
      BY <2>1, <2>2, <3>1
    <3>2. /\ \A q \in Process : q # p => saved'[q] = saved[q]
          /\ saved'[p] = ledger[f] /\ mine'[p] = f
      BY <2>2
    <3>3. Restored(p)' = ledger
      BY <2>4, <3>2
    <3>4. f # NoFile
      BY ProvisioningAssumption
    <3> QED BY <3>1, <3>2, <3>3, <3>4
  <2>7. ReadsTrue'
    BY <1>6, <2>1 DEF Delete
  <2> QED BY <2>3, <2>5, <2>6, <2>7
<1>7. CASE DeleteFails(p)
  BY <1>7, FailKeeps DEF DeleteFails
<1>8. CASE Rollback(p)
  <2> USE DEF TypeOK, LedgerInv, Goto, Restorable, Restored, Exclusive, ReadsTrue, Busy, LedgerOps
  <2>1. mine[p] # NoFile /\ Sound(ledger)'
    BY <1>8 DEF Rollback
  <2>2. Exclusive'
    BY <1>8 DEF Rollback, Finish, Unload
  <2>3. Restorable'
    BY <1>8 DEF Rollback, Finish, Unload
  <2>4. ReadsTrue'
    BY <1>8 DEF Rollback, Finish, Unload
  <2> QED BY <2>1, <2>2, <2>3, <2>4
<1>9. CASE RollbackFails(p)
  BY <1>9, FinishKeeps DEF RollbackFails
<1> QED BY <1>1, <1>2, <1>3, <1>4, <1>5, <1>6, <1>7, <1>8, <1>9 DEF LedgerStep

\* Checking, compiling and installing keep the invariant.
LEMMA LedgerSpine ==
    ASSUME TypeOK, LedgerInv, NEW p \in Process, SpineStep(p)
    PROVE  LedgerInv'
<1> USE DEF disk, host, load, undo
<1>1. CASE CheckFails(p)
  BY <1>1, FailKeeps DEF CheckFails
<1>2. CASE Show(p)
  BY <1>2, FinishKeeps DEF Show
<1>3. CASE Compile(p)
  BY <1>3, GoOnKeeps DEF Compile, Compiling, Loaded, Labels, Busy, LedgerOps,
      LedgerInv, Exclusive
<1>4. CASE CompileFails(p)
  BY <1>4, FailKeeps DEF CompileFails
<1>5. CASE Install(p)
  <2>1. CASE req[p].op = "build"
    BY <1>5, <2>1, FinishKeeps DEF Install
  <2>2. CASE req[p].op # "build"
    BY <1>5, <2>2, GoOnKeeps DEF Install, Unload, Labels, TypeOK
  <2> QED BY <2>1, <2>2
<1>6. CASE InstallFails(p)
  BY <1>6, FailKeeps DEF InstallFails
<1> QED BY <1>1, <1>2, <1>3, <1>4, <1>5, <1>6 DEF SpineStep

\* execute_apply keeps the invariant.
LEMMA LedgerApply ==
    ASSUME TypeOK, LedgerInv, NEW p \in Process, ApplyStep(p)
    PROVE  LedgerInv'
<1> USE DEF disk, host, load, undo
<1>1. CASE Enable(p)
  BY <1>1, GoOnKeeps DEF Enable, Labels
<1>2. CASE EnableFails(p)
  BY <1>2, FailKeeps DEF EnableFails
<1>3. CASE Probe(p)
  BY <1>3, GoOnKeeps DEF Probe, Labels
<1>4. CASE ProbeFails(p)
  BY <1>4, FailKeeps DEF ProbeFails
<1>5. CASE Strip(p)
  BY <1>5, GoOnKeeps DEF Strip, Labels
<1>6. CASE StripFails(p)
  BY <1>6, FailKeeps DEF StripFails
<1>7. CASE SyncConf(p)
  BY <1>7, GoOnKeeps DEF SyncConf, Labels
<1>8. CASE SyncConfFails(p)
  BY <1>8, GoOnKeeps DEF SyncConfFails, Labels
<1>9. CASE RemoveSync(p)
  BY <1>9, FinishKeeps, FailKeeps DEF RemoveSync
<1>10. CASE Start(p)
  BY <1>10, FinishKeeps DEF Start
<1>11. CASE StartFails(p)
  BY <1>11, FailKeeps DEF StartFails
<1> QED BY <1>1, <1>2, <1>3, <1>4, <1>5, <1>6, <1>7, <1>8, <1>9, <1>10, <1>11 DEF ApplyStep

\* So does every step of one process.
LEMMA LedgerSteps ==
    ASSUME TypeOK, LedgerInv, NEW p \in Process, Invoke(p) \/ Step(p)
    PROVE  LedgerInv'
<1> USE DEF disk, host, load, undo
<1>1. CASE Invoke(p)
  <2> USE DEF Invoke, TypeOK, LedgerInv, Goto
  <2>1. Exclusive'
    BY <1>1, ProvisioningAssumption DEF Exclusive, Busy, LedgerOps
  <2>2. Restorable'
    BY <1>1 DEF Restorable, Restored, Exclusive, Busy
  <2>3. ReadsTrue'
    BY <1>1 DEF ReadsTrue, Busy, LedgerOps
  <2>4. Sound(ledger)'
    BY <1>1
  <2> QED BY <2>1, <2>2, <2>3, <2>4
<1>2. CASE Acquire(p)
  <2> USE DEF Acquire, TypeOK, LedgerInv, Goto
  <2>1. Exclusive'
    BY <1>2, ProvisioningAssumption DEF Exclusive, Busy, LedgerOps
  <2>2. Restorable'
    BY <1>2 DEF Restorable, Restored, Exclusive, Busy
  <2>3. ReadsTrue'
    BY <1>2 DEF ReadsTrue, Busy, LedgerOps
  <2>4. Sound(ledger)'
    BY <1>2
  <2> QED BY <2>1, <2>2, <2>3, <2>4
<1>3. CASE LockTimeout(p)
  BY <1>3, FailKeeps DEF LockTimeout
<1>4. CASE Exit(p)
  <2> USE DEF Exit, NoRequest, TypeOK, LedgerInv, Goto
  <2>1. Exclusive'
    BY <1>4, ProvisioningAssumption DEF Exclusive, Busy, LedgerOps
  <2>2. Restorable'
    BY <1>4 DEF Restorable, Restored, Exclusive, Busy
  <2>3. ReadsTrue'
    BY <1>4 DEF ReadsTrue, Busy, LedgerOps
  <2>4. Sound(ledger)'
    BY <1>4
  <2> QED BY <2>1, <2>2, <2>3, <2>4
<1>5. CASE LoadStep(p) \/ LedgerStep(p) \/ SpineStep(p) \/ ApplyStep(p)
  BY <1>5, LedgerLoad, LedgerChanges, LedgerSpine, LedgerApply
<1> QED BY <1>1, <1>2, <1>3, <1>4, <1>5 DEF Step

\* Deaths, reboots and what happens to the interface keep it too.
LEMMA LedgerNext ==
    ASSUME "edit" \notin Faults
    PROVE  TypeOK /\ LedgerInv /\ [Next]_vars => LedgerInv'
<1> SUFFICES ASSUME TypeOK, LedgerInv, [Next]_vars PROVE LedgerInv'
  OBVIOUS
<1> USE ProvisioningAssumption
    DEF TypeOK, LedgerInv, Exclusive, Restorable, Restored, ReadsTrue, Busy,
        disk, host, load, undo
<1>1. ASSUME NEW p \in Process, Invoke(p) \/ Step(p) PROVE LedgerInv'
  BY <1>1, LedgerSteps
<1>2. ASSUME NEW p \in Process, Crash(p) PROVE LedgerInv'
  BY <1>2 DEF Crash, Forget
<1>3. CASE Reboot
  BY <1>3 DEF Reboot, Forget
<1>4. CASE InterfaceDown
  BY <1>4 DEF InterfaceDown
<1>5. CASE UNCHANGED vars
  BY <1>5 DEF vars
<1> QED BY <1>1, <1>2, <1>3, <1>4, <1>5 DEF Next, Environment, Edit

\* However many commands run side by side, and whatever fails, crashes or
\* restarts in the middle of them: no two peers of the ledger ever share a key
\* or an address, and every one has a host of the subnet, unless somebody edits
\* partials by hand.
THEOREM LedgerAlwaysSound ==
    ASSUME "edit" \notin Faults
    PROVE  Spec => []LedgerSound
<1>1. LedgerInv => LedgerSound
  BY DEF LedgerInv, LedgerSound
<1>2. TypeOK /\ LedgerInv /\ [Next]_vars => LedgerInv'
  BY LedgerNext
<1> QED BY <1>1, <1>2, LedgerInit, TypeCorrect, PTL DEF Spec
-----------------------------------------------------------------------------
(***************************************************************************)
(* peer add and peer remove implement the contract of Registry, for every   *)
(* number of processes, keys and files, when nobody edits partials by hand  *)
(* and no rollback fails.                                                   *)
(***************************************************************************)
\* A partial holds at most one peer, now and once it is written back.
Singles ==
    /\ \A f \in File : \A a, b \in ledger[f] : a = b
    /\ \A p \in Process : \A a, b \in saved[p] : a = b

\* A process that is not idle has a request, and one that leaves an answer.
Asked ==
    \A p \in Process : /\ pc[p] = "idle" <=> req[p] = NoRequest
                       /\ pc[p] # "idle" => req[p].op \in Ops
Answered ==
    \A p \in Process : /\ pc[p] = "exit" => reply[p] # "none"
                       /\ pc[p] = "rollback" => reply[p] = "env"

\* What a busy command has listed is still there.
Listed ==
    \A p \in Process : (Busy(p) /\ pc[p] \in {"vars", "read"}) =>
        todo[p] \subseteq Present(ledger)

\* The ledger is what the request of p makes of the ledger before it.
Effect(p) ==
    LET before == PeersOf(Restored(p))
        key == req[p].key
    IN  CASE req[p].op = "add" ->
               /\ key \notin KeysOf(before) /\ Free(before) # {}
               /\ PeersOf(ledger) =
                    before \cup {[key |-> key, addr |-> LowestFree(before)]}
          [] req[p].op = "remove" ->
               /\ key \in KeysOf(before)
               /\ PeersOf(ledger) = {a \in before : a.key # key}

Applying == {"install", "enable", "probe", "strip", "sync", "unsync", "start"}
InFlight ==
    \A p \in Process :
        /\ mine[p] # NoFile => Effect(p)
        /\ (pc[p] \in Applying /\ req[p].op \in LedgerOps) => mine[p] # NoFile

ContractInv == Singles /\ Asked /\ Answered /\ Listed /\ InFlight

-----------------------------------------------------------------------------
LEMMA RequestReal == ASSUME NEW r \in Request PROVE r # NoRequest
<1>1. r.op \in AllOps
  BY DEF Request, AllOps
<1>2. "none" \notin AllOps
  BY DEF AllOps, LedgerOps, ReadOnlyOps
<1>3. NoRequest.op = "none"
  BY DEF NoRequest
<1> QED BY <1>1, <1>2, <1>3

\* The peers of a folder that gains a file.
LEMMA PeersWith ==
    ASSUME NEW folder \in Folder, NEW f \in File, folder[f] = {}, NEW peers
    PROVE  PeersOf([folder EXCEPT ![f] = peers]) = PeersOf(folder) \cup peers
<1> DEFINE new == [folder EXCEPT ![f] = peers]
<1>1. \A g \in File : new[g] = IF g = f THEN peers ELSE folder[g]
  BY DEF Folder
<1>2. \A a : (\E g \in File : a \in new[g]) <=> (\E g \in File : a \in folder[g]) \/ a \in peers
  BY <1>1
<1> QED BY <1>2, Zenon DEF PeersOf

LEMMA ContractInit == Init => ContractInv
BY DEF Init, ContractInv, Singles, NoPartials, Asked, Answered, Listed, InFlight,
       Busy, NoRequest, LedgerOps, Applying

\* The effect of a change in flight depends on nothing but the ledger and what
\* its process holds.
LEMMA EffectKept ==
    ASSUME NEW p \in Process, Effect(p), UNCHANGED ledger, mine'[p] = mine[p],
           saved'[p] = saved[p], req'[p] = req[p]
    PROVE  Effect(p)'
BY DEF Effect, Restored

\* A command that leaves keeps the invariant.
LEMMA FinishContract ==
    ASSUME TypeOK, LedgerInv, ContractInv, NEW p \in Process, NEW outcome,
           Finish(p, outcome), outcome # "none", pc[p] # "idle",
           UNCHANGED <<ledger, req>>
    PROVE  ContractInv'
<1> USE DEF TypeOK, ContractInv, Finish, Unload, Goto
<1>1. Singles'
  BY DEF Singles
<1>2. Asked' /\ Answered'
  BY DEF Asked, Answered
<1>3. Listed'
  BY DEF Listed, Busy, Present
<1>4. InFlight'
  BY EffectKept DEF InFlight, Applying
<1> QED BY <1>1, <1>2, <1>3, <1>4

LEMMA FailContract ==
    ASSUME TypeOK, LedgerInv, ContractInv, NEW p \in Process, NEW outcome,
           Fail(p, outcome), outcome # "none", mine[p] # NoFile => outcome = "env",
           pc[p] # "idle", UNCHANGED <<ledger, req>>
    PROVE  ContractInv'
<1> USE DEF TypeOK, ContractInv, Fail, Unload, Goto, undo
<1>1. Singles'
  BY DEF Singles
<1>2. Asked' /\ Answered'
  BY DEF Asked, Answered
<1>3. Listed'
  BY DEF Listed, Busy, Present
<1>4. InFlight'
  BY EffectKept DEF InFlight, Applying
<1> QED BY <1>1, <1>2, <1>3, <1>4

LEMMA GoOnContract ==
    ASSUME TypeOK, LedgerInv, ContractInv, NEW p \in Process, NEW label \in Labels,
           Goto(p, label), label \notin {"idle", "exit", "rollback", "vars", "read"},
           pc[p] # "idle",
           (label \in Applying /\ req[p].op \in LedgerOps) => mine[p] # NoFile,
           UNCHANGED <<ledger, req, mine, saved>>,
           \A q \in Process : q # p => reply'[q] = reply[q] /\ todo'[q] = todo[q]
    PROVE  ContractInv'
<1> USE DEF TypeOK, ContractInv, Goto
<1>1. Singles'
  BY DEF Singles
<1>2. Asked' /\ Answered'
  BY DEF Asked, Answered
<1>3. Listed'
  BY DEF Listed, Busy, Present
<1>4. InFlight'
  BY EffectKept DEF InFlight
<1> QED BY <1>1, <1>2, <1>3, <1>4

\* Reading the folder keeps it.
LEMMA ContractLoad ==
    ASSUME TypeOK, LedgerInv, ContractInv, NEW p \in Process, LoadStep(p)
    PROVE  ContractInv'
<1> USE DEF disk, host, load, undo
<1>1. CASE ListForVars(p)
  <2> USE DEF ListForVars, TypeOK, ContractInv, Goto
  <2>1. Singles'
    BY <1>1 DEF Singles
  <2>2. Asked' /\ Answered'
    BY <1>1 DEF Asked, Answered
  <2>3. Listed'
    BY <1>1 DEF Listed, Busy, Present
  <2>4. InFlight'
    BY <1>1, EffectKept DEF InFlight, Applying
  <2> QED BY <2>1, <2>2, <2>3, <2>4
<1>2. CASE LoadVars(p)
  <2> USE DEF LoadVars, TypeOK, ContractInv, Goto
  <2>1. Singles'
    BY <1>2 DEF Singles
  <2>2. Asked' /\ Answered'
    BY <1>2 DEF Asked, Answered
  <2>3. Listed'
    BY <1>2 DEF Listed, Busy, Present
  <2>4. InFlight'
    BY <1>2, EffectKept DEF InFlight, Applying
  <2> QED BY <2>1, <2>2, <2>3, <2>4
<1>3. CASE VarsVanished(p)
  BY <1>3, FailContract DEF VarsVanished, LoadFails
<1>4. CASE ReadPartial(p)
  <2> USE DEF ReadPartial, TypeOK, ContractInv, Goto
  <2>1. Singles'
    BY <1>4 DEF Singles
  <2>2. Asked' /\ Answered'
    BY <1>4 DEF Asked, Answered
  <2>3. Listed'
    BY <1>4 DEF Listed, Busy, Present
  <2>4. InFlight'
    BY <1>4, EffectKept DEF InFlight, Applying
  <2> QED BY <2>1, <2>2, <2>3, <2>4
<1>5. CASE PartialVanished(p)
  BY <1>5, FailContract DEF PartialVanished, LoadFails
<1> QED BY <1>1, <1>2, <1>3, <1>4, <1>5 DEF LoadStep

\* Deciding, changing the ledger and rolling back keep it.
LEMMA ContractChanges ==
    ASSUME TypeOK, LedgerInv, ContractInv, NEW p \in Process, LedgerStep(p)
    PROVE  ContractInv'
<1> USE DEF disk, host, load, undo
<1>1. CASE AddPresent(p)
  BY <1>1, FinishContract DEF AddPresent, Deciding, Loaded
<1>2. CASE AddFull(p)
  BY <1>2, FinishContract DEF AddFull, Deciding, Loaded
<1>3. CASE Author(p)
  <2>1. lock = p /\ snap[p] = ledger
    BY <1>3, DecidesOnLedger DEF Author, Deciding, LedgerOps
  <2>2. \A q \in Process : q # p => mine[q] = NoFile /\ ~ Busy(q)
    BY <2>1 DEF LedgerInv, Exclusive
  <2>3. PICK f \in File \ Present(ledger) :
           /\ mine' = [mine EXCEPT ![p] = f]
           /\ ledger' = [ledger EXCEPT ![f] =
                {[key |-> req[p].key, addr |-> LowestFree(PeersOf(ledger))]}]
    BY <1>3, <2>1 DEF Author
  <2>4. ledger[f] = {} /\ saved[p] = {} /\ saved' = saved /\ req' = req
    BY <1>3, <2>3 DEF Author, Present, Deciding, LedgerInv, Restorable
  <2>5. Restored(p)' = ledger
    BY <2>3, <2>4 DEF Restored, TypeOK, Folder
  <2>6. PeersOf(ledger') =
           PeersOf(ledger) \cup {[key |-> req[p].key, addr |-> LowestFree(PeersOf(ledger))]}
    BY <2>3, <2>4, PeersWith DEF TypeOK
  <2>7. Effect(p)'
    BY <1>3, <2>1, <2>4, <2>5, <2>6 DEF Effect, Author, Deciding, Known
  <2>8. Singles'
    BY <2>3, <2>4 DEF Singles, ContractInv, TypeOK, Folder
  <2>9. Asked' /\ Answered'
    BY <1>3 DEF Author, Deciding, Loaded, Asked, Answered, ContractInv, Goto, TypeOK
  <2>10. Listed'
    BY <1>3, <2>2, <2>4 DEF Author, Listed, Busy, Goto, TypeOK
  <2>11. InFlight'
    BY <1>3, <2>2, <2>3, <2>7 DEF Author, InFlight, Applying, ContractInv, Goto, TypeOK
  <2> QED BY <2>8, <2>9, <2>10, <2>11 DEF ContractInv
<1>4. CASE AuthorFails(p)
  BY <1>4, FailContract DEF AuthorFails, Deciding, Loaded
<1>5. CASE RemoveAbsent(p)
  BY <1>5, FinishContract DEF RemoveAbsent, Deciding, Loaded
<1>6. CASE Delete(p)
  <2>1. lock = p /\ snap[p] = ledger
    BY <1>6, DecidesOnLedger DEF Delete, Deciding, LedgerOps
  <2>2. \A q \in Process : q # p => mine[q] = NoFile /\ ~ Busy(q)
    BY <2>1 DEF LedgerInv, Exclusive
  <2>3. PICK f \in File :
           /\ req[p].key \in KeysOf(ledger[f])
           /\ mine' = [mine EXCEPT ![p] = f]
           /\ saved' = [saved EXCEPT ![p] = ledger[f]]
           /\ ledger' = [ledger EXCEPT ![f] = {}]
    BY <1>6, <2>1 DEF Delete, Present
  <2>4. Restored(p)' = ledger
    BY <2>3 DEF Restored, TypeOK, Folder
  <2>5. PeersOf(ledger') = {a \in PeersOf(ledger) : a.key # req[p].key}
    BY <2>3 DEF PeersOf, KeysOf, TypeOK, Folder, LedgerInv, Sound, Distinct, ContractInv, Singles
  <2>6. Effect(p)'
    <3>1. req' = req /\ req[p].op = "remove"
      BY <1>6 DEF Delete, Deciding
    <3>2. req[p].key \in KeysOf(PeersOf(ledger))
      BY <2>3 DEF PeersOf, KeysOf
    <3> QED BY <2>4, <2>5, <3>1, <3>2 DEF Effect
  <2>7. Singles'
    BY <2>3 DEF Singles, ContractInv, TypeOK, Folder
  <2>8. Asked' /\ Answered'
    BY <1>6 DEF Delete, Deciding, Loaded, Asked, Answered, ContractInv, Goto, TypeOK
  <2>9. Listed'
    BY <1>6, <2>2 DEF Delete, Listed, Busy, Goto, TypeOK
  <2>10. InFlight'
    BY <1>6, <2>2, <2>3, <2>6 DEF Delete, InFlight, Applying, ContractInv, Goto, TypeOK
  <2> QED BY <2>7, <2>8, <2>9, <2>10 DEF ContractInv
<1>7. CASE DeleteFails(p)
  BY <1>7, FailContract DEF DeleteFails, Deciding, Loaded
<1>8. CASE Rollback(p)
  <2>1. mine[p] \in File /\ lock = p
    BY <1>8 DEF Rollback, LedgerInv, Exclusive, TypeOK
  <2>2. \A q \in Process : q # p => mine[q] = NoFile /\ ~ Busy(q)
    BY <2>1 DEF LedgerInv, Exclusive
  <2> USE DEF Rollback, Finish, Unload, Goto, TypeOK, ContractInv
  <2>3. Singles'
    BY <1>8, <2>1 DEF Singles, Folder
  <2>4. Asked' /\ Answered'
    BY <1>8 DEF Asked, Answered
  <2>5. Listed'
    BY <1>8, <2>2 DEF Listed, Busy
  <2>6. InFlight'
    BY <1>8, <2>2 DEF InFlight, Applying
  <2> QED BY <2>3, <2>4, <2>5, <2>6
<1>9. CASE RollbackFails(p)
  BY <1>9, FinishContract DEF RollbackFails, ContractInv, Answered
<1> QED BY <1>1, <1>2, <1>3, <1>4, <1>5, <1>6, <1>7, <1>8, <1>9 DEF LedgerStep

\* Checking, compiling and installing keep it.
LEMMA ContractSpine ==
    ASSUME TypeOK, LedgerInv, ContractInv, NEW p \in Process, SpineStep(p)
    PROVE  ContractInv'
<1> USE DEF disk, host, load, undo
<1>1. CASE CheckFails(p)
  <2>1. mine[p] = NoFile
    BY <1>1, DecidesOnLedger DEF CheckFails, Compiling, LedgerInv, Exclusive, Busy
  <2> QED BY <1>1, <2>1, FailContract DEF CheckFails, Compiling, Loaded
<1>2. CASE Show(p)
  BY <1>2, FinishContract DEF Show, Loaded, Success
<1>3. CASE Compile(p)
  BY <1>3, GoOnContract DEF Compile, Compiling, Loaded, Labels, Applying, LedgerOps
<1>4. CASE CompileFails(p)
  BY <1>4, FailContract DEF CompileFails, Compiling, Loaded
<1>5. CASE Install(p)
  <2>1. CASE req[p].op = "build"
    BY <1>5, <2>1, FinishContract DEF Install, Success
  <2>2. CASE req[p].op # "build"
    BY <1>5, <2>2, GoOnContract DEF Install, Unload, Labels, Applying, TypeOK, ContractInv, InFlight
  <2> QED BY <2>1, <2>2
<1>6. CASE InstallFails(p)
  BY <1>6, FailContract DEF InstallFails
<1> QED BY <1>1, <1>2, <1>3, <1>4, <1>5, <1>6 DEF SpineStep

\* execute_apply keeps it.
LEMMA ContractApply ==
    ASSUME TypeOK, LedgerInv, ContractInv, NEW p \in Process, ApplyStep(p)
    PROVE  ContractInv'
<1> USE DEF disk, host, load, undo
<1>1. CASE Enable(p)
  BY <1>1, GoOnContract DEF Enable, Labels, Applying, ContractInv, InFlight
<1>2. CASE EnableFails(p)
  BY <1>2, FailContract DEF EnableFails
<1>3. CASE Probe(p)
  BY <1>3, GoOnContract DEF Probe, Labels, Applying, ContractInv, InFlight
<1>4. CASE ProbeFails(p)
  BY <1>4, FailContract DEF ProbeFails
<1>5. CASE Strip(p)
  BY <1>5, GoOnContract DEF Strip, Labels, Applying, ContractInv, InFlight
<1>6. CASE StripFails(p)
  BY <1>6, FailContract DEF StripFails
<1>7. CASE SyncConf(p)
  BY <1>7, GoOnContract DEF SyncConf, Labels, Applying, ContractInv, InFlight
<1>8. CASE SyncConfFails(p)
  BY <1>8, GoOnContract DEF SyncConfFails, Labels, Applying, ContractInv, InFlight, TypeOK
<1>9. CASE RemoveSync(p)
  BY <1>9, FinishContract, FailContract DEF RemoveSync, Success
<1>10. CASE Start(p)
  BY <1>10, FinishContract DEF Start, Success
<1>11. CASE StartFails(p)
  BY <1>11, FailContract DEF StartFails
<1> QED BY <1>1, <1>2, <1>3, <1>4, <1>5, <1>6, <1>7, <1>8, <1>9, <1>10, <1>11 DEF ApplyStep

\* So does every step of one process.
LEMMA ContractSteps ==
    ASSUME TypeOK, LedgerInv, ContractInv, NEW p \in Process, Invoke(p) \/ Step(p)
    PROVE  ContractInv'
<1> USE DEF disk, host, load, undo
<1>1. CASE Invoke(p)
  <2> USE DEF Invoke, TypeOK, ContractInv, Goto
  <2>1. Singles'
    BY <1>1 DEF Singles
  <2>2. Asked' /\ Answered'
    <3>1. \A r \in Request : r # NoRequest
      BY RequestReal
    <3> QED BY <1>1, <3>1 DEF Asked, Answered
  <2>3. Listed'
    BY <1>1 DEF Listed, Busy, Present
  <2>4. InFlight'
    BY <1>1, EffectKept DEF InFlight, Applying, LedgerInv, Exclusive, Busy
  <2> QED BY <2>1, <2>2, <2>3, <2>4
<1>2. CASE Acquire(p)
  BY <1>2, GoOnContract DEF Acquire, Labels, Applying
<1>3. CASE LockTimeout(p)
  BY <1>3, FailContract DEF LockTimeout
<1>4. CASE Exit(p)
  <2> USE DEF Exit, TypeOK, ContractInv, Goto
  <2>1. Singles'
    BY <1>4 DEF Singles
  <2>2. Asked' /\ Answered'
    BY <1>4 DEF Asked, Answered
  <2>3. Listed'
    BY <1>4 DEF Listed, Busy, Present, NoRequest, LedgerOps
  <2>4. InFlight'
    BY <1>4, EffectKept DEF InFlight, Applying, LedgerInv, Exclusive, Busy
  <2> QED BY <2>1, <2>2, <2>3, <2>4
<1>5. CASE LoadStep(p) \/ LedgerStep(p) \/ SpineStep(p) \/ ApplyStep(p)
  BY <1>5, ContractLoad, ContractChanges, ContractSpine, ContractApply
<1> QED BY <1>1, <1>2, <1>3, <1>4, <1>5 DEF Step

\* And so do deaths, reboots and what happens to the interface.
LEMMA ContractNext ==
    ASSUME "edit" \notin Faults
    PROVE  TypeOK /\ LedgerInv /\ ContractInv /\ [Next]_vars => ContractInv'
<1> SUFFICES ASSUME TypeOK, LedgerInv, ContractInv, [Next]_vars PROVE ContractInv'
  OBVIOUS
<1> USE DEF TypeOK, ContractInv, disk, host, load, undo
<1>1. ASSUME NEW p \in Process, Invoke(p) \/ Step(p) PROVE ContractInv'
  BY <1>1, ContractSteps
<1>2. ASSUME NEW p \in Process, Crash(p) PROVE ContractInv'
  <2> USE DEF Crash, Forget
  <2>1. Singles'
    BY <1>2 DEF Singles
  <2>2. Asked' /\ Answered'
    BY <1>2 DEF Asked, Answered
  <2>3. Listed'
    BY <1>2 DEF Listed, Busy, Present
  <2>4. InFlight'
    BY <1>2, EffectKept DEF InFlight, Applying
  <2> QED BY <2>1, <2>2, <2>3, <2>4
<1>3. CASE Reboot
  BY <1>3 DEF Reboot, Forget, Singles, Asked, Answered, Listed, Busy, InFlight, Applying
<1>4. CASE InterfaceDown \/ UNCHANGED vars
  <2>1. UNCHANGED <<ledger, pc, req, todo, mine, saved, reply>>
    BY <1>4 DEF InterfaceDown, vars
  <2>2. InFlight'
    BY <2>1, EffectKept DEF InFlight
  <2> QED BY <2>1, <2>2 DEF Singles, Asked, Answered, Listed, Busy, Present
<1> QED BY <1>1, <1>2, <1>3, <1>4 DEF Next, Environment, Edit

-----------------------------------------------------------------------------
(***************************************************************************)
(* The steps of Provisioning are steps of Registry, or stutter.             *)
(***************************************************************************)
Members == PeersOf(Settled)
Answer == [p \in Process |-> IF pc[p] = "exit" THEN reply[p] ELSE "none"]
Image == <<Members, req, Answer>>

\* Registry reads the ledger with the same operators.
LEMMA SameOperators ==
    /\ R!LedgerOps = LedgerOps /\ R!NoRequest = NoRequest
    /\ \A peers : R!KeysOf(peers) = KeysOf(peers) /\ R!Free(peers) = Free(peers)
                    /\ R!LowestFree(peers) = LowestFree(peers)
<1>1. R!LedgerOps = LedgerOps /\ R!NoRequest = NoRequest
  BY DEF LedgerOps, R!LedgerOps, NoRequest, R!NoRequest
<1>2. ASSUME NEW peers
      PROVE  R!KeysOf(peers) = KeysOf(peers) /\ R!Free(peers) = Free(peers)
               /\ R!LowestFree(peers) = LowestFree(peers)
  BY DEF KeysOf, R!KeysOf, Free, R!Free, Hosts, R!Hosts, AddressesOf, R!AddressesOf,
         LowestFree, R!LowestFree
<1> QED BY <1>1, <1>2

\* What the ledger settles to is known from whoever has a change in flight.
LEMMA SettledOf ==
    ASSUME TypeOK, LedgerInv
    PROVE  /\ \A p \in Process : mine[p] # NoFile => Settled = Restored(p)
           /\ (\A p \in Process : mine[p] = NoFile) => Settled = ledger
BY ProvisioningAssumption DEF TypeOK, LedgerInv, Exclusive, Settled, Restored

\* When a command leaves, its change has taken place.
LEMMA SettledFinish ==
    ASSUME TypeOK, LedgerInv, NEW p \in Process, NEW outcome, Finish(p, outcome),
           UNCHANGED <<ledger, lock>>
    PROVE  Settled' = IF mine[p] # NoFile THEN ledger ELSE Settled
BY ProvisioningAssumption DEF TypeOK, LedgerInv, Exclusive, Settled, Finish

\* What a request serves, in the words of Provisioning.
LEMMA ServedAs ==
    ASSUME NEW r
    PROVE  /\ (r.op = "add" /\ r.key \notin KeysOf(Members) /\ Free(Members) # {}) =>
                R!Served(r) =
                  Members \cup {[key |-> r.key, addr |-> LowestFree(Members)]}
           /\ (r.op = "add" /\ (r.key \in KeysOf(Members) \/ Free(Members) = {})) =>
                R!Served(r) = Members
           /\ r.op = "remove" => R!Served(r) = {a \in Members : a.key # r.key}
           /\ r.op \notin LedgerOps => R!Served(r) = Members
BY SameOperators DEF R!Served, Members, LedgerOps

LEMMA VerdictAs ==
    ASSUME NEW r
    PROVE  /\ (r.op = "add" /\ r.key \in KeysOf(Members)) => "present" \in R!Verdict(r)
           /\ (r.op = "add" /\ r.key \notin KeysOf(Members)) =>
                IF Free(Members) = {} THEN "config" \in R!Verdict(r)
                                      ELSE "added" \in R!Verdict(r)
           /\ (r.op = "remove" /\ r.key \in KeysOf(Members)) => "removed" \in R!Verdict(r)
           /\ (r.op = "remove" /\ r.key \notin KeysOf(Members)) => "absent" \in R!Verdict(r)
           /\ r.op = "apply" => {"applied", "config"} \subseteq R!Verdict(r)
           /\ r.op = "build" => {"built", "config"} \subseteq R!Verdict(r)
           /\ r.op \in ReadOnlyOps => {"shown", "config"} \subseteq R!Verdict(r)
BY SameOperators DEF R!Verdict, Members, ReadOnlyOps

\* A process that leaves with an answer the contract allows serves its request.
LEMMA Serves ==
    ASSUME TypeOK, ContractInv, NEW p \in Process, NEW v,
           pc[p] \notin {"idle", "exit"}, v \in R!Verdict(req[p]),
           pc' = [pc EXCEPT ![p] = "exit"], reply' = [reply EXCEPT ![p] = v],
           req' = req, Members' = R!Served(req[p])
    PROVE  R!Next
<1>1. req[p] # NoRequest /\ Answer[p] = "none"
  BY DEF ContractInv, Asked, Answer
<1>2. Answer' = [Answer EXCEPT ![p] = v]
  BY DEF Answer, TypeOK
<1>3. R!Serve(p)
  BY <1>1, <1>2, SameOperators DEF R!Serve, R!Waiting, Members, Answer
<1> QED BY <1>3 DEF R!Next

\* One that leaves with exit 3 and has changed nothing refuses it.
LEMMA Refuses ==
    ASSUME TypeOK, ContractInv, NEW p \in Process,
           pc[p] \notin {"idle", "exit"},
           pc' = [pc EXCEPT ![p] = "exit"], reply' = [reply EXCEPT ![p] = "env"],
           req' = req, Members' = Members
    PROVE  R!Next
<1>1. req[p] # NoRequest /\ Answer[p] = "none"
  BY DEF ContractInv, Asked, Answer
<1>2. Answer' = [Answer EXCEPT ![p] = "env"]
  BY DEF Answer, TypeOK
<1>3. R!Refuse(p)
  BY <1>1, <1>2, SameOperators DEF R!Refuse, R!Waiting, Members, Answer
<1> QED BY <1>3 DEF R!Next

\* One that neither leaves nor settles anything stutters.
LEMMA Unseen ==
    ASSUME TypeOK, NEW p \in Process, NEW label, label # "exit", pc[p] # "exit",
           Goto(p, label), UNCHANGED <<ledger, lock, req, mine, saved>>,
           \A q \in Process : q # p => reply'[q] = reply[q]
    PROVE  UNCHANGED Image
BY DEF Goto, Image, Members, Settled, Answer, TypeOK

LEMMA FailRefuses ==
    ASSUME TypeOK, ContractInv, NEW p \in Process, Fail(p, "env"),
           pc[p] \notin {"idle", "exit"}, UNCHANGED <<ledger, lock, req>>
    PROVE  R!Next \/ UNCHANGED Image
<1>1. Members' = Members
  BY DEF Fail, Members, Settled, undo
<1>2. CASE mine[p] = NoFile
  BY <1>1, <1>2, Refuses DEF Fail, Goto
<1>3. CASE mine[p] # NoFile
  BY <1>3, Unseen DEF Fail, undo, TypeOK
<1> QED BY <1>2, <1>3

\* Exit 1 with nothing in flight: the contract allows it for the commands that
\* change no ledger.
LEMMA FailServes ==
    ASSUME TypeOK, ContractInv, NEW p \in Process, Fail(p, "config"),
           mine[p] = NoFile, req[p].op \notin LedgerOps,
           pc[p] \notin {"idle", "exit"}, UNCHANGED <<ledger, lock, req>>
    PROVE  R!Next
<1>1. Members' = R!Served(req[p])
  BY ServedAs DEF Fail, Members, Settled, undo
<1>2. req[p].op \in {"apply", "build"} \cup ReadOnlyOps
  BY ProvisioningAssumption DEF ContractInv, Asked, AllOps
<1>3. "config" \in R!Verdict(req[p])
  BY <1>2, VerdictAs
<1> QED BY <1>1, <1>3, Serves DEF Fail, Goto

\* The work of a command is done: its effect becomes the ledger.
LEMMA SuccessServes ==
    ASSUME TypeOK, LedgerInv, ContractInv, NEW p \in Process, Finish(p, Success(p)),
           pc[p] \in Applying \/ req[p].op \notin LedgerOps,
           pc[p] \notin {"idle", "exit"}, UNCHANGED <<ledger, lock, req>>
    PROVE  R!Next
<1>1. req[p].op \in LedgerOps \cup {"apply", "build"} \cup ReadOnlyOps
  BY ProvisioningAssumption DEF ContractInv, Asked, AllOps
<1>2. CASE req[p].op \in LedgerOps
  <2>1. mine[p] # NoFile /\ Effect(p) /\ Settled = Restored(p)
    BY <1>2, SettledOf DEF ContractInv, InFlight
  <2>2. Members' = PeersOf(ledger)
    BY <2>1, SettledFinish DEF Members
  <2>3. Members' = R!Served(req[p]) /\ Success(p) \in R!Verdict(req[p])
    BY <1>2, <2>1, <2>2, ServedAs, VerdictAs DEF Effect, Members, LedgerOps, Success
  <2> QED BY <2>3, Serves DEF Finish, Goto
<1>3. CASE req[p].op \notin LedgerOps
  <2>1. mine[p] = NoFile
    BY <1>3 DEF LedgerInv, Exclusive, Busy
  <2>2. Members' = R!Served(req[p])
    BY <1>3, <2>1, SettledFinish, ServedAs DEF Members
  <2>3. Success(p) \in R!Verdict(req[p])
    BY <1>1, <1>3, VerdictAs DEF Success, LedgerOps, ReadOnlyOps
  <2> QED BY <2>2, <2>3, Serves DEF Finish, Goto
<1> QED BY <1>2, <1>3

\* A failed load is refused with exit 3, or answered with exit 1 to a command
\* that changes no ledger; one that does reads the folder nobody else changes.
LEMMA LoadFailsSim ==
    ASSUME TypeOK, LedgerInv, ContractInv, NEW p \in Process, LoadFails(p),
           pc[p] \in {"vars", "read"}, ~ (todo[p] \subseteq Present(ledger)),
           UNCHANGED <<ledger, lock, req>>
    PROVE  R!Next \/ UNCHANGED Image
<1>1. CASE mine[p] # NoFile
  BY <1>1, FailRefuses DEF LoadFails
<1>2. CASE mine[p] = NoFile
  <2>1. req[p].op \notin LedgerOps
    BY DEF ContractInv, Listed, Busy
  <2> QED BY <1>2, <2>1, FailServes DEF LoadFails
<1> QED BY <1>1, <1>2

\* Reading the folder.
LEMMA LoadSim ==
    ASSUME TypeOK, LedgerInv, ContractInv, NEW p \in Process, LoadStep(p)
    PROVE  R!Next \/ UNCHANGED Image
<1> USE DEF disk, host, load, undo
<1>1. CASE ListForVars(p)
  BY <1>1, Unseen DEF ListForVars
<1>2. CASE LoadVars(p)
  BY <1>2, Unseen DEF LoadVars
<1>3. CASE VarsVanished(p)
  BY <1>3, LoadFailsSim DEF VarsVanished
<1>4. CASE ReadPartial(p)
  BY <1>4 DEF ReadPartial, Image, Members, Settled, Answer
<1>5. CASE PartialVanished(p)
  BY <1>5, LoadFailsSim DEF PartialVanished
<1> QED BY <1>1, <1>2, <1>3, <1>4, <1>5 DEF LoadStep

\* Deciding, changing the ledger and rolling back.
LEMMA LedgerSim ==
    ASSUME TypeOK, LedgerInv, ContractInv, NEW p \in Process, LedgerStep(p), "cleanup" \notin Faults
    PROVE  R!Next \/ UNCHANGED Image
<1> USE DEF disk, host, load, undo
<1>1. CASE AddPresent(p)
  <2>1. snap[p] = ledger /\ lock = p
    BY <1>1, DecidesOnLedger DEF AddPresent, Deciding, LedgerOps
  <2>2. Settled = ledger /\ Members = PeersOf(snap[p])
    BY <1>1, <2>1 DEF Settled, Members, AddPresent, Deciding
  <2>3. Members' = PeersOf(ledger)
    BY <1>1, <2>2, SettledFinish DEF AddPresent, Deciding, Members
  <2>4. Members' = Members
    BY <2>2, <2>3, Zenon DEF Members
  <2>5. R!Served(req[p]) = Members /\ "present" \in R!Verdict(req[p])
    BY <1>1, <2>2, ServedAs, VerdictAs DEF AddPresent, Deciding, Known, KeysOf
  <2> QED BY <1>1, <2>4, <2>5, Serves DEF AddPresent, Deciding, Loaded, Finish, Goto
<1>2. CASE AddFull(p)
  <2>1. snap[p] = ledger /\ lock = p
    BY <1>2, DecidesOnLedger DEF AddFull, Deciding, LedgerOps
  <2>2. Settled = ledger /\ Members = PeersOf(snap[p])
    BY <1>2, <2>1 DEF Settled, Members, AddFull, Deciding
  <2>3. Members' = PeersOf(ledger)
    BY <1>2, <2>2, SettledFinish DEF AddFull, Deciding, Members
  <2>4. Members' = Members
    BY <2>2, <2>3, Zenon DEF Members
  <2>5. R!Served(req[p]) = Members /\ "config" \in R!Verdict(req[p])
    BY <1>2, <2>2, ServedAs, VerdictAs DEF AddFull, Deciding, Known, KeysOf
  <2> QED BY <1>2, <2>4, <2>5, Serves DEF AddFull, Deciding, Loaded, Finish, Goto
<1>3. CASE Author(p)
  <2>1. snap[p] = ledger /\ lock = p
    BY <1>3, DecidesOnLedger DEF Author, Deciding, LedgerOps
  <2>2. Settled = ledger /\ Members = PeersOf(snap[p])
    BY <1>3, <2>1 DEF Settled, Members, Author, Deciding
  <2>3. /\ pc' = [pc EXCEPT ![p] = "list"] /\ reply' = reply /\ req' = req /\ lock' = lock
         /\ mine'[p] # NoFile /\ [ledger' EXCEPT ![mine'[p]] = saved'[p]] = ledger
    <3>1. PICK f \in File : /\ mine' = [mine EXCEPT ![p] = f]
                            /\ ledger' = [ledger EXCEPT ![f] = ledger'[f]]
                            /\ saved'[p] = ledger[f]
      BY <1>3 DEF Author, Deciding, Present, TypeOK, Folder, LedgerInv, Restorable
    <3>2. [ledger' EXCEPT ![f] = ledger[f]] = ledger
      BY <3>1 DEF TypeOK, Folder
    <3>3. mine'[p] = f /\ f # NoFile
      BY <3>1, ProvisioningAssumption DEF TypeOK
    <3> QED BY <1>3, <3>1, <3>2, <3>3 DEF Author, Goto
  <2>4. Settled' = ledger
    BY <2>1, <2>3, ProvisioningAssumption DEF Settled
  <2>5. Answer' = Answer
    BY <1>3, <2>3 DEF Answer, TypeOK, Author, Deciding, Loaded
  <2> QED BY <2>2, <2>3, <2>4, <2>5 DEF Image, Members
<1>4. CASE AuthorFails(p)
  BY <1>4, FailRefuses DEF AuthorFails, Deciding, Loaded
<1>5. CASE RemoveAbsent(p)
  <2>1. snap[p] = ledger /\ lock = p
    BY <1>5, DecidesOnLedger DEF RemoveAbsent, Deciding, LedgerOps
  <2>2. Settled = ledger /\ Members = PeersOf(snap[p])
    BY <1>5, <2>1 DEF Settled, Members, RemoveAbsent, Deciding
  <2>3. Members' = PeersOf(ledger)
    BY <1>5, <2>2, SettledFinish DEF RemoveAbsent, Deciding, Members
  <2>4. Members' = Members
    BY <2>2, <2>3, Zenon DEF Members
  <2>5. R!Served(req[p]) = Members /\ "absent" \in R!Verdict(req[p])
    BY <1>5, <2>2, ServedAs, VerdictAs DEF RemoveAbsent, Deciding, Known, KeysOf
  <2> QED BY <1>5, <2>4, <2>5, Serves DEF RemoveAbsent, Deciding, Loaded, Finish, Goto
<1>6. CASE Delete(p)
  <2>1. snap[p] = ledger /\ lock = p
    BY <1>6, DecidesOnLedger DEF Delete, Deciding, LedgerOps
  <2>2. Settled = ledger /\ Members = PeersOf(snap[p])
    BY <1>6, <2>1 DEF Settled, Members, Delete, Deciding
  <2>3. /\ pc' = [pc EXCEPT ![p] = "list"] /\ reply' = reply /\ req' = req /\ lock' = lock
         /\ mine'[p] # NoFile /\ [ledger' EXCEPT ![mine'[p]] = saved'[p]] = ledger
    <3>1. PICK f \in File : /\ mine' = [mine EXCEPT ![p] = f]
                            /\ ledger' = [ledger EXCEPT ![f] = ledger'[f]]
                            /\ saved'[p] = ledger[f]
      BY <1>6 DEF Delete, Deciding, Present, TypeOK, Folder, LedgerInv, Restorable
    <3>2. [ledger' EXCEPT ![f] = ledger[f]] = ledger
      BY <3>1 DEF TypeOK, Folder
    <3>3. mine'[p] = f /\ f # NoFile
      BY <3>1, ProvisioningAssumption DEF TypeOK
    <3> QED BY <1>6, <3>1, <3>2, <3>3 DEF Delete, Goto
  <2>4. Settled' = ledger
    BY <2>1, <2>3, ProvisioningAssumption DEF Settled
  <2>5. Answer' = Answer
    BY <1>6, <2>3 DEF Answer, TypeOK, Delete, Deciding, Loaded
  <2> QED BY <2>2, <2>3, <2>4, <2>5 DEF Image, Members
<1>7. CASE DeleteFails(p)
  BY <1>7, FailRefuses DEF DeleteFails, Deciding, Loaded
<1>8. CASE Rollback(p)
  <2>1. mine[p] # NoFile /\ mine[p] \in File /\ lock = p /\ reply[p] = "env"
    BY <1>8 DEF Rollback, LedgerInv, Exclusive, Busy, TypeOK, ContractInv, Answered
  <2>2. Settled = ledger'
    BY <1>8, <2>1, ProvisioningAssumption DEF Rollback, Settled
  <2>3. Settled' = ledger'
    BY <1>8, <2>1 DEF Rollback, Finish, Settled, TypeOK
  <2> QED BY <1>8, <2>1, <2>2, <2>3, Refuses DEF Rollback, Finish, Goto, Members
<1>9. CASE RollbackFails(p)
  BY <1>9 DEF RollbackFails
<1> QED BY <1>1, <1>2, <1>3, <1>4, <1>5, <1>6, <1>7, <1>8, <1>9 DEF LedgerStep

\* Checking, compiling and installing.
LEMMA SpineSim ==
    ASSUME TypeOK, LedgerInv, ContractInv, NEW p \in Process, SpineStep(p)
    PROVE  R!Next \/ UNCHANGED Image
<1> USE DEF disk, host, load, undo
<1>1. CASE CheckFails(p)
  <2>1. req[p].op \notin LedgerOps /\ mine[p] = NoFile
    BY <1>1, DecidesOnLedger DEF CheckFails, Compiling, LedgerInv, Exclusive, Busy
  <2> QED BY <1>1, <2>1, FailServes DEF CheckFails, Compiling, Loaded
<1>2. CASE Show(p)
  BY <1>2, SuccessServes, ProvisioningAssumption DEF Show, Loaded, ReadOnlyOps, LedgerOps
<1>3. CASE Compile(p)
  BY <1>3, Unseen DEF Compile, Compiling, Loaded
<1>4. CASE CompileFails(p)
  BY <1>4, FailRefuses DEF CompileFails, Compiling, Loaded
<1>5. CASE Install(p)
  <2>1. CASE req[p].op = "build"
    BY <1>5, <2>1, SuccessServes DEF Install, LedgerOps
  <2>2. CASE req[p].op # "build"
    BY <1>5, <2>2, Unseen DEF Install
  <2> QED BY <2>1, <2>2
<1>6. CASE InstallFails(p)
  BY <1>6, FailRefuses DEF InstallFails
<1> QED BY <1>1, <1>2, <1>3, <1>4, <1>5, <1>6 DEF SpineStep

\* execute_apply.
LEMMA ApplySim ==
    ASSUME TypeOK, LedgerInv, ContractInv, NEW p \in Process, ApplyStep(p)
    PROVE  R!Next \/ UNCHANGED Image
<1> USE DEF disk, host, load, undo
<1>1. CASE Enable(p)
  BY <1>1, Unseen DEF Enable
<1>2. CASE EnableFails(p)
  BY <1>2, FailRefuses DEF EnableFails
<1>3. CASE Probe(p)
  BY <1>3, Unseen DEF Probe
<1>4. CASE ProbeFails(p)
  BY <1>4, FailRefuses DEF ProbeFails
<1>5. CASE Strip(p)
  BY <1>5, Unseen DEF Strip
<1>6. CASE StripFails(p)
  BY <1>6, FailRefuses DEF StripFails
<1>7. CASE SyncConf(p)
  BY <1>7, Unseen DEF SyncConf
<1>8. CASE SyncConfFails(p)
  BY <1>8, Unseen DEF SyncConfFails, TypeOK
<1>9. CASE RemoveSync(p)
  BY <1>9, SuccessServes, FailRefuses DEF RemoveSync, Applying
<1>10. CASE Start(p)
  BY <1>10, SuccessServes DEF Start, Applying
<1>11. CASE StartFails(p)
  BY <1>11, FailRefuses DEF StartFails
<1> QED BY <1>1, <1>2, <1>3, <1>4, <1>5, <1>6, <1>7, <1>8, <1>9, <1>10, <1>11 DEF ApplyStep

\* Every step of one process.
LEMMA StepSim ==
    ASSUME TypeOK, LedgerInv, ContractInv, "cleanup" \notin Faults,
           NEW p \in Process, Invoke(p) \/ Step(p)
    PROVE  R!Next \/ UNCHANGED Image
<1> USE DEF disk, host, load, undo
<1>1. CASE Invoke(p)
  <2>1. PICK r \in Request :
           /\ r.op \in Ops /\ req' = [req EXCEPT ![p] = r]
           /\ Goto(p, IF r.op \in LedgerOps THEN "acquire" ELSE "list")
    BY <1>1 DEF Invoke
  <2>2. req[p] = NoRequest
    BY <1>1 DEF Invoke, ContractInv, Asked
  <2>3. Members' = Members /\ Answer' = Answer
    BY <1>1, <2>1 DEF Invoke, Members, Settled, Answer, Goto, TypeOK
  <2>4. IF r.op \in LedgerOps THEN \E k \in Key : r = [op |-> r.op, key |-> k]
                              ELSE r = [op |-> r.op]
    BY DEF Request, LedgerOps
  <2>5. R!Invoke(p)
    BY <2>1, <2>2, <2>3, <2>4, SameOperators DEF R!Invoke, Members, Answer
  <2> QED BY <2>5 DEF R!Next
<1>2. CASE Acquire(p)
  <2>1. \A q \in Process : mine[q] = NoFile
    BY <1>2, ProvisioningAssumption DEF Acquire, LedgerInv, Exclusive
  <2>2. Members' = Members
    BY <1>2, <2>1 DEF Acquire, Members, Settled
  <2>3. Answer' = Answer
    BY <1>2 DEF Acquire, Answer, Goto, TypeOK
  <2> QED BY <1>2, <2>2, <2>3 DEF Acquire, Image
<1>3. CASE LockTimeout(p)
  BY <1>3, FailRefuses DEF LockTimeout
<1>4. CASE Exit(p)
  <2>1. mine[p] = NoFile /\ Answer[p] # "none"
    BY <1>4 DEF Exit, LedgerInv, Exclusive, Busy, Answer, ContractInv, Answered
  <2>2. Members' = Members
    BY <1>4, <2>1, ProvisioningAssumption DEF Exit, Members, Settled, TypeOK
  <2>3. Answer' = [Answer EXCEPT ![p] = "none"] /\ req' = [req EXCEPT ![p] = NoRequest]
    BY <1>4 DEF Exit, Answer, Goto, TypeOK
  <2>4. R!Return(p)
    BY <2>1, <2>2, <2>3, SameOperators DEF R!Return, Members, Answer
  <2> QED BY <2>4 DEF R!Next
<1>5. CASE LoadStep(p) \/ LedgerStep(p) \/ SpineStep(p) \/ ApplyStep(p)
  BY <1>5, LoadSim, LedgerSim, SpineSim, ApplySim
<1> QED BY <1>1, <1>2, <1>3, <1>4, <1>5 DEF Step

\* Processes that die have served the request of at most one of them: the one
\* that had a change in flight.
LEMMA DieSim ==
    ASSUME TypeOK, LedgerInv, ContractInv, NEW dead \in SUBSET Process, Forget(dead),
           UNCHANGED ledger
    PROVE  R!Next
<1>1. /\ req' = [p \in Process |-> IF p \in dead THEN R!NoRequest ELSE req[p]]
      /\ Answer' = [p \in Process |-> IF p \in dead THEN "none" ELSE Answer[p]]
  BY SameOperators DEF Forget, Answer
<1>2. Members' = Members \/ \E p \in dead : R!Waiting(p) /\ Members' = R!Served(req[p])
  <2>1. CASE \A p \in dead : mine[p] = NoFile
    <3>1. Settled' = Settled
      BY <2>1, ProvisioningAssumption
         DEF Settled, Forget, TypeOK, LedgerInv, Exclusive
    <3> QED BY <3>1 DEF Members
  <2>2. ASSUME NEW p \in dead, mine[p] # NoFile
        PROVE  R!Waiting(p) /\ Members' = R!Served(req[p])
    <3>1. Busy(p) /\ lock = p
      BY <2>2 DEF LedgerInv, Exclusive
    <3>2. Settled' = ledger
      BY <3>1, ProvisioningAssumption DEF Settled, Forget
    <3>3. Effect(p) /\ Settled = Restored(p)
      BY <2>2, SettledOf DEF ContractInv, InFlight
    <3>4. Members' = R!Served(req[p])
      BY <3>1, <3>2, <3>3, ServedAs DEF Effect, Members, LedgerOps, Busy
    <3>5. req[p] # NoRequest /\ Answer[p] = "none"
      BY <3>1 DEF Busy, ContractInv, Asked, Answer
    <3> QED BY <3>4, <3>5, SameOperators DEF R!Waiting, Answer
  <2> QED BY <2>1, <2>2
<1> QED BY <1>1, <1>2 DEF R!Next, R!Die, Members, Answer

\* Every step of the system.
LEMMA NextSim ==
    ASSUME "edit" \notin Faults, "cleanup" \notin Faults
    PROVE  TypeOK /\ LedgerInv /\ ContractInv /\ [Next]_vars => R!Next \/ UNCHANGED Image
<1> SUFFICES ASSUME TypeOK, LedgerInv, ContractInv, [Next]_vars
             PROVE  R!Next \/ UNCHANGED Image
  OBVIOUS
<1>1. ASSUME NEW p \in Process, Invoke(p) \/ Step(p) PROVE R!Next \/ UNCHANGED Image
  BY <1>1, StepSim
<1>2. ASSUME NEW p \in Process, Crash(p) PROVE R!Next
  BY <1>2, DieSim DEF Crash, disk
<1>3. CASE Reboot
  BY <1>3, DieSim DEF Reboot, disk
<1>4. CASE InterfaceDown \/ UNCHANGED vars
  BY <1>4 DEF InterfaceDown, vars, disk, load, undo, Image, Members, Settled, Answer
<1> QED BY <1>1, <1>2, <1>3, <1>4 DEF Next, Environment, Edit

LEMMA InitSim == Init => R!Init
BY ProvisioningAssumption
   DEF Init, R!Init, NoRequest, R!NoRequest, Settled, NoPartials, PeersOf

\* Towards the ledger, each peer add and each peer remove takes effect in one
\* step or not at all, with the answer the design document promises, whatever
\* runs beside it and whatever fails, is killed or restarted, as long as nobody
\* edits partials by hand and no rollback fails.
THEOREM ImplementsRegistry ==
    ASSUME "edit" \notin Faults, "cleanup" \notin Faults
    PROVE  Spec => RegistrySpec
<1>1. TypeOK /\ LedgerInv /\ [Next]_vars => LedgerInv'
  BY LedgerNext
<1>2. TypeOK /\ LedgerInv /\ ContractInv /\ [Next]_vars => ContractInv'
  BY ContractNext
<1>3. TypeOK /\ LedgerInv /\ ContractInv /\ [Next]_vars
        => [R!Next]_<<PeersOf(Settled), req,
                      [p \in Process |-> IF pc[p] = "exit" THEN reply[p] ELSE "none"]>>
  BY NextSim DEF Image, Members, Answer
<1> QED BY <1>1, <1>2, <1>3, LedgerInit, ContractInit, InitSim, TypeCorrect,
           PTL DEF Spec, RegistrySpec, R!Spec
-----------------------------------------------------------------------------
(***************************************************************************)
(* The conf, the unit and the interface against the ledger.  `build`        *)
(* installs a conf without the lock, so every theorem here leaves it out.    *)
(***************************************************************************)
-----------------------------------------------------------------------------
(***************************************************************************)
(* One command at a time is inside execute_apply.                           *)
(***************************************************************************)
Serial ==
    \A p \in Process : /\ (Busy(p) \/ pc[p] \in Applying) => lock = p
                       /\ mine[p] # NoFile => Busy(p)
                       /\ req[p].op # "build"
                       /\ pc[p] \in Applying \cup {"acquire"} =>
                            req[p].op \in LedgerOps \cup {"apply"}

\* Past the enable the unit is enabled, and .sync is what the conf says.
Prepared ==
    \A p \in Process : /\ pc[p] \in Applying \ {"install", "enable"} => enabled
                       /\ pc[p] = "sync" => syncFile = {conf}

PersistInv == Serial /\ Prepared

\* What a busy command applies is the ledger, whatever a concurrent apply had
\* installed before it.
AppliesLedger ==
    \A p \in Process : req[p].op \in LedgerOps =>
        /\ pc[p] = "install" => snap[p] = ledger
        /\ pc[p] \in Applying \ {"install"} => conf = PeersOf(ledger)

\* While systemd alone takes the interface up and down, the two agree, and the
\* outcome of the probe holds until it has been acted upon.
HostAgrees ==
    /\ up = unit
    /\ \A p \in Process :
        /\ pc[p] = "start" => ~ up
        /\ pc[p] \in {"strip", "sync", "unsync"} => up
        /\ (pc[p] = "unsync" /\ reply[p] # "env") => live = conf

\* Nothing fails: the conf, the unit and the interface are one change behind
\* the ledger until its process has applied it.
Calm ==
    /\ up => enabled
    /\ \A p \in Process : /\ pc[p] # "rollback"
                          /\ pc[p] # "exit" => reply[p] = "none"
    /\ (\A p \in Process : pc[p] # "sync" /\ pc[p] # "unsync") => syncFile = {}
    /\ (\A p \in Process : mine[p] = NoFile) =>
          conf = PeersOf(ledger) /\ (up => live = conf)
    /\ \A p \in Process : (mine[p] # NoFile /\ pc[p] \notin Applying \ {"install"}) =>
          conf = PeersOf(Restored(p)) /\ (up => live = conf)

-----------------------------------------------------------------------------
\* A command that leaves keeps the lock to itself until it has left.
LEMMA SerialFinish ==
    ASSUME TypeOK, Serial, NEW p \in Process, NEW outcome,
           Finish(p, outcome) \/ (Fail(p, outcome) /\ (mine[p] # NoFile => lock = p)),
           UNCHANGED <<lock, req>>
    PROVE  Serial'
BY DEF TypeOK, Serial, Finish, Fail, Unload, Goto, Busy, Applying, undo

\* One that goes on does so with the lock wherever it needs it.
LEMMA SerialGoOn ==
    ASSUME TypeOK, Serial, NEW p \in Process, NEW label \in Labels, Goto(p, label),
           label \notin {"idle", "acquire", "exit"} \/ mine[p] = NoFile,
           label \in Applying => lock = p,
           label \in Applying \cup {"acquire"} => req[p].op \in LedgerOps \cup {"apply"},
           (req[p].op \in LedgerOps /\ pc[p] \in {"idle", "acquire", "exit"}) =>
               label \in {"idle", "acquire", "exit"},
           UNCHANGED <<lock, req, mine>>
    PROVE  Serial'
BY DEF TypeOK, Serial, Goto, Busy

LEMMA SerialInit == Init => PersistInv
BY ProvisioningAssumption
   DEF Init, PersistInv, Serial, Prepared, Busy, Applying, NoRequest, LedgerOps

\* A command that is past the lock holds it until it exits.
LEMMA SerialSteps ==
    ASSUME TypeOK, Serial, "build" \notin Ops, NEW p \in Process, Invoke(p) \/ Step(p)
    PROVE  Serial'
<1> USE DEF disk, host, load, undo
<1> USE DEF Labels
<1>1. CASE Invoke(p)
  BY <1>1, ProvisioningAssumption
     DEF Invoke, TypeOK, Serial, Busy, Goto, Applying, LedgerOps
<1>2. CASE Acquire(p)
  BY <1>2, ProvisioningAssumption DEF Acquire, TypeOK, Serial, Busy, Goto, Applying, LedgerOps
<1>3. CASE LockTimeout(p)
  BY <1>3, SerialFinish DEF LockTimeout, Serial
<1>4. CASE Exit(p)
  BY <1>4, ProvisioningAssumption
     DEF Exit, TypeOK, Serial, Busy, Goto, Applying, NoRequest, LedgerOps
<1>5. CASE LoadStep(p)
  <2>1. CASE ListForVars(p) \/ LoadVars(p)
    BY <2>1, SerialGoOn DEF ListForVars, LoadVars, Applying
  <2>2. CASE ReadPartial(p)
    BY <2>2 DEF ReadPartial, TypeOK, Serial, Busy
  <2>3. CASE VarsVanished(p) \/ PartialVanished(p)
    BY <2>3, SerialFinish DEF VarsVanished, PartialVanished, LoadFails, Serial
  <2> QED BY <1>5, <2>1, <2>2, <2>3 DEF LoadStep
<1>6. CASE LedgerStep(p)
  <2>1. CASE AddPresent(p) \/ AddFull(p) \/ RemoveAbsent(p) \/ Rollback(p) \/ RollbackFails(p)
    BY <2>1, SerialFinish DEF AddPresent, AddFull, RemoveAbsent, Rollback, RollbackFails
  <2>2. CASE AuthorFails(p) \/ DeleteFails(p)
    BY <2>2, SerialFinish DEF AuthorFails, DeleteFails, Serial
  <2>3. CASE Author(p)
    BY <2>3 DEF Author, Deciding, Loaded, TypeOK, Serial, Busy, Goto, Applying, LedgerOps
  <2>4. CASE Delete(p)
    BY <2>4 DEF Delete, Deciding, Loaded, TypeOK, Serial, Busy, Goto, Applying, LedgerOps
  <2> QED BY <1>6, <2>1, <2>2, <2>3, <2>4 DEF LedgerStep
<1>7. CASE SpineStep(p)
  <2>1. CASE CheckFails(p) \/ CompileFails(p) \/ InstallFails(p)
    BY <2>1, SerialFinish DEF CheckFails, CompileFails, InstallFails, Serial
  <2>2. CASE Show(p)
    BY <2>2, SerialFinish DEF Show
  <2>3. CASE Compile(p)
    BY <2>3, SerialGoOn DEF Compile, Compiling, Loaded, Serial, Busy, Applying, LedgerOps
  <2>4. CASE Install(p)
    BY <2>4, SerialGoOn, SerialFinish DEF Install, Serial, Applying
  <2> QED BY <1>7, <2>1, <2>2, <2>3, <2>4 DEF SpineStep
<1>8. CASE ApplyStep(p)
  <2>1. CASE EnableFails(p) \/ ProbeFails(p) \/ StripFails(p) \/ StartFails(p)
    BY <2>1, SerialFinish DEF EnableFails, ProbeFails, StripFails, StartFails, Serial
  <2>2. CASE RemoveSync(p) \/ Start(p)
    BY <2>2, SerialFinish DEF RemoveSync, Start, Serial
  <2>3. CASE Enable(p) \/ Probe(p) \/ Strip(p) \/ SyncConf(p) \/ SyncConfFails(p)
    BY <2>3, SerialGoOn DEF Enable, Probe, Strip, SyncConf, SyncConfFails, Serial, Applying
  <2> QED BY <1>8, <2>1, <2>2, <2>3 DEF ApplyStep
<1> QED BY <1>1, <1>2, <1>3, <1>4, <1>5, <1>6, <1>7, <1>8 DEF Step

\* Neither reading the folder, nor changing the ledger, nor waiting for the lock
\* touches what is installed or the host, or moves a process past the install.
LEMMA OffHost ==
    ASSUME TypeOK, NEW p \in Process,
           \/ Invoke(p) \/ Acquire(p) \/ LockTimeout(p) \/ Exit(p)
           \/ LoadStep(p) \/ LedgerStep(p)
    PROVE  /\ UNCHANGED <<conf, syncFile, host>>
           /\ pc'[p] \notin Applying \ {"install"}
           /\ \A q \in Process : q # p => pc'[q] = pc[q] /\ reply'[q] = reply[q]
                                            /\ req'[q] = req[q] /\ snap'[q] = snap[q]
<1> USE DEF TypeOK, disk, host, load, undo, Goto, Finish, Fail, Unload, Applying
<1>1. CASE Invoke(p) \/ Acquire(p) \/ LockTimeout(p) \/ Exit(p)
  BY <1>1 DEF Invoke, Acquire, LockTimeout, Exit
<1>2. CASE LoadStep(p)
  BY <1>2 DEF LoadStep, ListForVars, LoadVars, VarsVanished, LoadFails, ReadPartial,
              PartialVanished
<1>3. CASE LedgerStep(p)
  BY <1>3 DEF LedgerStep, AddPresent, AddFull, Author, AuthorFails, RemoveAbsent,
              Delete, DeleteFails, Rollback, RollbackFails, Deciding, Loaded
<1> QED BY <1>1, <1>2, <1>3

\* A step inside execute_apply leaves the other processes alone, and they are
\* not inside it.
LEMMA AloneInApply ==
    ASSUME TypeOK, Serial, NEW p \in Process, SpineStep(p) \/ ApplyStep(p)
    PROVE  /\ \A q \in Process : q # p => pc'[q] = pc[q] /\ reply'[q] = reply[q]
                                            /\ snap'[q] = snap[q]
           /\ pc[p] \in Applying =>
                \A q \in Process : q # p => pc[q] \notin Applying /\ ~ Busy(q)
           /\ UNCHANGED <<ledger, lock, req>>
<1>1. /\ \A q \in Process : q # p => pc'[q] = pc[q] /\ reply'[q] = reply[q]
                                       /\ snap'[q] = snap[q]
      /\ UNCHANGED <<ledger, lock, req>>
  <2> USE DEF TypeOK, disk, host, load, undo, Goto, Finish, Fail, Unload
  <2>1. CASE SpineStep(p)
    BY <2>1 DEF SpineStep, CheckFails, Show, Compile, CompileFails, Install, InstallFails
  <2>2. CASE ApplyStep(p)
    BY <2>2 DEF ApplyStep, Enable, EnableFails, Probe, ProbeFails, Strip, StripFails,
                SyncConf, SyncConfFails, RemoveSync, Start, StartFails
  <2> QED BY <2>1, <2>2
<1>2. pc[p] \in Applying => \A q \in Process : q # p => pc[q] \notin Applying /\ ~ Busy(q)
  BY DEF Serial
<1> QED BY <1>1, <1>2

\* Nobody but the holder of the lock moves the unit file, .sync or the conf.
LEMMA PreparedSteps ==
    ASSUME TypeOK, PersistInv, NEW p \in Process, Invoke(p) \/ Step(p)
    PROVE  Prepared'
<1> USE DEF PersistInv, Prepared
<1>1. CASE \/ Invoke(p) \/ Acquire(p) \/ LockTimeout(p) \/ Exit(p)
           \/ LoadStep(p) \/ LedgerStep(p)
  BY <1>1, OffHost DEF host, Applying
<1> USE DEF Applying, TypeOK, Goto, Finish, Fail, Unload, disk, host, load, undo
<1>2. CASE SpineStep(p)
  <2>1. CASE CheckFails(p) \/ Show(p) \/ Compile(p) \/ CompileFails(p) \/ InstallFails(p)
    BY <2>1, ProvisioningAssumption DEF CheckFails, Show, Compile, CompileFails, InstallFails
  <2>2. CASE Install(p)
    BY <2>2, <1>2, AloneInApply DEF Install
  <2> QED BY <1>2, <2>1, <2>2 DEF SpineStep
<1>3. CASE ApplyStep(p)
  <2>1. CASE EnableFails(p) \/ ProbeFails(p) \/ StripFails(p) \/ StartFails(p) \/ Start(p)
    BY <2>1 DEF EnableFails, ProbeFails, StripFails, StartFails, Start
  <2>2. CASE Enable(p) \/ Probe(p) \/ SyncConf(p) \/ SyncConfFails(p)
    BY <2>2 DEF Enable, Probe, SyncConf, SyncConfFails
  <2>3. CASE Strip(p)
    BY <2>3, <1>3, AloneInApply DEF Strip
  <2>4. CASE RemoveSync(p)
    BY <2>4, <1>3, AloneInApply DEF RemoveSync
  <2> QED BY <1>3, <2>1, <2>2, <2>3, <2>4 DEF ApplyStep
<1> QED BY <1>1, <1>2, <1>3 DEF Step

\* Deaths, restarts and edits keep the invariant too.
LEMMA PersistNext ==
    ASSUME "build" \notin Ops
    PROVE  TypeOK /\ PersistInv /\ [Next]_vars => PersistInv'
<1> SUFFICES ASSUME TypeOK, PersistInv, [Next]_vars PROVE PersistInv'
  OBVIOUS
<1> USE ProvisioningAssumption
    DEF PersistInv, Serial, Prepared, TypeOK, Busy, Applying, disk, host, load, undo
<1>1. ASSUME NEW p \in Process, Invoke(p) \/ Step(p) PROVE PersistInv'
  BY <1>1, SerialSteps, PreparedSteps
<1>2. ASSUME NEW p \in Process, Crash(p) PROVE PersistInv'
  BY <1>2 DEF Crash, Forget, NoRequest, LedgerOps
<1>3. CASE Reboot
  BY <1>3 DEF Reboot, Forget, NoRequest, LedgerOps
<1>4. CASE InterfaceDown \/ Edit
  BY <1>4 DEF InterfaceDown, Edit
<1>5. CASE UNCHANGED vars
  BY <1>5 DEF vars
<1> QED BY <1>1, <1>2, <1>3, <1>4, <1>5 DEF Next, Environment

\* A step gives the interface peers of the conf only, and once the unit is
\* enabled.
LEMMA LiveFromConf ==
    ASSUME TypeOK, PersistInv, [Next]_vars
    PROVE  \A a \in live' \ live : a \in conf' /\ enabled'
<1> USE DEF TypeOK, PersistInv, Prepared, Applying, disk, host
<1>1. ASSUME NEW p \in Process, Invoke(p) \/ Step(p)
      PROVE  \A a \in live' \ live : a \in conf' /\ enabled'
  <2>1. CASE \/ Invoke(p) \/ Acquire(p) \/ LockTimeout(p) \/ Exit(p)
             \/ LoadStep(p) \/ LedgerStep(p)
    BY <2>1, OffHost
  <2>2. CASE SpineStep(p)
    BY <2>2 DEF SpineStep, CheckFails, Show, Compile, CompileFails, Install, InstallFails
  <2>3. CASE Enable(p) \/ EnableFails(p) \/ Probe(p) \/ ProbeFails(p) \/ Strip(p)
             \/ StripFails(p) \/ RemoveSync(p)
    BY <2>3 DEF Enable, EnableFails, Probe, ProbeFails, Strip, StripFails, RemoveSync
  <2>4. CASE SyncConf(p) \/ SyncConfFails(p)
    BY <2>4 DEF SyncConf, SyncConfFails
  <2>5. CASE Start(p) \/ StartFails(p)
    BY <2>5 DEF Start, StartFails
  <2> QED BY <1>1, <2>1, <2>2, <2>3, <2>4, <2>5 DEF Step, ApplyStep
<1>2. ASSUME NEW p \in Process, Crash(p)
      PROVE  \A a \in live' \ live : a \in conf' /\ enabled'
  BY <1>2 DEF Crash
<1>3. CASE Environment \/ UNCHANGED vars
  BY <1>3 DEF Environment, Reboot, InterfaceDown, Edit, vars
<1> QED BY <1>1, <1>2, <1>3 DEF Next

\* No peer is ever reachable that a reboot would lose, however many commands run
\* side by side and whatever fails, dies, restarts, is stopped or is edited in
\* between, as long as `build` does not install a conf behind the lock's back.
THEOREM AlwaysPersistedBeforeLive ==
    ASSUME "build" \notin Ops
    PROVE  Spec => PersistedBeforeLive
<1>1. TypeOK /\ PersistInv /\ [Next]_vars => PersistInv'
  BY PersistNext
<1>2. TypeOK /\ PersistInv /\ [Next]_vars =>
        [\A a \in live' \ live : a \in conf' /\ enabled']_vars
  BY LiveFromConf
<1> QED BY <1>1, <1>2, SerialInit, TypeCorrect, PTL DEF Spec, PersistedBeforeLive

-----------------------------------------------------------------------------
(***************************************************************************)
(* What a ledger command applies.                                           *)
(***************************************************************************)
LEMMA AppliesInit == Init => AppliesLedger
BY DEF Init, AppliesLedger, NoRequest, LedgerOps, Applying

\* Only the holder of the lock changes the ledger, and it is not yet applying.
LEMMA LedgerMovedBy ==
    ASSUME TypeOK, LedgerInv, NEW p \in Process, LedgerStep(p), ledger' # ledger
    PROVE  lock = p /\ pc'[p] \notin Applying
<1>1. CASE Author(p)
  BY <1>1, DecidesOnLedger DEF Author, Deciding, LedgerOps, Goto, TypeOK, Applying
<1>2. CASE Delete(p)
  BY <1>2, DecidesOnLedger DEF Delete, Deciding, LedgerOps, Goto, TypeOK, Applying
<1>3. CASE Rollback(p)
  BY <1>3 DEF Rollback, LedgerInv, Exclusive, Finish, Goto, TypeOK, Applying
<1> QED BY <1>1, <1>2, <1>3
    DEF LedgerStep, AddPresent, AddFull, AuthorFails, RemoveAbsent, DeleteFails,
        RollbackFails, disk

LEMMA AppliesSteps ==
    ASSUME TypeOK, LedgerInv, PersistInv, AppliesLedger,
           NEW p \in Process, Invoke(p) \/ Step(p)
    PROVE  AppliesLedger'
<1> USE DEF AppliesLedger
<1>1. CASE Acquire(p)
  BY <1>1, OffHost DEF Acquire, Goto, TypeOK, Applying, disk, host, load
<1>2. CASE Invoke(p) \/ LockTimeout(p) \/ Exit(p) \/ LoadStep(p)
  <2>1. ledger' = ledger /\ pc'[p] \notin Applying
    BY <1>2 DEF Invoke, LockTimeout, Exit, LoadStep, ListForVars, LoadVars,
                VarsVanished, LoadFails, ReadPartial, PartialVanished, Fail, Goto,
                TypeOK, Applying, disk, host
  <2> QED BY <1>2, <2>1, OffHost DEF Applying
<1>3. CASE LedgerStep(p)
  <2>1. \A q \in Process : (q # p /\ pc[q] \in Applying) => ledger' = ledger
    BY <1>3, LedgerMovedBy DEF PersistInv, Serial
  <2>2. pc'[p] \notin Applying
    BY <1>3 DEF LedgerStep, AddPresent, AddFull, Author, AuthorFails, RemoveAbsent,
                Delete, DeleteFails, Rollback, RollbackFails, Finish, Fail, Goto,
                TypeOK, Applying
  <2> QED BY <1>3, <2>1, <2>2, OffHost DEF Applying
<1> USE DEF TypeOK, Goto, Finish, Fail, Unload, disk, host, load, undo
<1>4. CASE SpineStep(p)
  <2>1. CASE CheckFails(p) \/ Show(p) \/ CompileFails(p) \/ InstallFails(p)
    BY <2>1 DEF CheckFails, Show, CompileFails, InstallFails, Applying
  <2>2. CASE Compile(p)
    BY <2>2, DecidesOnLedger DEF Compile, Compiling, Applying, LedgerOps
  <2>3. CASE Install(p)
    BY <2>3, <1>4, AloneInApply DEF Install, Applying, LedgerOps, PersistInv
  <2> QED BY <1>4, <2>1, <2>2, <2>3 DEF SpineStep
<1>5. CASE ApplyStep(p)
  <2>1. UNCHANGED <<conf, ledger, req>>
    BY <1>5 DEF ApplyStep, Enable, EnableFails, Probe, ProbeFails, Strip, StripFails,
                SyncConf, SyncConfFails, RemoveSync, Start, StartFails
  <2>2. pc'[p] # "install" /\ (pc'[p] \in Applying => pc[p] \in Applying \ {"install"})
    BY <1>5 DEF ApplyStep, Enable, EnableFails, Probe, ProbeFails, Strip, StripFails,
                SyncConf, SyncConfFails, RemoveSync, Start, StartFails, Applying
  <2> QED BY <1>5, <2>1, <2>2, AloneInApply DEF PersistInv
<1> QED BY <1>1, <1>2, <1>3, <1>4, <1>5 DEF Step

LEMMA AppliesNext ==
    ASSUME "edit" \notin Faults
    PROVE  TypeOK /\ LedgerInv /\ PersistInv /\ AppliesLedger /\ [Next]_vars
              => AppliesLedger'
<1> SUFFICES ASSUME TypeOK, LedgerInv, PersistInv, AppliesLedger, [Next]_vars
             PROVE  AppliesLedger'
  OBVIOUS
<1> USE DEF AppliesLedger, TypeOK, disk, host, load, undo
<1>1. ASSUME NEW p \in Process, Invoke(p) \/ Step(p) PROVE AppliesLedger'
  BY <1>1, AppliesSteps
<1>2. ASSUME NEW p \in Process, Crash(p) PROVE AppliesLedger'
  BY <1>2 DEF Crash, Forget, NoRequest, LedgerOps
<1>3. CASE Reboot
  BY <1>3 DEF Reboot, Forget, NoRequest, LedgerOps
<1>4. CASE InterfaceDown
  BY <1>4 DEF InterfaceDown
<1>5. CASE UNCHANGED vars
  BY <1>5 DEF vars
<1> QED BY <1>1, <1>2, <1>3, <1>4, <1>5 DEF Next, Environment, Edit

-----------------------------------------------------------------------------
(***************************************************************************)
(* What exit 0 means.                                                       *)
(***************************************************************************)
LEMMA AgreesInit == Init => HostAgrees
BY DEF Init, HostAgrees

LEMMA AgreesSteps ==
    ASSUME TypeOK, PersistInv, HostAgrees, "blind" \notin Faults,
           NEW p \in Process, Invoke(p) \/ Step(p)
    PROVE  HostAgrees'
<1> USE DEF HostAgrees
<1>1. CASE \/ Invoke(p) \/ Acquire(p) \/ LockTimeout(p) \/ Exit(p)
           \/ LoadStep(p) \/ LedgerStep(p)
  BY <1>1, OffHost DEF host, Applying
<1> USE DEF TypeOK, Goto, Finish, Fail, Unload, disk, host, load, undo
<1>2. CASE SpineStep(p)
  <2>1. CASE CheckFails(p) \/ Show(p) \/ Compile(p) \/ CompileFails(p) \/ InstallFails(p)
    BY <2>1 DEF CheckFails, Show, Compile, CompileFails, InstallFails
  <2>2. CASE Install(p)
    BY <2>2, <1>2, AloneInApply DEF Install, Applying, PersistInv
  <2> QED BY <1>2, <2>1, <2>2 DEF SpineStep
<1>3. CASE ApplyStep(p)
  <2>1. \A q \in Process : q # p =>
           pc'[q] = pc[q] /\ reply'[q] = reply[q] /\ pc[q] \notin Applying
    BY <1>3, AloneInApply
       DEF PersistInv, ApplyStep, Enable, EnableFails, Probe, ProbeFails, Strip, StripFails,
           SyncConf, SyncConfFails, RemoveSync, Start, StartFails, Applying
  <2>2. CASE Enable(p) \/ EnableFails(p) \/ ProbeFails(p) \/ StripFails(p) \/ RemoveSync(p)
    <3>1. /\ UNCHANGED <<unit, up, live>>
          /\ pc'[p] \in {"probe", "exit", "rollback"}
      BY <2>2 DEF Enable, EnableFails, ProbeFails, StripFails, RemoveSync
    <3> HIDE DEF TypeOK, Goto, Finish, Fail, Unload, disk, host, load, undo
    <3> QED BY <2>1, <3>1 DEF Applying
  <2>3. CASE Probe(p) \/ Strip(p)
    BY <2>1, <2>3 DEF Probe, Strip
  <2>4. CASE SyncConf(p) \/ SyncConfFails(p)
    BY <2>1, <2>4 DEF SyncConf, SyncConfFails, PersistInv, Prepared, Applying
  <2>5. CASE Start(p) \/ StartFails(p)
    BY <2>1, <2>5 DEF Start, StartFails, Applying
  <2> QED BY <1>3, <2>2, <2>3, <2>4, <2>5 DEF ApplyStep
<1> QED BY <1>1, <1>2, <1>3 DEF Step

LEMMA AgreesNext ==
    ASSUME Faults \cap {"stop", "ifdown", "blind"} = {}
    PROVE  TypeOK /\ PersistInv /\ HostAgrees /\ [Next]_vars => HostAgrees'
<1> SUFFICES ASSUME TypeOK, PersistInv, HostAgrees, [Next]_vars PROVE HostAgrees'
  OBVIOUS
<1> USE DEF HostAgrees, TypeOK, disk, host, load, undo
<1>1. ASSUME NEW p \in Process, Invoke(p) \/ Step(p) PROVE HostAgrees'
  BY <1>1, AgreesSteps
<1>2. ASSUME NEW p \in Process, Crash(p) PROVE HostAgrees'
  BY <1>2 DEF Crash, Forget
<1>3. CASE Reboot
  BY <1>3 DEF Reboot, Forget
<1>4. CASE InterfaceDown \/ Edit \/ UNCHANGED vars
  BY <1>4 DEF InterfaceDown, Edit, vars
<1> QED BY <1>1, <1>2, <1>3, <1>4 DEF Next, Environment

Applied(p) ==
    (pc[p] # "exit" /\ pc'[p] = "exit"
       /\ reply'[p] \in {"added", "removed", "applied"})
      => /\ enabled' /\ up' /\ unit' /\ live' = conf'
         /\ reply'[p] # "applied" => conf' = PeersOf(ledger')

\* The success of an apply is reported from an interface that has the conf.
LEMMA AppliedStep ==
    ASSUME TypeOK, ContractInv, PersistInv, AppliesLedger, HostAgrees,
           NEW p \in Process, Invoke(p) \/ Step(p)
    PROVE  Applied(p)
<1> USE DEF Applied, TypeOK, Goto, Finish, Fail, Unload, disk, host, load, undo
<1>1. CASE Invoke(p) \/ Acquire(p) \/ LockTimeout(p) \/ Exit(p)
  BY <1>1 DEF Invoke, Acquire, LockTimeout, Exit
<1>2. CASE LoadStep(p)
  BY <1>2 DEF LoadStep, ListForVars, LoadVars, VarsVanished, LoadFails, ReadPartial,
              PartialVanished
<1>3. CASE LedgerStep(p)
  <2>1. CASE Rollback(p) \/ RollbackFails(p)
    BY <2>1 DEF Rollback, RollbackFails, ContractInv, Answered
  <2> QED BY <1>3, <2>1 DEF LedgerStep, AddPresent, AddFull, Author, AuthorFails,
              RemoveAbsent, Delete, DeleteFails
<1>4. CASE SpineStep(p)
  <2>1. CASE Install(p)
    BY <2>1 DEF Install, PersistInv, Serial
  <2>2. CASE Show(p)
    BY <2>2 DEF Show, Success, ReadOnlyOps
  <2> QED BY <1>4, <2>1, <2>2 DEF SpineStep, CheckFails, Compile, CompileFails, InstallFails
<1>5. CASE ApplyStep(p)
  <2>1. CASE Enable(p) \/ EnableFails(p) \/ Probe(p) \/ ProbeFails(p) \/ Strip(p)
             \/ StripFails(p) \/ SyncConf(p) \/ SyncConfFails(p) \/ StartFails(p)
    BY <2>1 DEF Enable, EnableFails, Probe, ProbeFails, Strip, StripFails, SyncConf,
                SyncConfFails, StartFails
  <2>2. ASSUME pc[p] \in {"unsync", "start"},
               reply'[p] = Success(p), reply'[p] \in {"added", "removed", "applied"}
        PROVE  enabled /\ (reply'[p] # "applied" => conf = PeersOf(ledger))
    <3>1. enabled
      BY <2>2 DEF PersistInv, Prepared, Applying
    <3>2. reply'[p] # "applied" => req[p].op \in LedgerOps
      BY <2>2, Zenon DEF Success, LedgerOps
    <3> QED BY <2>2, <3>1, <3>2 DEF AppliesLedger, Applying
  <2>3. CASE RemoveSync(p)
    BY <2>2, <2>3 DEF RemoveSync, HostAgrees
  <2>4. CASE Start(p)
    BY <2>2, <2>4 DEF Start, HostAgrees
  <2> QED BY <1>5, <2>1, <2>3, <2>4 DEF ApplyStep
<1> QED BY <1>1, <1>2, <1>3, <1>4, <1>5 DEF Step

LEMMA AppliedNext ==
    ASSUME TypeOK, ContractInv, PersistInv, AppliesLedger, HostAgrees, Next
    PROVE  \A p \in Process : Applied(p)
<1>1. ASSUME NEW q \in Process, Invoke(q) \/ Step(q), NEW p \in Process PROVE Applied(p)
  <2>1. CASE p = q
    BY <1>1, <2>1, AppliedStep
  <2>2. CASE p # q
    <3>1. pc'[p] = pc[p]
      BY <1>1, <2>2, OffHost, AloneInApply DEF Step, PersistInv
    <3> QED BY <3>1 DEF Applied
  <2> QED BY <2>1, <2>2
<1>2. ASSUME NEW q \in Process, Crash(q), NEW p \in Process PROVE Applied(p)
  BY <1>2 DEF Crash, Forget, Applied
<1>3. ASSUME Environment, NEW p \in Process PROVE Applied(p)
  BY <1>3 DEF Environment, Reboot, Forget, InterfaceDown, Edit, Applied
<1> QED BY <1>1, <1>2, <1>3 DEF Next

\* Exit 0 of peer add, peer remove or apply is never a lie: at that step the
\* interface is up with exactly the installed conf, systemd brings it back after
\* a reboot, and after an add or a remove the conf is the ledger; whatever
\* failed, crashed or restarted before, and whatever stale conf a concurrent
\* apply installed.  Nobody edits partials, takes the interface down beside
\* wirebard, or makes `wg show` fail on an interface that is up.
THEOREM AlwaysAppliedBeforeExit ==
    ASSUME "build" \notin Ops,
           Faults \cap {"edit", "stop", "ifdown", "blind"} = {}
    PROVE  Spec => AppliedBeforeExit
<1>1. /\ TypeOK /\ LedgerInv /\ [Next]_vars => LedgerInv'
      /\ TypeOK /\ LedgerInv /\ ContractInv /\ [Next]_vars => ContractInv'
      /\ TypeOK /\ LedgerInv /\ PersistInv /\ AppliesLedger /\ [Next]_vars
           => AppliesLedger'
  BY LedgerNext, ContractNext, AppliesNext
<1>2. TypeOK /\ PersistInv /\ [Next]_vars => PersistInv'
  BY PersistNext
<1>3. TypeOK /\ PersistInv /\ HostAgrees /\ [Next]_vars => HostAgrees'
  BY AgreesNext
<1>4. TypeOK /\ ContractInv /\ PersistInv /\ AppliesLedger /\ HostAgrees /\ [Next]_vars
        => [\A p \in Process :
              (pc[p] # "exit" /\ pc'[p] = "exit"
                 /\ reply'[p] \in {"added", "removed", "applied"})
                => /\ enabled' /\ up' /\ unit' /\ live' = conf'
                   /\ reply'[p] # "applied" => conf' = PeersOf(ledger')]_vars
  BY AppliedNext DEF Applied
<1> QED BY <1>1, <1>2, <1>3, <1>4, SerialInit, AppliesInit, AgreesInit, LedgerInit,
           ContractInit, TypeCorrect, PTL DEF Spec, AppliedBeforeExit

-----------------------------------------------------------------------------
(***************************************************************************)
(* Peers that stay in the ledger stay reachable.                            *)
(***************************************************************************)
LEMMA LiveToLedger ==
    ASSUME TypeOK, PersistInv, AppliesLedger, NEW p \in Process, ApplyStep(p),
           req[p].op # "apply"
    PROVE  ledger' = ledger /\ (live' = live \/ live' = PeersOf(ledger))
<1> USE DEF TypeOK, Applying, disk, host
<1>1. CASE Enable(p) \/ EnableFails(p) \/ Probe(p) \/ ProbeFails(p) \/ Strip(p)
           \/ StripFails(p) \/ RemoveSync(p)
  BY <1>1 DEF Enable, EnableFails, Probe, ProbeFails, Strip, StripFails, RemoveSync
<1>2. pc[p] \in {"sync", "start"} => conf = PeersOf(ledger)
  BY DEF PersistInv, Serial, AppliesLedger
<1>3. CASE SyncConf(p) \/ SyncConfFails(p)
  BY <1>2, <1>3 DEF SyncConf, SyncConfFails, PersistInv, Prepared
<1>4. CASE Start(p) \/ StartFails(p)
  BY <1>2, <1>4 DEF Start, StartFails
<1> QED BY <1>1, <1>3, <1>4 DEF ApplyStep

LEMMA StaysLive ==
    ASSUME TypeOK, PersistInv, ContractInv, AppliesLedger, "apply" \notin Ops,
           Faults \cap {"edit", "stop", "ifdown", "reboot"} = {}, [Next]_vars
    PROVE  \A a \in live : (a \in PeersOf(ledger) /\ a \in PeersOf(ledger')) => a \in live'
<1> SUFFICES live' = live \/ live' = PeersOf(ledger)
  OBVIOUS
<1>1. ASSUME NEW p \in Process, Invoke(p) \/ Step(p)
      PROVE  live' = live \/ live' = PeersOf(ledger)
  <2>1. CASE ApplyStep(p)
    <3>1. pc[p] # "idle"
      BY <2>1 DEF ApplyStep, Enable, EnableFails, Probe, ProbeFails, Strip, StripFails,
                  SyncConf, SyncConfFails, RemoveSync, Start, StartFails
    <3>2. req[p].op # "apply"
      BY <3>1 DEF ContractInv, Asked
    <3> QED BY <2>1, <3>2, LiveToLedger
  <2>2. CASE SpineStep(p)
    BY <2>2 DEF SpineStep, CheckFails, Show, Compile, CompileFails, Install,
                InstallFails, host
  <2> QED BY <1>1, <2>1, <2>2, OffHost DEF Step, host
<1>2. CASE \E p \in Process : Crash(p)
  BY <1>2 DEF Crash, host
<1>3. CASE Environment \/ UNCHANGED vars
  BY <1>3 DEF Environment, Reboot, InterfaceDown, Edit, vars, host
<1> QED BY <1>1, <1>2, <1>3 DEF Next

\* Whatever peers are added and removed beside it, and although commands fail,
\* crash and roll back: a peer that is reachable and stays in the ledger stays
\* reachable.  A stale `apply` or `build` may take it down, and so may a reboot
\* or an administrator.
THEOREM NeverInterrupted ==
    ASSUME Ops \cap {"apply", "build"} = {},
           Faults \cap {"edit", "stop", "ifdown", "reboot"} = {}
    PROVE  Spec => NoPeerInterrupted
<1>1. /\ TypeOK /\ LedgerInv /\ [Next]_vars => LedgerInv'
      /\ TypeOK /\ LedgerInv /\ ContractInv /\ [Next]_vars => ContractInv'
      /\ TypeOK /\ LedgerInv /\ PersistInv /\ AppliesLedger /\ [Next]_vars
           => AppliesLedger'
  BY LedgerNext, ContractNext, AppliesNext
<1>2. TypeOK /\ PersistInv /\ [Next]_vars => PersistInv'
  BY PersistNext
<1>3. TypeOK /\ PersistInv /\ ContractInv /\ AppliesLedger /\ [Next]_vars =>
        [\A a \in live : (a \in PeersOf(ledger) /\ a \in PeersOf(ledger'))
                           => a \in live']_vars
  BY StaysLive
<1> QED BY <1>1, <1>2, <1>3, SerialInit, AppliesInit, LedgerInit, ContractInit,
           TypeCorrect, PTL DEF Spec, NoPeerInterrupted

-----------------------------------------------------------------------------
(***************************************************************************)
(* When nothing fails and the lock is free, everything agrees.              *)
(***************************************************************************)
LEMMA CalmInit == Init => Calm
BY DEF Init, Calm, PeersOf, NoPartials

\* What is in flight once a ledger command has changed the ledger.
LEMMA ChangeRestorable ==
    ASSUME TypeOK, LedgerInv, NEW p \in Process, Author(p) \/ Delete(p)
    PROVE  /\ lock = p /\ mine'[p] # NoFile
           /\ Restored(p)' = ledger
           /\ \A q \in Process : mine[q] = NoFile /\ (q # p => mine'[q] = NoFile)
<1>1. lock = p /\ mine[p] = NoFile
  BY DecidesOnLedger DEF Author, Delete, Deciding, LedgerOps
<1>2. \A q \in Process : mine[q] = NoFile
  BY <1>1 DEF LedgerInv, Exclusive
<1>3. PICK f \in File : /\ mine' = [mine EXCEPT ![p] = f]
                        /\ ledger' = [ledger EXCEPT ![f] = ledger'[f]]
                        /\ saved'[p] = ledger[f]
  BY <1>1 DEF Author, Delete, Present, TypeOK, Folder, LedgerInv, Restorable
<1>4. [ledger' EXCEPT ![f] = ledger[f]] = ledger
  BY <1>3 DEF TypeOK, Folder
<1>5. mine'[p] = f /\ f # NoFile
  BY <1>3, ProvisioningAssumption DEF TypeOK
<1> QED BY <1>1, <1>2, <1>3, <1>4, <1>5 DEF Restored, TypeOK

\* A step that touches neither the ledger nor the host keeps the agreement.
LEMMA CalmQuiet ==
    ASSUME TypeOK, Calm, NEW p \in Process,
           UNCHANGED <<conf, syncFile, host, ledger, mine, saved>>,
           pc[p] \notin Applying \ {"install"},
           pc'[p] \notin {"rollback", "sync", "unsync"},
           pc'[p] # "exit" => reply'[p] = "none",
           \A q \in Process : q # p => pc'[q] = pc[q] /\ reply'[q] = reply[q]
    PROVE  Calm'
<1> USE DEF Calm, host
<1>1. \A q \in Process : Restored(q)' = Restored(q)
  BY DEF Restored
<1>2. /\ up' => enabled'
      /\ \A q \in Process : pc'[q] # "rollback" /\ (pc'[q] # "exit" => reply'[q] = "none")
  OBVIOUS
<1>3. (\A q \in Process : pc'[q] # "sync" /\ pc'[q] # "unsync") => syncFile' = {}
  <2>1. pc[p] # "sync" /\ pc[p] # "unsync"
    BY DEF Applying
  <2> QED BY <2>1
<1>4. (\A q \in Process : mine'[q] = NoFile) =>
          conf' = PeersOf(ledger') /\ (up' => live' = conf')
  OBVIOUS
<1>5. \A q \in Process : (mine'[q] # NoFile /\ pc'[q] \notin Applying \ {"install"}) =>
          conf' = PeersOf(Restored(q)') /\ (up' => live' = conf')
  BY <1>1
<1> QED BY <1>2, <1>3, <1>4, <1>5

\* Neither does one that leaves with no change in flight.
LEMMA CalmLeave ==
    ASSUME TypeOK, LedgerInv, Calm, NEW p \in Process, NEW outcome,
           Finish(p, outcome) \/ Fail(p, outcome), mine[p] = NoFile,
           UNCHANGED <<conf, syncFile, host, ledger>>, pc[p] \notin Applying \ {"install"}
    PROVE  Calm'
<1>1. saved[p] = {}
  BY DEF LedgerInv, Restorable
<1>2. mine' = mine /\ saved' = saved
  <2>1. mine = [mine EXCEPT ![p] = NoFile] /\ saved = [saved EXCEPT ![p] = {}]
    BY <1>1 DEF TypeOK
  <2> QED BY <2>1 DEF Finish, Fail, undo
<1>3. /\ pc'[p] = "exit"
      /\ \A q \in Process : q # p => pc'[q] = pc[q] /\ reply'[q] = reply[q]
  BY DEF Finish, Fail, Goto, TypeOK
<1> QED BY <1>2, <1>3, CalmQuiet

LEMMA CalmBefore ==
    ASSUME TypeOK, LedgerInv, ContractInv, Calm, Faults = {}, NEW p \in Process,
           \/ Invoke(p) \/ Acquire(p) \/ LockTimeout(p) \/ Exit(p)
           \/ LoadStep(p) \/ LedgerStep(p)
    PROVE  Calm'
<1> USE DEF disk, load, undo
<1>1. pc[p] # "exit" => reply[p] = "none"
  BY DEF Calm
<1>2. CASE Invoke(p) \/ Acquire(p) \/ Exit(p)
  <2> USE DEF Invoke, Acquire, Exit, Goto, TypeOK
  <2>1. pc[p] \notin Applying \ {"install"}
    BY <1>2 DEF Applying
  <2>2. pc'[p] \notin {"rollback", "sync", "unsync"}
    BY <1>2
  <2>3. pc'[p] # "exit" => reply'[p] = "none"
    BY <1>1, <1>2
  <2>4. \A q \in Process : q # p => pc'[q] = pc[q] /\ reply'[q] = reply[q]
    BY <1>2
  <2>5. UNCHANGED <<conf, syncFile, host, ledger, mine, saved>>
    BY <1>2
  <2> QED BY <2>1, <2>2, <2>3, <2>4, <2>5, CalmQuiet
<1>3. CASE LockTimeout(p)
  <2>1. mine[p] = NoFile
    BY <1>3 DEF LockTimeout, LedgerInv, Exclusive, Busy
  <2> QED BY <1>3, <2>1, CalmLeave DEF LockTimeout, Applying
<1>4. CASE ListForVars(p) \/ LoadVars(p)
  BY <1>1, <1>4, CalmQuiet DEF ListForVars, LoadVars, Goto, TypeOK, Applying
<1>5. CASE ReadPartial(p)
  BY <1>1, <1>5, CalmQuiet DEF ReadPartial, TypeOK, Applying
<1>6. CASE VarsVanished(p) \/ PartialVanished(p)
  <2>1. mine[p] = NoFile
    BY <1>6 DEF VarsVanished, PartialVanished, ContractInv, Listed, LedgerInv, Exclusive
  <2> QED BY <1>6, <2>1, CalmLeave DEF VarsVanished, PartialVanished, LoadFails, Applying
<1>7. CASE AddPresent(p) \/ AddFull(p) \/ RemoveAbsent(p)
  BY <1>7, CalmLeave DEF AddPresent, AddFull, RemoveAbsent, Deciding, Loaded, Applying
<1>8. CASE DeleteFails(p)
  BY <1>8, CalmLeave DEF DeleteFails, Deciding, Loaded, Applying
<1>9. CASE Author(p) \/ Delete(p)
  <2> USE DEF Calm, host
  <2>1. /\ mine'[p] # NoFile /\ Restored(p)' = ledger
        /\ \A q \in Process : mine[q] = NoFile /\ (q # p => mine'[q] = NoFile)
    BY <1>9, ChangeRestorable
  <2>2. conf = PeersOf(ledger) /\ (up => live = conf)
    BY <2>1
  <2>3. UNCHANGED <<conf, syncFile, host, reply>> /\ pc' = [pc EXCEPT ![p] = "list"]
        /\ pc[p] = "read"
    BY <1>9 DEF Author, Delete, Deciding, Loaded, Goto
  <2>4. pc'[p] = "list" /\ \A q \in Process : q # p => pc'[q] = pc[q]
    BY <2>3 DEF TypeOK
  <2>5. /\ up' => enabled'
        /\ \A q \in Process : pc'[q] # "rollback" /\ (pc'[q] # "exit" => reply'[q] = "none")
    BY <2>3, <2>4
  <2>6. (\A q \in Process : pc'[q] # "sync" /\ pc'[q] # "unsync") => syncFile' = {}
    BY <2>3, <2>4
  <2> QED BY <2>1, <2>2, <2>3, <2>5, <2>6
<1>10. CASE AuthorFails(p) \/ Rollback(p) \/ RollbackFails(p)
  BY <1>10 DEF AuthorFails, Rollback, RollbackFails, Calm
<1> QED BY <1>2, <1>3, <1>4, <1>5, <1>6, <1>7, <1>8, <1>9, <1>10 DEF LoadStep, LedgerStep

LEMMA CalmSpine ==
    ASSUME TypeOK, LedgerInv, ContractInv, PersistInv, Calm, Faults = {},
           "apply" \notin Ops, NEW p \in Process, SpineStep(p)
    PROVE  Calm'
<1> USE DEF disk, load, undo
<1>1. CASE CheckFails(p)
  <2>1. mine[p] = NoFile
    BY <1>1, DecidesOnLedger DEF CheckFails, Compiling, LedgerInv, Exclusive, Busy
  <2> QED BY <1>1, <2>1, CalmLeave DEF CheckFails, Compiling, Loaded, Applying
<1>2. CASE Show(p)
  <2>1. mine[p] = NoFile
    BY <1>2 DEF Show, LedgerInv, Exclusive, Busy, ReadOnlyOps, LedgerOps
  <2> QED BY <1>2, <2>1, CalmLeave DEF Show, Loaded, Applying
<1>3. CASE Compile(p)
  <2>1. /\ pc[p] = "read" /\ pc'[p] \in {"acquire", "install"}
        /\ \A q \in Process : q # p => pc'[q] = pc[q]
        /\ UNCHANGED <<conf, syncFile, host, ledger, mine, saved, reply>>
    BY <1>3 DEF Compile, Compiling, Loaded, Goto, TypeOK
  <2>2. reply[p] = "none"
    BY <2>1 DEF Calm
  <2> QED BY <2>1, <2>2, CalmQuiet DEF Applying
<1>4. CASE CompileFails(p) \/ InstallFails(p)
  BY <1>4 DEF CompileFails, InstallFails
<1>5. CASE Install(p)
  <2> USE DEF Calm, host
  <2>1. req[p].op \in LedgerOps /\ mine[p] # NoFile
    BY <1>5 DEF Install, PersistInv, Serial, ContractInv, Asked, InFlight, Applying
  <2>2. \A q \in Process : q # p => mine[q] = NoFile /\ pc[q] \notin Applying
    BY <1>5, <2>1, AloneInApply DEF Install, PersistInv, LedgerInv, Exclusive, Applying
  <2>3. /\ UNCHANGED <<syncFile, host, reply, mine>>
        /\ pc'[p] = "enable" /\ \A q \in Process : q # p => pc'[q] = pc[q]
    BY <1>5, <2>1 DEF Install, Goto, TypeOK, LedgerOps
  <2>4. syncFile = {}
    BY <1>5, <2>2 DEF Install, Applying
  <2>5. \A q \in Process : pc'[q] # "rollback" /\ (pc'[q] # "exit" => reply'[q] = "none")
    BY <1>5, <2>3 DEF Install
  <2> QED BY <2>1, <2>2, <2>3, <2>4, <2>5 DEF Applying
<1> QED BY <1>1, <1>2, <1>3, <1>4, <1>5 DEF SpineStep

LEMMA CalmApply ==
    ASSUME TypeOK, LedgerInv, ContractInv, PersistInv, AppliesLedger, HostAgrees, Calm,
           Faults = {}, "apply" \notin Ops, NEW p \in Process, ApplyStep(p)
    PROVE  Calm'
<1> USE DEF Calm, disk, host, load, undo
<1>1. pc[p] \in Applying \ {"install"}
  BY DEF ApplyStep, Enable, EnableFails, Probe, ProbeFails, Strip, StripFails, SyncConf,
         SyncConfFails, RemoveSync, Start, StartFails, Applying
<1>2. /\ req[p].op \in LedgerOps /\ mine[p] # NoFile
      /\ reply[p] = "none" /\ conf = PeersOf(ledger)
  BY <1>1 DEF PersistInv, Serial, ContractInv, Asked, InFlight, AppliesLedger, Applying
<1>3. \A q \in Process : q # p => /\ mine[q] = NoFile /\ pc[q] \notin Applying
                                  /\ pc'[q] = pc[q] /\ reply'[q] = reply[q]
  BY <1>1, AloneInApply DEF PersistInv, LedgerInv, Exclusive
<1>4. (pc[p] # "sync" /\ pc[p] # "unsync") => syncFile = {}
  BY <1>3 DEF Applying
<1>5. CASE Enable(p) \/ Probe(p) \/ Strip(p) \/ SyncConf(p)
  <2>1. /\ pc'[p] \in Applying \ {"install"}
        /\ pc'[p] \in {"sync", "unsync"} \/ (syncFile' = {} /\ up' = up)
        /\ UNCHANGED <<mine, reply>> /\ up' = up /\ (enabled => enabled')
    BY <1>4, <1>5 DEF Enable, Probe, Strip, SyncConf, Goto, TypeOK, Applying
  <2> QED BY <1>2, <1>3, <2>1 DEF Applying
<1>6. CASE RemoveSync(p)
  <2>1. /\ syncFile' = {} /\ pc'[p] = "exit"
        /\ \A q \in Process : q # p => mine'[q] = NoFile
        /\ mine'[p] = NoFile /\ UNCHANGED <<conf, ledger, host>>
    BY <1>2, <1>3, <1>6 DEF RemoveSync, Finish, Goto, TypeOK
  <2>2. live = conf
    BY <1>2, <1>6 DEF RemoveSync, HostAgrees
  <2> QED BY <1>2, <1>3, <2>1, <2>2
<1>7. CASE Start(p)
  <2>1. /\ syncFile' = {} /\ pc'[p] = "exit"
        /\ \A q \in Process : q # p => mine'[q] = NoFile
        /\ mine'[p] = NoFile /\ UNCHANGED <<conf, ledger, enabled>>
    BY <1>3, <1>4, <1>7 DEF Start, Finish, Goto, TypeOK
  <2>2. enabled /\ live' = conf
    BY <1>7 DEF Start, HostAgrees, PersistInv, Prepared, Applying
  <2> QED BY <1>2, <1>3, <2>1, <2>2
<1>8. CASE \/ EnableFails(p) \/ ProbeFails(p) \/ StripFails(p) \/ SyncConfFails(p)
           \/ StartFails(p)
  BY <1>8 DEF EnableFails, ProbeFails, StripFails, SyncConfFails, StartFails, HostAgrees
<1> QED BY <1>5, <1>6, <1>7, <1>8 DEF ApplyStep

LEMMA CalmNext ==
    ASSUME Faults = {}, "apply" \notin Ops
    PROVE  TypeOK /\ LedgerInv /\ ContractInv /\ PersistInv /\ AppliesLedger
             /\ HostAgrees /\ Calm /\ [Next]_vars => Calm'
<1> SUFFICES ASSUME TypeOK, LedgerInv, ContractInv, PersistInv, AppliesLedger,
                    HostAgrees, Calm, [Next]_vars
             PROVE  Calm'
  OBVIOUS
<1>1. ASSUME NEW p \in Process, Invoke(p) \/ Step(p) PROVE Calm'
  BY <1>1, CalmBefore, CalmSpine, CalmApply DEF Step
<1>2. CASE UNCHANGED vars
  BY <1>2 DEF vars, disk, host, load, undo, Calm, Restored
<1> QED BY <1>1, <1>2 DEF Next, Crash, Environment, Reboot, InterfaceDown, Edit

\* Among any number of commands that add and remove peers, none failing or
\* dying: whenever the lock is free the installed conf is the ledger, an
\* interface that is up has exactly that conf and comes back after a reboot, and
\* no copy of the private key is left in .sync.
THEOREM AlwaysLockFreeConsistent ==
    ASSUME Faults = {}, Ops \subseteq LedgerOps \cup ReadOnlyOps
    PROVE  Spec => []LockFreeConsistent
<1>1. "apply" \notin Ops /\ "build" \notin Ops
  BY DEF LedgerOps, ReadOnlyOps
<1>2. /\ TypeOK /\ LedgerInv /\ [Next]_vars => LedgerInv'
      /\ TypeOK /\ LedgerInv /\ ContractInv /\ [Next]_vars => ContractInv'
      /\ TypeOK /\ LedgerInv /\ PersistInv /\ AppliesLedger /\ [Next]_vars
           => AppliesLedger'
  BY LedgerNext, ContractNext, AppliesNext
<1>3. /\ TypeOK /\ PersistInv /\ [Next]_vars => PersistInv'
      /\ TypeOK /\ PersistInv /\ HostAgrees /\ [Next]_vars => HostAgrees'
  BY <1>1, PersistNext, AgreesNext
<1>4. TypeOK /\ LedgerInv /\ ContractInv /\ PersistInv /\ AppliesLedger
        /\ HostAgrees /\ Calm /\ [Next]_vars => Calm'
  BY <1>1, CalmNext
<1>5. TypeOK /\ LedgerInv /\ PersistInv /\ HostAgrees /\ Calm => LockFreeConsistent
  <2> SUFFICES ASSUME TypeOK, LedgerInv, PersistInv, HostAgrees, Calm, lock = NoProcess
               PROVE  /\ conf = PeersOf(ledger)
                      /\ up => (live = conf /\ unit /\ enabled)
                      /\ syncFile = {}
    BY DEF LockFreeConsistent
  <2>1. \A p \in Process : mine[p] = NoFile /\ pc[p] \notin Applying
    BY ProvisioningAssumption DEF LedgerInv, Exclusive, PersistInv, Serial
  <2> QED BY <2>1 DEF Calm, HostAgrees, Applying
<1> QED BY <1>2, <1>3, <1>4, <1>5, SerialInit, AppliesInit, AgreesInit, CalmInit,
           LedgerInit, ContractInit, TypeCorrect, PTL DEF Spec
=============================================================================
