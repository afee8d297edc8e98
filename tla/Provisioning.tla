---------------------------- MODULE Provisioning ----------------------------
(***************************************************************************)
(* The wirebard processes that work on one network at the same time.        *)
(*                                                                          *)
(* `peer add` and `peer remove` change the ledger under the per-network     *)
(* lock and then run the shared spine (load, check, compile, execute_apply);*)
(* `apply` loads, checks and compiles first and takes the lock only for     *)
(* execute_apply; `build` and the read-only commands take no lock at all.   *)
(* A process that has exited may start another command, so histories are    *)
(* unbounded while the state stays finite.                                  *)
(*                                                                          *)
(* systemd and WireGuard are external: `enabled` and `unit` are what        *)
(* systemd knows of wg-quick@<network>, `up` and `live` what the kernel     *)
(* knows of the interface.                                                  *)
(***************************************************************************)
EXTENDS AddressPlan

CONSTANTS
    Process,   \* wirebard processes
    NoProcess, \* nobody holds the lock
    NoFile,    \* no change of the ledger is in flight
    Ops,       \* the commands callers run
    Faults,    \* what may go wrong
    EditFile,  \* the partials an administrator edits by hand
    EditTexts  \* the peers such a partial is made to hold

LedgerOps == {"add", "remove"}
ReadOnlyOps == {"check", "network"}
AllOps == LedgerOps \cup ReadOnlyOps \cup {"apply", "build"}

(***************************************************************************)
(*   fail     a write, a subprocess or the read of server.key fails; the    *)
(*            effect of a failed subprocess may have taken place            *)
(*   cleanup  an ignored error code: a rollback, or the removal of .sync,   *)
(*            does not take place                                           *)
(*   crash    a process is killed                                           *)
(*   reboot   the machine restarts                                          *)
(*   stop     the unit is stopped (systemctl stop)                          *)
(*   ifdown   the interface is taken down behind systemd's back             *)
(*            (wg-quick down): the unit stays active                        *)
(*   blind    `wg show` exits non-zero for another reason than a missing    *)
(*            interface (wg is not installed: the child exits 127)          *)
(*   edit     partials are edited by hand                                   *)
(***************************************************************************)
AllFaults == {"fail", "cleanup", "crash", "reboot", "stop", "ifdown", "blind",
              "edit"}

ASSUME ProvisioningAssumption ==
    /\ NoProcess \notin Process
    /\ NoFile \notin File
    /\ Ops \subseteq AllOps
    /\ Faults \subseteq AllFaults
    /\ EditFile \subseteq File
    /\ EditTexts \subseteq SUBSET Peer

VARIABLES
    ledger,    \* the network folder
    lock,      \* who holds <folder>/.lock
    conf,      \* the peers of the installed <network>.conf
    syncFile,  \* what <network>.conf.sync holds: nothing, or one set of peers
    enabled,   \* systemd starts the unit at boot
    unit,      \* systemd holds the unit active
    up,        \* the interface exists
    live,      \* the peers of the interface
    pc,        \* where each process is
    req,       \* the command it runs
    todo,      \* Network::load: the listed files it has yet to read
    snap,      \* the folder as it has read it
    mine,      \* the file it has authored or deleted and may roll back
    saved,     \* what a rollback puts back into that file
    reply      \* its outcome

disk == <<ledger, conf, syncFile>>
host == <<enabled, unit, up, live>>
load == <<todo, snap>>
undo == <<mine, saved>>
vars == <<disk, lock, host, pc, req, load, undo, reply>>

NoRequest == [op |-> "none"]
Request == [op : LedgerOps, key : Key] \cup [op : AllOps \ LedgerOps]
Labels == {"idle", "acquire", "list", "vars", "read", "install", "enable",
           "probe", "strip", "sync", "unsync", "start", "rollback", "exit"}

\* Replies: exit 0 in several forms, then exit 1 ("config") and exit 3 ("env").
Done == {"added", "present", "removed", "absent", "applied", "built", "shown"}
Replies == Done \cup {"none", "config", "env"}

TypeOK ==
    /\ ledger \in Folder
    /\ lock \in Process \cup {NoProcess}
    /\ conf \in SUBSET Peer /\ live \in SUBSET Peer
    /\ syncFile \in SUBSET (SUBSET Peer)
    /\ enabled \in BOOLEAN /\ unit \in BOOLEAN /\ up \in BOOLEAN
    /\ pc \in [Process -> Labels]
    /\ req \in [Process -> Request \cup {NoRequest}]
    /\ todo \in [Process -> SUBSET File]
    /\ snap \in [Process -> Folder]
    /\ mine \in [Process -> File \cup {NoFile}]
    /\ saved \in [Process -> SUBSET Peer]
    /\ reply \in [Process -> Replies]

\* A fresh project: no peer, nothing installed, the interface down.
Init ==
    /\ ledger = NoPartials
    /\ lock = NoProcess
    /\ conf = {} /\ live = {} /\ syncFile = {}
    /\ enabled = FALSE /\ unit = FALSE /\ up = FALSE
    /\ pc = [p \in Process |-> "idle"]
    /\ req = [p \in Process |-> NoRequest]
    /\ todo = [p \in Process |-> {}]
    /\ snap = [p \in Process |-> NoPartials]
    /\ mine = [p \in Process |-> NoFile]
    /\ saved = [p \in Process |-> {}]
    /\ reply = [p \in Process |-> "none"]
-----------------------------------------------------------------------------
Goto(p, label) == pc' = [pc EXCEPT ![p] = label]

\* The loaded Network is dropped.
Unload(p) ==
    /\ todo' = [todo EXCEPT ![p] = {}]
    /\ snap' = [snap EXCEPT ![p] = NoPartials]

\* Leave with an outcome; a change of the ledger in flight stands.
Finish(p, outcome) ==
    /\ Goto(p, "exit")
    /\ reply' = [reply EXCEPT ![p] = outcome]
    /\ Unload(p)
    /\ mine' = [mine EXCEPT ![p] = NoFile]
    /\ saved' = [saved EXCEPT ![p] = {}]

\* Mutant: the change in flight stands when the apply fails.
FailKeepsChange(p, outcome) == Finish(p, outcome)

\* Leave with an error: a change of the ledger in flight is rolled back first.
Fail(p, outcome) ==
    /\ Goto(p, IF mine[p] = NoFile THEN "exit" ELSE "rollback")
    /\ reply' = [reply EXCEPT ![p] = outcome]
    /\ Unload(p)
    /\ UNCHANGED undo

\* What exit 0 reports for each command that reaches the end of its work.
Success(p) ==
    CASE req[p].op = "add" -> "added"
      [] req[p].op = "remove" -> "removed"
      [] req[p].op = "apply" -> "applied"
      [] req[p].op = "build" -> "built"
      [] OTHER -> "shown"

\* Mutant: peer add and remove load before they lock, as apply does.
InvokeUnlocked(p) ==
    /\ pc[p] = "idle"
    /\ \E r \in Request :
        /\ r.op \in Ops
        /\ req' = [req EXCEPT ![p] = r]
        /\ Goto(p, "list")
    /\ UNCHANGED <<disk, lock, host, load, undo, reply>>

Invoke(p) ==
    /\ pc[p] = "idle"
    /\ \E r \in Request :
        /\ r.op \in Ops
        /\ req' = [req EXCEPT ![p] = r]
        /\ Goto(p, IF r.op \in LedgerOps THEN "acquire" ELSE "list")
    /\ UNCHANGED <<disk, lock, host, load, undo, reply>>

\* main returns: the reply is out and the destructor releases the lock.
Exit(p) ==
    /\ pc[p] = "exit"
    /\ Goto(p, "idle")
    /\ req' = [req EXCEPT ![p] = NoRequest]
    /\ reply' = [reply EXCEPT ![p] = "none"]
    /\ lock' = IF lock = p THEN NoProcess ELSE lock
    /\ UNCHANGED <<disk, host, load, undo>>
-----------------------------------------------------------------------------
(* FileLock::acquire.                                                       *)

\* Mutant: the lock is shared (LOCK_SH).
AcquireShared(p) ==
    /\ pc[p] = "acquire"
    /\ lock' = p
    /\ Goto(p, IF req[p].op \in LedgerOps THEN "list" ELSE "install")
    /\ UNCHANGED <<disk, host, req, load, undo, reply>>

Acquire(p) ==
    /\ pc[p] = "acquire"
    /\ lock = NoProcess
    /\ lock' = p
    /\ Goto(p, IF req[p].op \in LedgerOps THEN "list" ELSE "install")
    /\ UNCHANGED <<disk, host, req, load, undo, reply>>

\* Mutant: a blocking flock.
LockTimeoutNever(p) == FALSE

\* The other process keeps the lock for 30 s (each of its subprocesses may take
\* 120 s), or the lock file cannot be opened.
LockTimeout(p) ==
    /\ pc[p] = "acquire"
    /\ lock # NoProcess \/ "fail" \in Faults
    /\ Fail(p, "env")
    /\ UNCHANGED <<disk, lock, host, req>>
-----------------------------------------------------------------------------
(* Network::load.  VarTable::load lists the folder and reads every file     *)
(* (for stray #= lines); load_partials lists it again and reads every file  *)
(* once more.  A file that has vanished since it was listed fails the load. *)

\* exit 1 where the command loads the network itself; the error code is io,
\* hence exit 3, where build_check_apply reloads it.
LoadFails(p) == Fail(p, IF mine[p] = NoFile THEN "config" ELSE "env")

ListForVars(p) ==
    /\ pc[p] = "list"
    /\ todo' = [todo EXCEPT ![p] = Present(ledger)]
    /\ Goto(p, "vars")
    /\ UNCHANGED <<disk, lock, host, req, snap, undo, reply>>

\* The first pass ends and the second one lists the folder.
LoadVars(p) ==
    /\ pc[p] = "vars"
    /\ todo[p] \subseteq Present(ledger)
    /\ todo' = [todo EXCEPT ![p] = Present(ledger)]
    /\ snap' = [snap EXCEPT ![p] = NoPartials]
    /\ Goto(p, "read")
    /\ UNCHANGED <<disk, lock, host, req, undo, reply>>

VarsVanished(p) ==
    /\ pc[p] = "vars"
    /\ ~ (todo[p] \subseteq Present(ledger))
    /\ LoadFails(p)
    /\ UNCHANGED <<disk, lock, host, req>>

ReadPartial(p) ==
    /\ pc[p] = "read"
    /\ \E f \in todo[p] :
        /\ f \in Present(ledger)
        /\ snap' = [snap EXCEPT ![p][f] = ledger[f]]
        /\ todo' = [todo EXCEPT ![p] = @ \ {f}]
    /\ UNCHANGED <<disk, lock, host, pc, req, undo, reply>>

PartialVanished(p) ==
    /\ pc[p] = "read"
    /\ ~ (todo[p] \subseteq Present(ledger))
    /\ LoadFails(p)
    /\ UNCHANGED <<disk, lock, host, req>>

Loaded(p) == pc[p] = "read" /\ todo[p] = {}
-----------------------------------------------------------------------------
(* peer add and peer remove, up to the change of the ledger.  The first     *)
(* load is the one the decision is taken on.                                *)

Deciding(p, op) == Loaded(p) /\ req[p].op = op /\ mine[p] = NoFile
\* Mutant: the key is not looked for.
KnownNever(p) == FALSE

Known(p) == req[p].key \in KeysOf(PeersOf(snap[p]))

\* The key keeps its address; nothing is authored and nothing applied.
AddPresent(p) ==
    /\ Deciding(p, "add")
    /\ Known(p)
    /\ Finish(p, "present")
    /\ UNCHANGED <<disk, lock, host, req>>

AddFull(p) ==
    /\ Deciding(p, "add")
    /\ ~ Known(p)
    /\ Free(PeersOf(snap[p])) = {}
    /\ Finish(p, "config")
    /\ UNCHANGED <<disk, lock, host, req>>

\* next_peer_filename names a file that is not there; the write of the
\* partial is atomic.
Author(p) ==
    /\ Deciding(p, "add")
    /\ ~ Known(p)
    /\ Free(PeersOf(snap[p])) # {}
    /\ \E f \in File \ Present(ledger) :
        /\ ledger' = [ledger EXCEPT ![f] =
             {[key |-> req[p].key, addr |-> LowestFree(PeersOf(snap[p]))]}]
        /\ mine' = [mine EXCEPT ![p] = f]
    /\ Goto(p, "list")
    /\ UNCHANGED <<conf, syncFile, lock, host, req, load, saved, reply>>

AuthorFails(p) ==
    /\ "fail" \in Faults
    /\ Deciding(p, "add")
    /\ ~ Known(p)
    /\ Free(PeersOf(snap[p])) # {}
    /\ Fail(p, "env")
    /\ UNCHANGED <<disk, lock, host, req>>

RemoveAbsent(p) ==
    /\ Deciding(p, "remove")
    /\ ~ Known(p)
    /\ Finish(p, "absent")
    /\ UNCHANGED <<disk, lock, host, req>>

\* The file's bytes are kept and the whole file is deleted, with every peer
\* it holds.
Delete(p) ==
    /\ Deciding(p, "remove")
    /\ \E f \in Present(ledger) :
        /\ req[p].key \in KeysOf(snap[p][f])
        /\ mine' = [mine EXCEPT ![p] = f]
        /\ saved' = [saved EXCEPT ![p] = ledger[f]]
        /\ ledger' = [ledger EXCEPT ![f] = {}]
    /\ Goto(p, "list")
    /\ UNCHANGED <<conf, syncFile, lock, host, req, load, reply>>

\* The file cannot be removed, or it has vanished since it was read.
DeleteFails(p) ==
    /\ Deciding(p, "remove")
    /\ \E f \in File :
        /\ req[p].key \in KeysOf(snap[p][f])
        /\ "fail" \in Faults \/ f \notin Present(ledger)
    /\ Fail(p, "env")
    /\ UNCHANGED <<disk, lock, host, req>>
-----------------------------------------------------------------------------
(* The spine: check_network, compile_network, execute_apply.                *)

Compiling(p) ==
    Loaded(p) /\ (mine[p] # NoFile \/ req[p].op \in {"apply", "build"})

CheckFails(p) ==
    /\ Compiling(p) \/ (Loaded(p) /\ req[p].op = "check")
    /\ ~ Sound(snap[p])
    /\ Fail(p, "config")
    /\ UNCHANGED <<disk, lock, host, req>>

\* check, list and network list print what they loaded and change nothing.
Show(p) ==
    /\ Loaded(p)
    /\ req[p].op \in ReadOnlyOps
    /\ req[p].op = "check" => Sound(snap[p])
    /\ Finish(p, Success(p))
    /\ UNCHANGED <<disk, lock, host, req>>

\* Mutant: the diagnostics of check_network are not looked at.
CompileUnchecked(p) ==
    /\ Compiling(p)
    /\ Goto(p, IF req[p].op = "apply" THEN "acquire" ELSE "install")
    /\ UNCHANGED <<disk, lock, host, req, load, undo, reply>>

\* apply takes the lock only now, with the conf already compiled.
Compile(p) ==
    /\ Compiling(p)
    /\ Sound(snap[p])
    /\ Goto(p, IF req[p].op = "apply" THEN "acquire" ELSE "install")
    /\ UNCHANGED <<disk, lock, host, req, load, undo, reply>>

\* server.key cannot be read.
CompileFails(p) ==
    /\ "fail" \in Faults
    /\ Compiling(p)
    /\ Sound(snap[p])
    /\ Fail(p, "env")
    /\ UNCHANGED <<disk, lock, host, req>>

\* Mutant: only the partial just authored is compiled.
InstallMine(p) ==
    /\ pc[p] = "install"
    /\ conf' = snap[p][mine[p]]
    /\ Goto(p, "enable")
    /\ Unload(p)
    /\ UNCHANGED <<ledger, syncFile, lock, host, req, undo, reply>>

\* The atomic write of <network>.conf; build ends here.
Install(p) ==
    /\ pc[p] = "install"
    /\ conf' = PeersOf(snap[p])
    /\ IF req[p].op = "build"
       THEN Finish(p, Success(p))
       ELSE Goto(p, "enable") /\ Unload(p) /\ UNCHANGED <<undo, reply>>
    /\ UNCHANGED <<ledger, syncFile, lock, host, req>>

InstallFails(p) ==
    /\ "fail" \in Faults
    /\ pc[p] = "install"
    /\ Fail(p, "env")
    /\ UNCHANGED <<disk, lock, host, req>>

\* Mutant: the unit is not enabled.
EnableSkipped(p) ==
    /\ pc[p] = "enable"
    /\ Goto(p, "probe")
    /\ UNCHANGED <<disk, lock, host, req, load, undo, reply>>

Enable(p) ==
    /\ pc[p] = "enable"
    /\ enabled' = TRUE
    /\ Goto(p, "probe")
    /\ UNCHANGED <<disk, lock, unit, up, live, req, load, undo, reply>>

EnableFails(p) ==
    /\ "fail" \in Faults
    /\ pc[p] = "enable"
    /\ enabled' \in {enabled, TRUE}
    /\ Fail(p, "env")
    /\ UNCHANGED <<disk, lock, unit, up, live, req>>

\* `wg show`: only its exit code counts.
Probe(p) ==
    /\ pc[p] = "probe"
    /\ \/ Goto(p, IF up THEN "strip" ELSE "start")
       \/ "blind" \in Faults /\ Goto(p, "start")
    /\ UNCHANGED <<disk, lock, host, req, load, undo, reply>>

\* `wg show` cannot be run.
ProbeFails(p) ==
    /\ "fail" \in Faults
    /\ pc[p] = "probe"
    /\ Fail(p, "env")
    /\ UNCHANGED <<disk, lock, host, req>>

\* `wg-quick strip` reads the conf installed now; its output goes to .sync.
Strip(p) ==
    /\ pc[p] = "strip"
    /\ syncFile' = {conf}
    /\ Goto(p, "sync")
    /\ UNCHANGED <<ledger, conf, lock, host, req, load, undo, reply>>

StripFails(p) ==
    /\ "fail" \in Faults
    /\ pc[p] = "strip"
    /\ Fail(p, "env")
    /\ UNCHANGED <<disk, lock, host, req>>

SyncConf(p) ==
    /\ pc[p] = "sync"
    /\ up
    /\ live' \in syncFile
    /\ Goto(p, "unsync")
    /\ UNCHANGED <<disk, lock, enabled, unit, up, req, load, undo, reply>>

\* Mutant: the exit code of `wg syncconf` is not looked at.
SyncConfIgnored(p) ==
    /\ pc[p] = "sync"
    /\ "fail" \in Faults \/ ~ up
    /\ live' \in {live} \cup (IF up THEN syncFile ELSE {})
    /\ Goto(p, "unsync")
    /\ UNCHANGED <<disk, lock, enabled, unit, up, req, load, undo, reply>>

\* The interface is gone, or `wg syncconf` fails after it did its work or not.
SyncConfFails(p) ==
    /\ pc[p] = "sync"
    /\ "fail" \in Faults \/ ~ up
    /\ live' \in {live} \cup (IF up THEN syncFile ELSE {})
    /\ reply' = [reply EXCEPT ![p] = "env"]
    /\ Goto(p, "unsync")
    /\ UNCHANGED <<disk, lock, enabled, unit, up, req, load, undo>>

\* .sync is removed whatever syncconf said, then its outcome is looked at.
RemoveSync(p) ==
    /\ pc[p] = "unsync"
    /\ syncFile' \in {{}} \cup (IF "cleanup" \in Faults THEN {syncFile} ELSE {})
    /\ IF reply[p] = "env" THEN Fail(p, "env") ELSE Finish(p, Success(p))
    /\ UNCHANGED <<ledger, conf, lock, host, req>>

\* `systemctl start`: nothing to do for an active unit, otherwise
\* `wg-quick up` creates the interface from the conf.
Start(p) ==
    /\ pc[p] = "start"
    /\ unit \/ ~ up
    /\ unit' = TRUE
    /\ up' = (up \/ ~ unit)
    /\ live' = IF unit THEN live ELSE conf
    /\ Finish(p, Success(p))
    /\ UNCHANGED <<disk, lock, enabled, req>>

\* `wg-quick up` refuses an interface that exists; a failed start may have
\* taken place all the same (the client is killed after 120 s, the job is not).
StartFails(p) ==
    /\ pc[p] = "start"
    /\ "fail" \in Faults \/ (up /\ ~ unit)
    /\ \/ UNCHANGED <<unit, up, live>>
       \/ ~ unit /\ ~ up /\ unit' = TRUE /\ up' = TRUE /\ live' = conf
    /\ Fail(p, "env")
    /\ UNCHANGED <<disk, lock, enabled, req>>

\* peer add deletes the partial it authored, peer remove writes back the one
\* it deleted.  Neither restores the conf.
Rollback(p) ==
    /\ pc[p] = "rollback"
    /\ ledger' = [ledger EXCEPT ![mine[p]] = saved[p]]
    /\ Finish(p, reply[p])
    /\ UNCHANGED <<conf, syncFile, lock, host, req>>

RollbackFails(p) ==
    /\ "cleanup" \in Faults
    /\ pc[p] = "rollback"
    /\ Finish(p, reply[p])
    /\ UNCHANGED <<disk, lock, host, req>>
-----------------------------------------------------------------------------
(* The environment.                                                         *)

\* The kernel closes a dead process's files: flock is released, the rest of
\* what it did stays.
Forget(dead) ==
    /\ pc' = [p \in Process |-> IF p \in dead THEN "idle" ELSE pc[p]]
    /\ req' = [p \in Process |-> IF p \in dead THEN NoRequest ELSE req[p]]
    /\ todo' = [p \in Process |-> IF p \in dead THEN {} ELSE todo[p]]
    /\ snap' = [p \in Process |-> IF p \in dead THEN NoPartials ELSE snap[p]]
    /\ mine' = [p \in Process |-> IF p \in dead THEN NoFile ELSE mine[p]]
    /\ saved' = [p \in Process |-> IF p \in dead THEN {} ELSE saved[p]]
    /\ reply' = [p \in Process |-> IF p \in dead THEN "none" ELSE reply[p]]
    /\ lock' = IF lock \in dead THEN NoProcess ELSE lock

Crash(p) ==
    /\ "crash" \in Faults
    /\ pc[p] # "idle"
    /\ Forget({p})
    /\ UNCHANGED <<disk, host>>

\* systemd starts an enabled unit from the conf it finds.
Reboot ==
    /\ "reboot" \in Faults
    /\ Forget(Process)
    /\ unit' = enabled /\ up' = enabled
    /\ live' = IF enabled THEN conf ELSE {}
    /\ UNCHANGED <<disk, enabled>>

InterfaceDown ==
    /\ up
    /\ \/ "stop" \in Faults /\ unit' = FALSE
       \/ "ifdown" \in Faults /\ unit' = unit
    /\ up' = FALSE
    /\ live' = {}
    /\ UNCHANGED <<disk, lock, enabled, pc, req, load, undo, reply>>

\* An administrator rewrites, adds or deletes a partial, whatever runs.
Edit ==
    /\ "edit" \in Faults
    /\ \E f \in EditFile, peers \in EditTexts :
        ledger' = [ledger EXCEPT ![f] = peers]
    /\ UNCHANGED <<conf, syncFile, lock, host, pc, req, load, undo, reply>>
-----------------------------------------------------------------------------
LoadStep(p) ==
    \/ ListForVars(p) \/ LoadVars(p) \/ VarsVanished(p)
    \/ ReadPartial(p) \/ PartialVanished(p)
LedgerStep(p) ==
    \/ AddPresent(p) \/ AddFull(p) \/ Author(p) \/ AuthorFails(p)
    \/ RemoveAbsent(p) \/ Delete(p) \/ DeleteFails(p)
    \/ Rollback(p) \/ RollbackFails(p)
SpineStep(p) ==
    \/ CheckFails(p) \/ Show(p) \/ Compile(p) \/ CompileFails(p)
    \/ Install(p) \/ InstallFails(p)
ApplyStep(p) ==
    \/ Enable(p) \/ EnableFails(p) \/ Probe(p) \/ ProbeFails(p)
    \/ Strip(p) \/ StripFails(p) \/ SyncConf(p) \/ SyncConfFails(p)
    \/ RemoveSync(p) \/ Start(p) \/ StartFails(p)

\* What a process does on its own once a command runs.
Step(p) ==
    \/ Acquire(p) \/ LockTimeout(p) \/ Exit(p)
    \/ LoadStep(p) \/ LedgerStep(p) \/ SpineStep(p) \/ ApplyStep(p)

Environment == Reboot \/ InterfaceDown \/ Edit
Next == (\E p \in Process : Invoke(p) \/ Step(p) \/ Crash(p)) \/ Environment

Spec == Init /\ [][Next]_vars

\* The scheduler runs every process that can take a step.
FairSpec == Spec /\ \A p \in Process : WF_vars(Step(p))
=============================================================================
