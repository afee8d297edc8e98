# A TLA+ model of wirebard

wirebard keeps the sources of WireGuard networks as files, compiles them into
`/etc/wireguard/<network>.conf` and brings the running interface in line with
them. This directory specifies what its processes do when they run side by
side, fail, die or meet a reboot, from the command line down to the system calls
of the file and subprocess code, checks it with TLC on small instances and proves
the central invariants with TLAPS for all of them.

Paths below are relative to the repository's root (`src/` is its C++ source).

## 1. Inventory

| Component | State it keeps | Operations | What makes it correct |
|---|---|---|---|
| `peer add`, `peer remove` (`src/commands/peer.cpp`) | the partials of a network: the *ledger* of keys and addresses | lock, load, decide, author or delete a partial, load again, check, compile, apply, roll back | atomic and all-or-nothing towards the ledger; one address per key; exit 0 means applied and persisted |
| apply engine (`src/apply.cpp`) | installed conf, `.sync`, `systemctl enable`, the interface | install, enable, probe, then strip / syncconf / remove `.sync`, or start | conf, unit and interface agree; no other peer is interrupted; persisted before live |
| `apply`, `build` (`src/commands/`) | none of their own | load, check, compile, then lock + apply engine, or install alone | never install what `check` would refuse |
| `check`, `list`, `network list` | none | load without the lock, print | change nothing |
| network loading (`project.cpp`, `vars.cpp`, `partial.cpp`, `directives.cpp`) | none | list the folder and read every file, twice | a set of files that existed, or an error |
| lock (`FileLock`, `fs.cpp`) | the flock on `<network>/.lock` | acquire with a 30 s limit, release on exit or death | mutual exclusion; nobody waits for ever |
| allocator, subnets (`alloc.cpp`, `net.cpp`) | none | lowest free host | in the subnet, free, deterministic |
| check (`check.cpp`) | none | duplicates, range, server collision | accepts exactly the sound networks |
| peer scan, naming (`peer.cpp`) | none | `[Peer]` blocks of the partials; next `NN-name.conf` | every peer is seen; a new name is unused |
| variables (`vars.cpp`) | none | `#=` lines, env overlay, `${name}` | defined once, no undefined name survives |
| compiler (`render.cpp`) | none | concatenate, inject `PrivateKey` | the key exactly once |
| atomic writes (`fs.cpp`) | a temp file beside the target | write, chmod, fsync, rename | old contents or new, never half |
| subprocess runner (`subprocess.cpp`) | pipes, a child | fork/exec, poll until EOF or 120 s, kill, reap | bounded time, exact outcome |
| command line (`cli.cpp`, `main.cpp`, `project.cpp`, the loops in `src/commands/`) | none | parse, dispatch, find the project, select networks, one turn for each | tokens mean one thing in any order; a failure costs no other network its turn; the exit code tells it |
| contract, JSON, errors | none | format | pure |

The components interact through files (partials, conf, `.sync`, `.lock`),
through the lock, and through subprocesses (`systemctl`, `wg`, `wg-quick`).
Nothing is shared in memory: every concurrent behaviour is between processes.
The hard behaviours are therefore commands interleaving at every file and
subprocess, commands that do not take the lock beside commands that do, a
failure or a death between any two steps, reboots, and the lock's time limit.
`PROJECT.json` lists each hazard at its line with the properties that cover it.

## 2. Modules

    AddressPlan              the ledger as data: hosts, allocation, soundness
      Provisioning           the processes, the lock, the host     (detailed)
        ProvisioningProperties   what is asked of it
          MCProvisioning         constants for TLC
          ProvisioningProofs     theorems: types, what is installed, the ledger;
                                 Provisioning implements Registry; the host
                                 against the ledger
      Registry               what add and remove promise           (abstract)

    Allocation               masks and the walk of allocate_address
    Placeholders             scan_placeholders, character by character
      Sources                one peer add or remove on the folder's text
        MCSources            constants for TLC
        SourcesProofs        lemmas: FoldLeft and FlattenSeq; theorems: types, the
                             walk, the rollback, the variables, the key
          EditProofs         theorems: the peers after an add or a remove
            ConfProofs       theorem: the peers that WireGuard reads
          TextProofs         theorem: what a text becomes

    AtomicFile               what fs.h promises of a file           (abstract)
      Files                  write_atomic, read_file, FileLock      (detailed)
        MCFiles              constants for TLC
        FilesProofs          theorems: Files implements AtomicFile, the lock

    Subprocess               run_command, the command, a helper
      MCSubprocess           constants for TLC
      SubprocessProofs       theorems: types, complete, unblocked, reaped, in time

    CommandLine              one run of the program, argv to exit code
      MCCommandLine          constants for TLC
      CommandLineProofs      theorems: the parser, turns, exit codes, what is touched

The first group says what several processes do to one network. It takes from the
code below it that the address is the lowest free one and what a valid folder is
(`AddressPlan`), that a subprocess ends and has succeeded or failed, that a
file is replaced as a whole and that the lock excludes and waiting for it ends.
The next three groups check those things against that code. The last one is the
code above: it takes from the first group that a load, a check, an installation
or a reload of one network succeeds or fails.

`ProvisioningProperties` instantiates `Registry` with a refinement mapping and
checks `R!Spec` of `Provisioning`.

### AddressPlan

A network folder is a function from file names to the set of `[Peer]` blocks
the file holds; an absent file holds none. A peer is a key and an address; an
address is a number up to `MaxAddress` (2^32 - 1 in the program). `Hosts` is
`first_host..last_host`, `LowestFree` what `allocate_address` returns for a new
key, `Sound` what `check_network` accepts. `00-main.conf` holds the variables
and no peers; the variables are the constants `Network`, `Broadcast`, `Server`.

### Provisioning

One action per step of a command that other processes can see: each system
call or subprocess that reads or changes shared state. `pc` names where a
process is:

| `pc` | code |
|---|---|
| `acquire` | `FileLock::acquire` (`peer.cpp:146`, `:247`, `commands/apply.cpp:62`) |
| `list`, `vars` | `VarTable::load`: list the folder, read each file |
| `read` | `load_partials`: list again, read file by file |
| (at the end of `read`) | decide, author or delete (`peer.cpp:160-215`, `:258-303`); or check and compile (`build_check_apply`, `cmd_apply`, `cmd_build`) |
| `install` ... `start` | `execute_apply`, `apply.cpp:90-134`, step by step |
| `rollback` | `peer.cpp:219`, `:306` |
| `exit` | the reply is decided; leaving `exit` releases the lock |

`mine` and `saved` are the locals of the rollback (`fpath`, `saved`), `snap` and
`todo` the loaded `Network` and the files still to be read, `reply` the exit
code with what it reports. `peer add` and `peer remove` take the lock first;
`apply` takes it after it has compiled; `build` and the read-only commands
never do. `Fail` is every error path: a rollback if a change of the ledger is
in flight, then exit. `Finish` is every other end.

The host is external and modelled from how the code uses it: `enabled` and
`unit` are systemd's view of `wg-quick@<network>`, `up` and `live` the kernel's.
`systemctl start` does nothing for an active unit; `wg-quick up` refuses an
interface that exists; `wg-quick strip` reads the conf installed when it runs.

Faults are a constant, so that a run chooses them: failing writes and
subprocesses (with the effect done or not), ignored clean-up errors, crashes,
reboots, a stopped unit, an interface taken down behind systemd's back, a
`wg show` that fails for another reason, hand edits. They are described in the
module.

Abstractions, and why they are sound for what is asked:

- Names: `next_peer_filename` chooses *some* unused name. Order does not matter
  to the properties.
- Listing and writing a new partial (`peer.cpp:210-214`) is one action, and so
  are reading and deleting one (`:295-299`): both happen under the lock, and no
  other command writes partials. A hand edit exactly between the two calls is
  not modelled.
- The reads of the variables pass only tell whether a file has vanished; the
  contents read are those of the second pass.
- Every listed file that still exists can be read, and its syntax is right. A file
  that cannot be opened leaves by the same exit as one that has vanished; that a
  read which fails later goes unnoticed (`AtomicFile and Files`, below) is left out.
- Writes are atomic (`Files` shows it) and survive a reboot (they need not, see
  there: the directory is never synced).
- A process keeps nothing after `Finish` or `Fail` but its reply, and after
  `Exit` nothing at all, so runs of any length stay within finitely many states.

### Registry

The contract of `peer add` and `peer remove` towards the ledger
(`docs/design/peer-provisioning.md`, sections 3 and 5): one atomic step decides
the reply and changes the members, an environment error changes nothing, and a
process that dies has been served or not. The refinement mapping takes as
members the peers of `Settled`: the ledger with a change that is still in
flight, and would be rolled back, undone.

### Allocation, Placeholders and Sources

`Sources` is one `peer add` or `peer remove`, one action per function, on folders
that a hand has written: `VarTable::load`, `load_partials`, the decision (which
scans for peers), the walk of `allocate_address` host by host or the search for
the file of the key (`Find`), the write or deletion of one partial, load again,
`check_network`, `compile`, and on every error path `Rollback`. It runs alone:
the lock keeps other commands that write away, and what unlocked readers see is
`Provisioning`'s matter. `before` is the only history variable: the folder as the
command found it. `hasKey` says whether `server.key` holds more than white space
(`apply.cpp:61` trims it), which is all that `compile` asks of it.

A text is a sequence of lines; a line is what the code takes it for: a `#=`
directive, a label comment, a header, `PublicKey`, `AllowedIPs`, anything else.
A value may be a placeholder; a line of other text is a sequence of characters,
which `Placeholders` cuts into literals, placeholders and escapes just as
`scan_placeholders` does, while `Stands` says position by position what `vars.h`
promises. A CIDR is an address and the *size* of its subnet, 2^(32-prefix), which
turns masks into remainders; sums wrap at `Span`, 2^32 in the program. A file's
name is its order prefix, or `Unnumbered`, and a folder has one file of each;
`Precedes` is the bytewise order of such names, in which `100-` comes before
`20-`. Prefixes have two or three digits: `LastPrefix` is 999, and what a folder
holds at the start (`OldName`) leaves room for one name more. The folder is assumed
to have its variables in `00-main.conf`, as the documentation asks: with a main
partial of another name a new partial may sort before it.

The name of a new peer reaches its partial as it came from the command line
(`peer.cpp:169`): nothing looks at it in between. So `request.label` is not a name
but the lines that `# wirebard: name=` and the name make: one `name` line, and
whatever lines a name with line ends has after it, a second `[Peer]`, fields, a `#=`
line, another label. What is read back of a label is `ReadName`: its placeholders
have been replaced, and `Bare` has taken off the blanks at its ends and the first `$`
of an escape. The properties say of which labels they speak: `RoundTrip` of all, but
only a label of one line makes the new peer the only one of its file; `FailsForCause` of
those of one line without a placeholder (`PlainLabel`), as any other may itself be
the reason why the add is refused.

What WireGuard reads is stated independently of the scanner (`Block`, `Peers`):
a block is all lines of the whole conf up to the next header.

Three things the model shows the code to do, which no document forbids and the
properties therefore allow:

- `scan_placeholders` (`vars.cpp:198`) emits the text before a `$${` that has no
  `}` after it twice (`SubstitutedAsDocumented` leaves such texts out). An
  escape that is closed on a later line only is not modelled.
- A `server.key` of white space only makes a conf without `PrivateKey`, which is
  installed with exit 0 (`render.cpp:62`; `render.h:21` and a test say so of
  `compile`). `KeyOnce` asks for one key if there is one, and for none if not.
- A key that stands in two files is removed from the first only; the answer is
  `"removed": true` all the same (`RemoveExact`). And the whole file goes: peers
  that a hand has put beside it go with it.

### AtomicFile and Files

`AtomicFile` is what the comments of `fs.h` promise: a write takes effect at one
moment or is refused, a read returns what the file held at one moment between
its start and its end, and after a power cut the file holds something it has
held. One thing is added that `fs.h` does not promise but the code does: `Shorten`, a
reader that gets a piece of the file. `Files` is `write_atomic`, `read_file` and `FileLock` system call by system
call: `update` takes the lock before it writes (`peer add`, `peer remove`,
`apply`), `build` writes and `load` reads without it.

The file system is external: names point to inodes (`dest`, and `stored` on the
disk), descriptors do too, `rename` moves the name, an inode lives while anything
points to it. What was not fsynced may be lost in any part by a power cut; the
directory is written back at any moment by the kernel and by nobody else, because
the code does not sync it. So a write that was acknowledged may be gone after a
power cut, which `AtomicFile` allows (`stable` may lag behind `current`). The
refinement mapping reads `current`, `stable` and what a reader has in hand
through the inodes.

A failing read (the fault `eio`, a device that fails under an open file) is where
the contract had to be weakened. `read_file` reads with `buf << in.rdbuf()`; an error
below it is an exception that marks `buf`, while line 84 asks `in.bad()`. So the error
return behind it is never taken and what has been read so far is returned as the
whole file: `Read` answers `Part`. `AtomicFile` would let such a read be refused at any time
(`Refuse`), and has to allow a piece as well, but only where a device may fail
(`Readable` is false): a reader that meets no failure still gets what the file held
at one moment, whatever else goes wrong, and the file itself is never a piece. What
a command makes of a piece is not modelled: in the other modules a failing read
is an error.

The faults `nosync` (the unchecked `open` or `fsync` of `fs.cpp:135-144` fails)
and `cleanup` (removing the temp file fails) break `AtomicSpec` and
`NoDroppings`: the theorems name them as assumptions. The random suffix of a temp
file is taken to be new. A process that dies leaves its temp file behind, under
a name that no command lists. The lock's time limit is counted in sleeps of 50 ms.

### CommandLine

One run of the program: `pc` is `args` while `parse_args` goes token by token,
`start` and `select` in `project_of` and `select_networks`, then a label for each
stage of the loops of `cmd_build`, `cmd_check`, `cmd_apply`, `cmd_list` and
`cmd_network`, `peer`, `peerlock` and `serve` in the peer commands, and `exit`. A
network's folder is in one of seven states and changes at any moment (`Edit`);
`loaded` is the `Network` in memory, a copy of what was there at the load.
`conf`, `live`, `ledger` and `locks` record what the run has done to which
network, and `said` what it has printed of each.

As coded, and visible in the model: `worst` is overwritten, so exit 1 may hide an
exit 3; `list` exits with 0 whatever failed, `network list` ends at the first
network that does not load; a folder that vanishes between listing and load is
an error, one that is empty is not a network; a folder that cannot be read makes
`directory_iterator` throw, which nobody catches (`abort`); `build --dry-run`
writes (the flag is documented for apply and peer); a dry run of those takes the
lock and creates `.lock`; only the first positional counts.

### Subprocess

One call of `run_command` after another: `pc` is where it is, `watched` the
streams not yet at EOF, `ready` those of the last `poll` still to be read,
`timedOut` and `result` its locals. `pipe` and `writers` are the kernel's: what
each pipe holds and who has its write end. The command and one helper that
inherits its streams are the environment and may write, close a stream, end or
do nothing for ever.

- Time is counted in ticks up to `Deadline`. A tick passes at any moment,
  except that once every writer has left, draining two pipes takes less than a
  tick: `silent` records that this happened in time.
- `poll` with nothing to report returns when the time is over or a signal
  interrupts it. A `read` of a stream that `poll` reported does not fail.
- `ReapFails` is `waitpid` under an inherited `SIGCHLD` that is ignored.
- The bytes of the output and the exit code are left out.

## 3. Runs

The runs of `Provisioning` use two processes. Two are enough for every hazard
listed: each is between one command and one other (a third could only wait for
the lock), while a process may run any number of commands one after another.

| Run | What runs, what fails | What it shows |
|---|---|---|
| `provision` | add, remove; 3 keys, 2 free hosts; nothing fails | atomic towards the ledger, everything agrees when the lock is free, no other peer interrupted, every command ends |
| `faults` | add, remove, apply, check; writes and subprocesses fail, crashes, reboots | ledger always sound, all-or-nothing, exit 0 means applied and persisted, persisted before live, whatever the unlocked loads see |
| `edits` | add, build; hand edits, failed rollbacks, interface stopped or taken down, blind probe | nothing unsound is ever installed or live |
| `sources` | one add or remove; some 10 000 folders, two environments, names with blanks, placeholders or lines of their own, a blank `server.key`, every text of six characters | what is written is read back, the address is right, a remove takes one file's peers, a command that fails leaves the folder as it was, the conf means to WireGuard what was checked, with one private key, or none if there is none |
| `files` | two processes that write and read one file; failing calls and devices, deaths, power cuts | the file is replaced as a whole or not at all, with its permissions, a reader gets all of it unless its own read fails, no temp file is left, the lock excludes, waiting for it ends |
| `commands` | calls of `run_command`; writers, helpers, signals, failing system calls | every call returns, no read blocks, answers are complete, nothing is left behind, output that ended in time is no time-out |
| `invocations` | 4 700 command lines, two networks whose folders change at any time, every step failing | the parser understands any order, each network gets its turn, exit 0 means all were done, only what was named is touched |
| `crash_then_retry` | add; crashes | *violation*: "already applied on a previous add" |
| `stale_apply` | add, apply; nothing fails | *violation*: the source does diverge from the live interface |
| `failed_add` | add; failures | *violation*: the previous conf is not restored |
| `header` | one add; a remark after `[Interface]` | *violation*: no private key is injected |
| `daemon` | a command that closes both streams and runs on | *violation*: the call does not return |

Bounds: `MaxAddress` 4 with `Network` 0, `Broadcast` 4, `Server` 2 gives hosts
1 and 3 free: there is a gap below the server's address, the subnet fills up,
and an address can be freed and given out again. Three keys in `provision`
make the subnet overflow; `faults` and `edits` have one free host and two keys.
Two file names bound the partials; in every run but `edits` the free hosts run
out no later than the names. `edits` edits one of the two files, to every combination that
breaks one rule of `check_network` (a duplicate key, a duplicate address, a
peer at the broadcast address) or none. Processes, keys and files that are not
edited by hand are interchangeable, hence the symmetry set, used only where no
liveness is checked.

`faults` puts everything that can fail beside the commands that do not lock; its
price is the small subnet, whose overflow and reuse `provision` shows.

`sources` has `Span` 8 and the subnets 4..7 (up against the top of the range),
0..7 (a /0) and 6..7 (no hosts). One partial holds every sequence of two or three
lines out of eight kinds; others have two peers in a file, an open block before
another file, a name without a number, names with two and three digits (90 and
100), two files with one address, a key in two
files and in the main one, and a file whose removal leaves a folder that does not
load. The names at the command line are a plain one, one with blanks at its ends, one
of blanks only, a placeholder, and one with each kind of line after it or with a whole
`[Peer]` block, half a block, or a block and a second label; these meet folders of up to
three partials with room for more peers, where the second one finds its key or its
address taken, or not. Texts of up to six characters are long enough for an escape and half of a
placeholder after it. `files` has two writers' worth of contents and
modes, a time limit of no sleep or one, and four inodes: two for the name and the
disk, one for each process. `invocations` has every command line of up to four
tokens of eight kinds (two tokens of the same kind behave alike), because each
rule of the parser is about a token, the one before it and whether a command has
been seen; two networks give a loop a first and a last turn with any outcome.
`commands` has pipes of three units of which a
read takes two, so that a pipe fills up, is emptied by two reads and leaves
something behind after one; two ticks are enough for everything to happen
before, at and after a time slice's end.

Fairness: in `Provisioning`, `FairSpec` gives each process weak fairness of its own next step,
which is what a scheduler gives a process that can run. Waiting for the lock is
a step that can be taken at any moment (take it, or give up after 30 s), and a
subprocess is assumed to end within its 120 s. Starting a command is not fair,
nor is any fault. In `Files` a process that waits for the lock gets to run, but
its holder need not ever go on: `AcquireReturns` may not depend on it. In
`Subprocess` only `run_command` and the clock are fair: the
command may hang. Deadlock is checked in every run but `invocations`, which ends
with the program: an idle process can always start a command, a caller can always
call again, and an add that has ended stutters.

The five violations are disagreements between the code and a comment or the
design document, quoted under "findings" in `PROJECT.json`:

1. *crash_then_retry*. An add killed between writing its partial and installing
   the conf leaves a peer that every later add reports as present, exit 0,
   without applying.
2. *stale_apply*. `apply` compiles before it locks; an add that completes in
   between is overwritten by the older conf and its peer cut off.
3. *failed_add*. The rollback of an add removes the partial but leaves the conf
   that holds the peer; the next restart of the unit brings it live.
4. *header*. `check_network` looks for a line that starts with `[Interface]`, the
   compiler for one that is nothing else.
5. *daemon*. The deadline is looked at in the read loop only; once both streams
   are at EOF, `waitpid` waits for ever.

Two more observations have no run of their own, as nothing is promised about
them: after `wg-quick down`, systemd still holds the oneshot unit active, so
`systemctl start` (`apply.cpp:132`) succeeds and the interface stays away; and a
`wg show` that fails for any reason is taken for an interface that is down.

`AppliedBeforeExit` is stated so that it holds beside the first two: an exit 0
that *did* apply speaks the truth at that moment.

## 4. Proofs

The theorems hold for every value of the constants: any set of processes, keys
and files, every subnet, mix of commands, folder, pipe capacity, command line,
from the named assumptions of each module. Where a fault must be absent, the
theorem says so.

| Theorem | Assumes of `Faults` | Argument |
|---|---|---|
| `TypeCorrect`: `Spec => []TypeOK` | nothing | inductive as it stands, once `LowestFree` is known to be a free host of the subnet (`LowestFreeType`: a non-empty set of naturals has a least element) |
| `InstalledAlwaysSound`: `Spec => []InstalledSound` | nothing | `InstalledInv` adds that a folder waiting to be installed was checked; it becomes the conf, the conf becomes `.sync`, and conf or `.sync` becomes live |
| `LedgerAlwaysSound`: `Spec => []LedgerSound` | no hand edits | `LedgerInv`, below |
| `ImplementsRegistry`: `Spec => RegistrySpec` | no hand edits, no failing rollback | `LedgerInv` and `ContractInv`, then a simulation, below |
| `AlwaysPersistedBeforeLive`: `Spec => PersistedBeforeLive` | nothing; no `build` | `PersistInv`, below |
| `AlwaysAppliedBeforeExit`: `Spec => AppliedBeforeExit` | no `edit`, `stop`, `ifdown`, `blind`; no `build` | `PersistInv`, `AppliesLedger`, `HostAgrees`, below |
| `NeverInterrupted`: `Spec => NoPeerInterrupted` | no `edit`, `stop`, `ifdown`, `reboot`; no `apply`, `build` | the conf of a command that applies is its ledger, below |
| `AlwaysLockFreeConsistent`: `Spec => []LockFreeConsistent` | no fault at all; no `apply`, `build` | `Calm`, below |
| `AllocationCorrect`: `Spec => []AllocatesLowest` (`Sources`) | | the loop invariant `WalkInv`, below |
| `RollbackComplete`: `Spec => []Restored`; `OneFileOnly`: `Spec => []OthersUntouched` (`Sources`) | | how the folder differs from `before` at each `pc`, below |
| `EnvironmentOverBase`: `Spec => []Overlaid` (`Sources`) | | `LayerIs`: what a fold over the lines does, below |
| `KeyInjectedOnce`: `Spec => []KeyOnce` (`Sources`) | no header has text after it (`Noteless`) | what `Emit` has made of each prefix of the lines, below; no key at all if `server.key` is blank |
| `AddReadsBack`: `Spec => []RoundTrip`; `RemoveTakesOneFile`: `Spec => []RemoveExact` (`Sources`) | | two folders that differ by one file, and `EditInv`, below |
| `RefusesForCause`: `Spec => []FailsForCause` (`Sources`) | a name with one digit, as `00-main.conf`, in the folder (`MainFirst`); a label of one line without a placeholder, in the property itself | the same, and `Welcome`, below |
| `ConfHasThePeers`: `Spec => []ConfMatchesLedger` (`Sources`) | | the scan of the files and the blocks of the conf find the same, below |
| `TextSubstituted`: `Spec => []SubstitutedAsDocumented` (`Sources`) | `$` and `}` are no other character (`CharactersAssumption`) | from the end of the text to its beginning, below |
| `LockExcludes`: `Spec => []Exclusive` (`Files`) | nothing | whoever is past `acquire` is `holder` |
| `NothingDropped`: `Spec => []NoDroppings` (`Files`) | no `cleanup` | a temp file exists just while its writer is between create and rename |
| `ModeAlwaysKept`, `ImplementsAtomicFile`: `Spec => []ModeKept`, `Spec => AtomicSpec` (`Files`) | no `nosync` | the inode of the name is complete, synced and nobody's temp file; below |
| `TypeCorrect`: `Spec => []TypeOK` (`Files`, `Subprocess`, `CommandLine`, `Sources`) | nothing | with the invariants below |
| `ParsesRight`: `Spec => []ParsedRight` (`CommandLine`) | | `ReadSoFar`, below |
| `ExitsHonestly`, `EveryTurn`, `InstallsOwn`, `TouchesNothingElse`: `Spec => []P` for four properties of `CommandLine` | | `ControlInv` and `TallyInv`, below |
| `AnswersComplete`, `ReadsNeverBlock`, `NoZombie`, `TimeOutsAreLate`: `Spec => []P` for the four safety properties of `Subprocess` | nothing | `CallInv`, below |

`LedgerSound` is not inductive: an add keeps the ledger sound only if the
address it chose is still free when it writes. `LedgerInv` therefore also says

- `Exclusive`: a command that changes the ledger, once past `acquire` and until
  its exit, holds the lock, and only such a command has a change in flight;
- `ReadsTrue`: what such a command has read is still so, hence `DecidesOnLedger`:
  when it decides, its snapshot *is* the ledger;
- `Restorable`: the ledger with a change in flight taken back is sound, which is
  what a rollback needs.

`ContractInv` adds what the answers are right about: a request is there from the
first step to the last (`Asked`), a rollback follows an environment error only
(`Answered`), a listed file does not vanish under a command that holds the lock
(`Listed`), partials hold one peer each (`Singles`, true without hand edits), and
the ledger is exactly the effect of the request on the ledger before it, from
the write of the partial to the exit (`InFlight`). The simulation maps each step
of `Provisioning` to the step of `Registry` that it is: leaving with an outcome
to `Serve`, with exit 3 to `Refuse`, a death to `Die` (which has served the request of the one that had
a change in flight), the destructor of the lock to `Return`, everything else to
a stutter. Writing the partial is a stutter because the mapping takes a change
in flight back; the step that ends the apply is where it happens.

That the two theorems about the ledger assume no hand edits is not a weakness
of the argument: an editor takes no lock, and an edit between an add's read and its
write does break both.

The last part of `ProvisioningProofs` is about what an `apply` leaves on the host.
`PersistInv` says that one
command at a time is inside `execute_apply`, that past the `enable` the unit is
enabled and that `.sync` holds what the conf says while it is given to `wg
syncconf`. So a peer that becomes reachable is in the conf of an enabled unit,
whatever fails, dies, restarts or is edited. `build` breaks this: it writes the
conf without the lock, also between the `strip` and the `syncconf` of another
command, and is left out of all four theorems.

`AppliesLedger` says that the conf a ledger command goes on with is compiled from
the ledger, although an `apply` that compiled earlier may have installed its own
before; `HostAgrees` that systemd and the kernel agree on whether the interface is
up and that what the probe said stays true until it is acted on. Those are what
the faults `edit` (the ledger changes under the lock's holder), `stop`, `ifdown`
and `blind` (a probe that is wrong, or no longer right) break: with them
`systemctl start` may do nothing and the command still exit with 0.

`NoPeerInterrupted` needs less of the host and more of the commands. A `wg show`
that fails on an interface that is up is harmless here (`systemctl start` does
nothing for an active unit), but an `apply` that compiled before an add and installs
after it takes the new peer down until the next apply, as designed; so do a
reboot and an administrator.

`Calm` is the whole state while nothing fails: with no change in flight the conf
is the ledger and the interface has the conf; with one, both are what they were
before it until its process has installed. With failing steps `LockFreeConsistent`
is false, and with a stale `apply` too: the runs `failed_add` and `stale_apply`
show both.

`WalkInv` says that every host below the one looked at is in use and that this
one is a host of the subnet. What it rests on is arithmetic: a subnet starts at a
multiple of its size and ends within the range (`SubnetType`), masking an address
gives the start of the subnet exactly for the addresses in it
(`InSubnetIsInterval`), and so the walk from `first_host` to `last_host` goes
through just the addresses that `check_network` lets a peer have, and never
wraps (`HostsAreWalked`). `Span` and the sizes are any numbers with one dividing
the other, not only powers of two.

For `Restored`, the invariant says of each `pc` what stands between the folder and
`before`: nothing until a partial has been written or deleted, then exactly the
file `fpath`, new in the one case and with its lines in `saved` in the other,
until `Rollback` undoes it or the command succeeds. That the name of a new file
*is* new rests on `next_peer_filename` going past the highest prefix of the
folder, whatever its order in the listing.

The other theorems about `Sources` are about loops over lines, which the model
writes as folds. `SourcesProofs` says once what a fold is: with a step that stays
within a set, it goes through one value for each prefix of the sequence
(`FoldRuns`), and such a fold exists (`FoldExists`); the induction behind both is
over the lengths of prefixes, as the least length at which a claim about a set
of numbers fails. A lemma for each fold of the model then gives its values
(`LayerRuns`, `EmitRuns`, `ScanRuns`, `FileRuns`). `EnvironmentOverBase` follows the value of
one variable from prefix to prefix (`LayerIs`); that the lines are those of a
file of the folder at all rests on `Listing` being a sequence of all its files,
each once, because `Precedes` is a total order (`ListingIs`). `KeyInjectedOnce` says
of each prefix that it has no header and no key, or the key under its first
header only; `check_network` has seen a header, and the hypothesis `Noteless` is just
what makes the header that it sees one that `compile` sees, which the run
`header` refutes without it. The type invariant rests on what the scan is in the
middle of (`Scanning`): a block that is open belongs to a file, so that what
`Flush` hands out is a whole peer.

`EditProofs` compares two folders of which one has one file more: the one before a
remove and the one after it, or the other way round for an add.

- The listing of the larger is that of the smaller with one name between
  (`ListingWith`); the new file is not in front, or the variables would be in the
  second file, which `VarTable::load` refuses (`GrownTable`). So the variables are
  the same, and the partials are those of the smaller folder and one more.
- What the scan finds in a file does not depend on the files before it
  (`FileBeyond`), because a block and a label end with their file. So an error in a
  file is an error of the folder, and otherwise the peers of the folder are those of
  its files in a row (`CollectedIs`): with one file more, one run more, between two
  runs of peers that other files hold (`InsertCollects`, `GrownPeers`).
- Whatever lines the label has made, the last three of the file are `[Peer]`, the key and the
  address. The header closes what was open, so if the file is scanned without an error
  the last of its peers is the one asked for (`BlockScanned`, `BlockAtEnd`,
  `NewPeerLast`); with a label of one line it is the only one, and its name is what is read
  of that line (`NewPeer`). That is `RoundTrip`.
- A run that is the peers of one file can be cut out, and a key that is then still
  there stood twice (`RemovedIs`). That is `RemoveExact`.
- A new peer with a host of the subnet, not the server's, and with a key and an
  address that nobody has (`Welcome`) keeps sound what was sound (`SoundWith`) and
  defines, or leaves undefined, nothing (`StillReads`). So `check_network` accepts
  with it what it accepts without it (`StillAccepts`), and a refusal has another
  cause. That is `FailsForCause`.

`EditInv` ties this to the command: what it knows of the folder that it found
(`Known`, `Adding`), that the partial that it writes or deletes is all that has
changed (`Writing`, `Removing`), and that the folder which stays has passed the
check (`Passed`). It rests on `WalkInv`: the address is free. The hypothesis `MainFirst` of
`RefusesForCause` is what `vars.h` says of the file that sorts first: in a folder
whose only name is, say, `95-main.conf`, the new `105-` would sort first and the
add be refused for it.

`ConfProofs` relates two readings of the same lines. The scan of wirebard goes from
line to line, one file at a time, and remembers the fields of the block that is open;
WireGuard, as `Peers` has it, takes all lines of the conf up to the next header for a
block, whichever file they came from.

- In one file whose blocks have one key and one address each (`Tidy`), the scan has
  found, after any number of lines, the blocks that have ended, and what it holds are
  the fields of the one that is open (`TidyFound` at the end of the file).
- In the conf a block goes on until the next header, which may be in a later file; but
  in a tidy file no key and no address stands before its first header, so the block
  takes no field from there. The private key that `Emit` puts in stands under
  `[Interface]` and changes no block of a peer.
- So both find the peers of each file, and `Sound` says that their addresses differ:
  each is there once.

`CompiledInv` ties this to the command: the conf is compiled from the partials of the
folder that has been checked and has not been touched since.

`TextProofs` compares a recursion with a definition by positions. `Tokens` recurs from
a position to a later one, by one step, behind a name or behind an escape; that this
defines a function on every text is a lemma of its own (`ScanExists`, `TokensAre`: from
the end of the text, position by position). Two placeholders never
overlap, since neither has another `$` after its first character or another `}` before
its last (`Inside`, `Disjoint`); so a position is inside at most one, and behind one no other is
under way (`ClearAfter`). `Done` says of a position that, if no placeholder goes on from
before it and the characters of the pending literal stand for themselves, the tokens
from it on render the pieces from the start of that literal on, and fail just for the
names from it on. It holds at the end (`DoneAtEnd`) and at a position if it holds at all
later ones: at an escape (`DoneAtEscape`), at a name (`DoneAtName`) and elsewhere
(`DoneElsewhere`). At the first position `Done` is the property. An escape that nothing
closes is left out as in the property itself. `CharactersAssumption` holds of the
characters that `vars.cpp` tests for: `$` and `}` are not each other, not `{`, and
neither letters, digits nor `_`.

For `Files`, the invariant ties inodes to processes: temp files are distinct, none
of them is `dest` or `stored`, `dest` and `stored` are complete and synced with
the permissions asked for, and a temp file is so from `fsync` on. A rename then
is `Write`, an open `Look`, a power cut a return to `stable`; all else stutters.

`ControlInv` says which command is at which label, that nothing has happened
before the selection, that `loaded` is the network whose turn it is and has
passed the check from `compile` on, and that the selected names are distinct.
`TallyInv` counts: the networks before `turn` have been spoken of and no others,
and `worst` is 0 exactly when all of those succeeded. Distinct names matter:
the second turn of a network would overwrite what was said after the first.

`ParsedRight` compares a loop with a reading of the command line as a whole:
`Values` is the set of the tokens that are the value of a flag, chosen by what it
has to satisfy, and `Wrong` and `Understood` speak of the other tokens. That such a
set exists for every command line is a lemma of its own (`ValuesExist`: else there
is a least length that has none, and the set for one token less can be extended).
The invariant `ReadSoFar` says that `args` is the meaning of the tokens before `at`,
that `at` is no value and that nothing before it is wrong; `Advance` gives what one
step adds to each set, and at the end "before `at`" is everything. An error exit
then has found what makes the whole line wrong.

`CallInv` adds four parts to the properties. `Stages` says how far the child, the
clock and the locals are at each `pc`; `Ends` that the parent holds no write end
while it reads, and that a stream it has closed is empty and without writers,
which nobody can undo as a write end is only ever inherited from one who has it;
`Drained` that without a time-out `waitpid` is reached with both streams closed;
`InTime` that once the output has ended in time, the clock cannot reach the
deadline before the read loop has ended.

Only model-checked: `CallReturns`, `AcquireReturns` and `CommandsTerminate`, which are
liveness under fairness and out of the prover's reach. Every safety property and
action property that a passing run checks is a theorem, for the commands and the
faults, and under the hypotheses, that the table names.

What no run catches is in the notes of the hazards: a `.sync` file that a kill leaves
behind, a start job that takes effect after the rollback, further addresses of a peer,
an order prefix beyond an `int`, the text doubled before an open escape, unchecked or
missing syncs, networks that an uncaught exception costs their turn, and what
becomes of a partial of which only a piece was read.

## 5. Plan

The order is that of importance: first what several processes do to one
network (done), then the pure algorithms below it, then the two mechanisms it
takes as given.

1. *Done.* `AddressPlan`, `Provisioning`, `Registry`, their runs and proofs.
2. *Done.* `Allocation` and `Sources`: the text of a folder, the walk, `check`,
   `compile`.
3. *Done.* `Subprocess`: `run_command`, with its proofs.
4. *Done.* `Files` and `AtomicFile`: write, read and lock on a file system that
   fails and loses power, with the refinement proved.
5. *Done.* `Placeholders`, and `peer remove` with the rollback of both commands in
   `Sources`.
6. *Done.* `CommandLine`: parser, dispatch, selection, loops and exit codes.
7. *Done.* The host against the ledger, `EditProofs`, the parser, the type invariant of
   `Subprocess`.
8. *Done.* `ConfProofs` and `TextProofs`: the conf that WireGuard reads, and the texts.
9. A peer with several addresses (`peer.cpp:131`), of which the scanner knows one
   and WireGuard all; and what a command makes of a partial of which only a piece was
   read (`fs.cpp:84`).

## 6. Not modelled

- JSON and text output, the wording of errors, the contents of `server.key`:
  formatting of what has been decided. Of `server.key` only whether it is blank is
  kept; one with several lines would put all of them into the conf.
- The characters of header lines, addresses, names and values; an order prefix
  that overflows an `int` (`peer.cpp:185`), which is undefined behaviour reached
  only by a name with ten or more digits; escapes closed on a later line.
- Uncaught exceptions other than those of `directory_iterator`.
- `TempDir`, which no command uses, hence "partly" for that component.
- Several networks at once in `Provisioning`: each has its own folder, lock, conf
  and unit; what they share, the loop and the exit code, is in `CommandLine`.
- Tests, samples and packaging.
