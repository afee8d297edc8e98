---------------------------- MODULE CommandLine ----------------------------
(***************************************************************************)
(* One run of the program, from argv to the exit code: the parser of         *)
(* cli.cpp, the dispatch of main.cpp, the selection of project.cpp and the    *)
(* loops of cmd_build, cmd_check, cmd_apply, cmd_list and cmd_network over    *)
(* networks whose folders are edited meanwhile.                              *)
(*                                                                          *)
(* What happens inside one network is taken from Provisioning: a load, a      *)
(* check, a compilation, an installation or a reload succeeds or fails.  So   *)
(* is what peer add and peer remove do once they hold the lock.              *)
(***************************************************************************)
EXTENDS SequencesExt, Integers

CONSTANTS
    Text,        \* what a token can be
    Names,       \* the possible networks, a sequence in the order of their bytes
    Invocations, \* command lines
    Layouts,     \* which directories may be projects, a set of sets of directories
    Keys         \* tokens that are WireGuard keys

None == "none"
Commands == {"build", "check", "apply", "list", "peer", "network"}
ValueFlags == {"--env", "--out", "--network", "--pubkey", "--name"}
SwitchFlags == {"--verbose", "--help", "--json", "--dry-run", "--version"}
DirFlags == {"-C", "--dir"}
HelpFlags == {"-h", "--help"}

\* The flags a command line may hold that the program does not know.
OtherFlags == {"--frob"}
Dashed == ValueFlags \cup SwitchFlags \cup DirFlags \cup HelpFlags \cup OtherFlags

Network == Range(Names)

(***************************************************************************)
(*   absent      no folder                                                  *)
(*   unreadable  a folder that cannot be listed                              *)
(*   scaffold    no partial in it                                           *)
(*   broken      does not load                                              *)
(*   invalid     does not pass check_network                                *)
(*   keyless     without server.key                                         *)
(***************************************************************************)
Sources == {"absent", "unreadable", "scaffold", "broken", "invalid", "keyless", "sound"}
Listed == {"broken", "invalid", "keyless", "sound"}
Loads == {"invalid", "keyless", "sound"}
Checks == {"keyless", "sound"}

ASSUME CommandLineAssumption ==
    /\ Names \in Seq(Text) /\ Invocations \subseteq Seq(Text)
    /\ Network \cap (Dashed \cup {None}) = {}
    /\ Keys \cap (Dashed \cup {None}) = {}
    /\ IsInjective(Names)

VARIABLES
    argv,    \* the command line
    at,      \* the next token
    args,    \* ParsedArgs
    projects,\* the directories that are projects
    sources, \* what is in each network's folder
    names,   \* the networks selected
    turn,    \* which of them it is the turn of
    loaded,  \* the Network in memory
    worst,
    said,    \* what has been printed of each network
    conf,    \* of what each <network>.conf was compiled
    live,    \* and what each interface was loaded with
    ledger,  \* networks whose partials the command has changed
    locks,   \* networks whose .lock it has opened
    pc,
    code     \* the exit code

disk == <<sources, projects>>
effects == <<conf, live, ledger, locks>>
parser == <<argv, at, args>>
loop == <<names, turn, loaded, worst, said>>
vars == <<parser, disk, loop, effects, pc, code>>

\* A network as it was loaded; Old is whatever was there before.
Copy == [of : Network, state : Sources]
Old == [of |-> None, state |-> "sound"]
Args == [command : Commands \cup {None}, dir : Text \cup {None}, positionals : Seq(Text),
         flags : [ValueFlags -> Text \cup {None}], switches : SUBSET SwitchFlags]

Looping == {"load", "check", "compile", "write", "lock", "install", "reload"}
TypeOK ==
    /\ argv \in Invocations /\ at \in 1..Len(argv) + 1
    /\ args \in Args
    /\ projects \in Layouts
    /\ sources \in [Network -> Sources]
    /\ names \in Seq(Network) /\ turn \in 1..Len(names) + 1
    /\ pc \in Looping => turn <= Len(names)
    /\ loaded \in Copy \cup {Old}
    /\ worst \in {0, 1, 3}
    /\ said \in [Network -> {"nothing", "ok", "error"}]
    /\ conf \in [Network -> Copy \cup {Old}] /\ live \in [Network -> Copy \cup {Old}]
    /\ ledger \subseteq Network /\ locks \subseteq Network
    /\ pc \in Looping \cup {"args", "start", "select", "peer", "peerlock", "serve", "exit"}
    /\ code \in {None, "0", "1", "2", "3", "abort"}

Init ==
    /\ argv \in Invocations /\ at = 1
    /\ args = [command |-> None, dir |-> None, positionals |-> <<>>,
               flags |-> [f \in ValueFlags |-> None], switches |-> {}]
    /\ projects \in Layouts
    /\ sources = [n \in Network |-> "sound"]
    /\ names = <<>> /\ turn = 1 /\ loaded = Old /\ worst = 0
    /\ said = [n \in Network |-> "nothing"]
    /\ conf = [n \in Network |-> Old] /\ live = [n \in Network |-> Old]
    /\ ledger = {} /\ locks = {}
    /\ pc = "args" /\ code = None
-----------------------------------------------------------------------------
Status(w) == IF w = 0 THEN "0" ELSE IF w = 1 THEN "1" ELSE "3"
Exit(c) == pc' = "exit" /\ code' = c
Goto(label) == pc' = label /\ UNCHANGED code

\* Folders change at any time after the command line has been read.
Edit ==
    /\ pc \notin {"args", "exit"}
    /\ \E n \in Network, s \in Sources : sources' = [sources EXCEPT ![n] = s]
    /\ UNCHANGED <<parser, projects, loop, effects, pc, code>>
-----------------------------------------------------------------------------
(* parse_args.                                                              *)

More == pc = "args" /\ at <= Len(argv)
Token == argv[at]

TakeDir == Token \in DirFlags /\ at < Len(argv) /\ args' = [args EXCEPT !.dir = argv[at + 1]]
TakeValue ==
    /\ Token \in ValueFlags /\ at < Len(argv)
    /\ args' = [args EXCEPT !.flags[Token] = argv[at + 1]]
TakeSwitch ==
    /\ Token \in SwitchFlags \cup HelpFlags
    /\ args' = [args EXCEPT !.switches =
                    @ \cup {IF Token \in HelpFlags THEN "--help" ELSE Token}]
TakeCommand ==
    /\ Token \in Commands /\ args.command = None
    /\ args' = [args EXCEPT !.command = Token]
TakePositional ==
    /\ Token \notin Dashed /\ args.command # None
    /\ args' = [args EXCEPT !.positionals = Append(@, Token)]

\* Mutant: the value of a flag is looked at again, as a token of its own.
StepOne == at' = at + 1
Step == at' = at + (IF Token \in DirFlags \cup ValueFlags THEN 2 ELSE 1)

Take ==
    /\ More
    /\ TakeDir \/ TakeValue \/ TakeSwitch \/ TakeCommand \/ TakePositional
    /\ Step
    /\ UNCHANGED <<argv, disk, loop, effects, pc, code>>

\* A flag without its value, an unknown flag, an unknown command.
Misused ==
    /\ More
    /\ \/ Token \in DirFlags \cup ValueFlags /\ at = Len(argv)
       \/ Token \in OtherFlags
       \/ Token \notin Dashed \cup Commands /\ args.command = None
    /\ Exit("2")
    /\ UNCHANGED <<parser, disk, loop, effects>>

Informs == args.switches \cap {"--help", "--version"} # {}

\* --help and --version are answered before any command.
Inform ==
    /\ pc = "args" /\ at > Len(argv)
    /\ Informs \/ args.command = None
    /\ Exit(IF Informs THEN "0" ELSE "2")
    /\ UNCHANGED <<parser, disk, loop, effects>>

Dispatch ==
    /\ pc = "args" /\ at > Len(argv)
    /\ ~ Informs /\ args.command # None
    /\ Goto("start")
    /\ UNCHANGED <<parser, disk, loop, effects>>
-----------------------------------------------------------------------------
(* project_of and select_networks.                                          *)

Sub == IF args.positionals = <<>> THEN None ELSE Head(args.positionals)
Dry == "--dry-run" \in args.switches
Peer == args.flags["--network"]

UsageError ==
    CASE args.command = "peer" ->
            \/ Sub \notin {"add", "remove"}
            \/ Peer = None
            \/ args.flags["--pubkey"] \notin Keys
      [] args.command = "network" -> Sub # "list"
      [] OTHER -> FALSE

\* -C is trusted, else the current directory and /etc/wireguard are tried.
Root ==
    IF args.dir # None THEN args.dir
    ELSE IF "." \in projects THEN "."
    ELSE "/etc/wireguard"

Start ==
    /\ pc = "start"
    /\ CASE UsageError -> Exit("2")
         [] ~ UsageError /\ Root \notin projects -> Exit("3")
         [] ~ UsageError /\ Root \in projects ->
                Goto(IF args.command = "peer" THEN "peer" ELSE "select")
    /\ UNCHANGED <<parser, disk, loop, effects>>

\* Where the loop goes with a list of networks; without any it ends.
Loop(list) ==
    /\ names' = list /\ turn' = 1
    /\ IF list = <<>> THEN Exit("0") ELSE Goto("load")
    /\ UNCHANGED <<parser, disk, loaded, worst, said, effects>>

SelectOne ==
    /\ pc = "select"
    /\ args.command \in {"build", "check", "apply"} /\ args.positionals # <<>>
    /\ Sub \in Network
    /\ Loop(<<Sub>>)

\* A name that no folder has does not load.
SelectUnknown ==
    /\ pc = "select"
    /\ args.command \in {"build", "check", "apply"} /\ args.positionals # <<>>
    /\ Sub \notin Network
    /\ Exit("1")
    /\ UNCHANGED <<parser, disk, loop, effects>>

ListsAll ==
    args.command \in {"list", "network"} \/ args.positionals = <<>>

Ascending(S) ==
    {f \in [1..Cardinality(S) -> S] : \A i, j \in 1..Cardinality(S) : i < j => f[i] < f[j]}

\* Every folder with a partial in it, sorted by name.  One that is not there
\* any more when its turn comes is skipped.
SelectAll ==
    /\ pc = "select" /\ ListsAll
    /\ \A n \in Network : sources[n] # "unreadable"
    /\ \E f \in Ascending({i \in DOMAIN Names : sources[Names[i]] \in Listed}) :
            Loop([i \in DOMAIN f |-> Names[f[i]]])

\* partials/ itself cannot be listed.
SelectFails ==
    /\ pc = "select" /\ ListsAll
    /\ Exit("3")
    /\ UNCHANGED <<parser, disk, loop, effects>>

\* directory_iterator throws in list_files, and nobody catches it.
SelectAborts ==
    /\ pc = "select" /\ ListsAll
    /\ \E n \in Network : sources[n] = "unreadable"
    /\ Exit("abort")
    /\ UNCHANGED <<parser, disk, loop, effects>>
-----------------------------------------------------------------------------
(* The loops.                                                               *)

This == names[turn]

\* Mutant: the loop runs one past the end.
ProceedPast(w) ==
    /\ worst' = w
    /\ turn' = turn + 1
    /\ IF turn <= Len(names) THEN Goto("load") ELSE Exit(Status(w))

\* The next network.  cmd_list and cmd_network return 0 whatever happened.
Proceed(w) ==
    /\ worst' = w
    /\ turn' = turn + 1
    /\ IF turn < Len(names) THEN Goto("load")
       ELSE Exit(IF args.command \in {"list", "network"} THEN "0" ELSE Status(w))

Say(what) == said' = [said EXCEPT ![This] = what]

\* Mutant: the first network that fails ends the loop.
FailBreaks(w) ==
    /\ Say("error") /\ worst' = w /\ Exit(Status(w))
    /\ UNCHANGED <<names, turn, loaded>>

\* One network fails, the others have their turn.
Fail(w) == Say("error") /\ Proceed(w) /\ UNCHANGED <<names, loaded>>

\* Mutant: the exit code is the last network's.
SucceedForgets == Say("ok") /\ Proceed(0) /\ UNCHANGED <<names, loaded>>
Succeed == Say("ok") /\ Proceed(worst) /\ UNCHANGED <<names, loaded>>

Load ==
    /\ pc = "load"
    /\ sources[This] \in Loads
    /\ loaded' = [of |-> This, state |-> sources[This]]
    /\ IF args.command \in {"list", "network"}
       THEN Say("ok") /\ Proceed(worst) /\ UNCHANGED names
       ELSE Goto("check") /\ UNCHANGED <<names, turn, worst, said>>
    /\ UNCHANGED <<parser, disk, effects>>

\* Mutant: a network that does not load is not skipped.
LoadFailsOn ==
    /\ pc = "load"
    /\ sources[This] \notin Loads \cup {"unreadable"}
    /\ IF args.command = "network" THEN Say("error") /\ Exit("1") /\ UNCHANGED <<names, turn, worst, loaded>>
       ELSE Say("error") /\ worst' = 1 /\ Goto("check") /\ UNCHANGED <<names, turn, loaded>>
    /\ UNCHANGED <<parser, disk, effects>>

\* cmd_network does not go on; cmd_list does, and still returns 0.
LoadFails ==
    /\ pc = "load"
    /\ sources[This] \notin Loads \cup {"unreadable"}
    /\ IF args.command = "network"
       THEN Say("error") /\ Exit("1") /\ UNCHANGED <<names, turn, worst, loaded>>
       ELSE Fail(1)
    /\ UNCHANGED <<parser, disk, effects>>

LoadAborts ==
    /\ pc = "load"
    /\ sources[This] = "unreadable"
    /\ Exit("abort")
    /\ UNCHANGED <<parser, disk, loop, effects>>

Check ==
    /\ pc = "check"
    /\ CASE loaded.state \notin Checks -> Fail(1)
         [] loaded.state \in Checks /\ args.command = "check" -> Succeed
         [] loaded.state \in Checks /\ args.command # "check" ->
                Goto("compile") /\ UNCHANGED loop
    /\ UNCHANGED <<parser, disk, effects>>

\* compile_network reads server.key.
Compile ==
    /\ pc = "compile"
    /\ \/ sources[This] \in {"keyless", "absent", "unreadable"} /\ Fail(3)
       \/ /\ sources[This] \notin {"keyless", "absent"}
          /\ Goto(IF args.command = "build" THEN "write" ELSE "lock")
          /\ UNCHANGED loop
    /\ UNCHANGED <<parser, disk, effects>>

Write ==
    /\ pc = "write"
    /\ conf' = [conf EXCEPT ![This] = loaded]
    /\ Succeed
    /\ UNCHANGED <<parser, disk, live, ledger, locks>>

\* The lock file is created where there is none; --dry-run takes the lock too.
Lock ==
    /\ pc = "lock"
    /\ sources[This] # "absent"
    /\ locks' = locks \cup {This}
    /\ Goto("install")
    /\ UNCHANGED <<parser, disk, loop, conf, live, ledger>>

Plan ==
    /\ pc = "install" /\ Dry
    /\ Succeed
    /\ UNCHANGED <<parser, disk, effects>>

\* Mutant: execute_apply looks at dry_run only before the reload.
InstallDry ==
    /\ pc = "install"
    /\ conf' = [conf EXCEPT ![This] = loaded]
    /\ Goto("reload")
    /\ UNCHANGED <<parser, disk, loop, live, ledger, locks>>

Install ==
    /\ pc = "install" /\ ~ Dry
    /\ conf' = [conf EXCEPT ![This] = loaded]
    /\ Goto("reload")
    /\ UNCHANGED <<parser, disk, loop, live, ledger, locks>>

\* The rest of execute_apply; the conf is read back by name.
Reload ==
    /\ pc = "reload"
    /\ live' = [live EXCEPT ![This] = conf[This]]
    /\ Succeed
    /\ UNCHANGED <<parser, disk, conf, ledger, locks>>

\* A write, the lock or a step of execute_apply fails.
StepFails ==
    /\ pc \in {"write", "lock", "install", "reload"}
    /\ pc = "install" => ~ Dry
    /\ locks' \in (IF pc = "lock" /\ sources[This] # "absent"
                   THEN {locks, locks \cup {This}} ELSE {locks})
    /\ live' \in (IF pc = "reload" THEN {live, [live EXCEPT ![This] = conf[This]]} ELSE {live})
    /\ Fail(3)
    /\ UNCHANGED <<parser, disk, conf, ledger>>
-----------------------------------------------------------------------------
(* peer add and peer remove, up to the point where Provisioning takes over.  *)

PeerFolder ==
    /\ pc = "peer"
    /\ IF Peer \in Network /\ sources[Peer] # "absent" THEN Goto("peerlock") ELSE Exit("1")
    /\ UNCHANGED <<parser, disk, loop, effects>>

PeerLock ==
    /\ pc = "peerlock"
    /\ locks' = IF sources[Peer] = "absent" THEN locks ELSE locks \cup {Peer}
    /\ \/ Exit("3")
       \/ sources[Peer] # "absent" /\ Goto("serve")
    /\ UNCHANGED <<parser, disk, loop, conf, live, ledger>>

PeerAborts ==
    /\ pc = "serve"
    /\ sources[Peer] = "unreadable"
    /\ Exit("abort")
    /\ UNCHANGED <<parser, disk, loop, effects>>

\* It does not load, has no variables, no free host, or has the key already
\* (or not, for a remove); or this is a dry run.
PeerAnswers ==
    /\ pc = "serve"
    /\ \/ sources[Peer] \notin Checks \cup {"unreadable"} /\ Exit("1")
       \/ sources[Peer] \in Loads /\ (Exit("0") \/ Exit("1"))
    /\ UNCHANGED <<parser, disk, loop, effects>>

\* The partial is written or removed; what follows may fail anywhere.
PeerChanges ==
    /\ pc = "serve" /\ ~ Dry
    /\ sources[Peer] \in Loads
    /\ ledger' = ledger \cup {Peer}
    /\ LET new == [of |-> Peer, state |-> "sound"]
       IN  \/ UNCHANGED <<conf, live>> /\ \E c \in {"1", "3", "abort"} : Exit(c)
           \/ /\ conf' = [conf EXCEPT ![Peer] = new]
              /\ live' \in {live, [live EXCEPT ![Peer] = new]}
              /\ \E c \in {"0", "3"} : Exit(c)
    /\ UNCHANGED <<parser, disk, loop, locks>>
-----------------------------------------------------------------------------
ParseStep == Take \/ Misused \/ Inform \/ Dispatch
SelectStep == Start \/ SelectOne \/ SelectUnknown \/ SelectAll \/ SelectFails \/ SelectAborts
LoopStep ==
    \/ Load \/ LoadFails \/ LoadAborts \/ Check \/ Compile \/ Write
    \/ Lock \/ Plan \/ Install \/ Reload \/ StepFails
PeerStep == PeerFolder \/ PeerLock \/ PeerAborts \/ PeerAnswers \/ PeerChanges

Next == ParseStep \/ SelectStep \/ LoopStep \/ PeerStep \/ Edit

Spec == Init /\ [][Next]_vars
-----------------------------------------------------------------------------
\* What a command line means, read as a whole: a token after a flag that takes
\* a value is that value, unless the flag is one itself.
Takers == DirFlags \cup ValueFlags
Values ==
    CHOOSE V \in SUBSET DOMAIN argv :
        \A i \in DOMAIN argv : i \in V <=> i > 1 /\ i - 1 \notin V /\ argv[i - 1] \in Takers
Given(tokens) == {i \in DOMAIN argv \ Values : argv[i] \in tokens}
Words == {i \in DOMAIN argv \ Values : argv[i] \notin Dashed}
LastOf(flags) == IF Given(flags) = {} THEN None ELSE argv[Max(Given(flags)) + 1]

Wrong ==
    \/ Given(OtherFlags) # {}
    \/ Len(argv) \in Given(Takers)
    \/ IF Words = {} THEN Given(HelpFlags \cup {"--version"}) = {}
       ELSE argv[Min(Words)] \notin Commands

Operands == {i \in Words : \E j \in Words : j < i}
Understood ==
    /\ args.command = IF Words = {} THEN None ELSE argv[Min(Words)]
    /\ args.dir = LastOf(DirFlags)
    /\ \E f \in Ascending(Operands) : args.positionals = [i \in DOMAIN f |-> argv[f[i]]]
    /\ args.flags = [f \in ValueFlags |-> LastOf({f})]
    /\ args.switches = {argv[i] : i \in Given(SwitchFlags)}
                       \cup (IF Given(HelpFlags) = {} THEN {} ELSE {"--help"})

\* Whatever the order of the tokens, the parser understands them so, or exits
\* with 2 (parse_args in cli.cpp).
ParsedRight ==
    pc # "args" => IF Wrong THEN code = "2" ELSE Understood

\* A whole-project command exits with 0 exactly when it has done its work on
\* each network it selected, however many of the others have failed before or
\* after (the loops over names in commands/).
Done(n) ==
    /\ said[n] = "ok"
    /\ args.command = "build" => conf[n] # Old
    /\ args.command = "apply" /\ ~ Dry => conf[n] # Old /\ live[n] # Old
ExitHonest ==
    pc = "exit" /\ args.command \in {"check", "build", "apply"} /\ names # <<>> =>
        (code = "0" <=> \A n \in Range(names) : Done(n))

\* One network that fails does not keep the others from their turn: "act on
\* every network under partials/" (cli.cpp:100).
TurnForAll ==
    pc = "exit" /\ code # "abort" /\ args.command \in {"check", "build", "apply", "list"} =>
        \A n \in Range(names) : said[n] # "nothing"

\* What a <network>.conf or an interface is given has been compiled from that
\* very network, in a state that passed the check, whatever failed before it
\* and whatever becomes of the folder meanwhile (cmd_build, cmd_apply).
InstalledIsOwn ==
    \A n \in Network : \A copy \in {conf[n], live[n]} :
        copy # Old => copy.of = n /\ copy.state \in Checks

\* A usage error touches nothing at all, --dry-run of apply and peer nothing
\* but the lock file, and every other command no network but its own
\* ("show what would happen; touch nothing (apply/peer)", cli.cpp:109).
Touched(n) == conf[n] # Old \/ live[n] # Old \/ n \in ledger
Its(n) ==
    \/ args.command \in {"build", "apply"} /\ n \in Range(names)
    \/ args.command = "peer" /\ n = Peer
TouchesOnlyIts ==
    \A n \in Network :
        /\ Touched(n) => Its(n) /\ (Dry => args.command = "build")
        /\ n \in locks => Its(n)
        /\ code = "2" => ~ Touched(n) /\ n \notin locks
=============================================================================
