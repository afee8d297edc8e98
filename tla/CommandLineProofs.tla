-------------------------- MODULE CommandLineProofs --------------------------
(***************************************************************************)
(* One run of the program is of the right types, installs in each network    *)
(* what was compiled from it, touches nothing else, gives every network its  *)
(* turn and exits with 0 exactly when all of them succeeded; what a command   *)
(* line means does not depend on how its tokens are mixed.  All that for any  *)
(* number of networks, any command lines, and folders that change all the     *)
(* time.                                                                     *)
(***************************************************************************)
EXTENDS CommandLine, FiniteSetTheorems, WellFoundedInduction, TLAPS

\* The list of selected networks holds networks, each once.
LEMMA Selection ==
    ASSUME NEW S \in SUBSET DOMAIN Names, NEW f \in Ascending(S)
    PROVE  LET list == [i \in DOMAIN f |-> Names[f[i]]]
           IN  /\ list \in Seq(Network)
               /\ \A i, j \in DOMAIN list : list[i] = list[j] => i = j
<1> DEFINE list == [i \in DOMAIN f |-> Names[f[i]]]
           c == Cardinality(S)
<1>1. Len(Names) \in Nat /\ DOMAIN Names = 1..Len(Names)
    BY CommandLineAssumption
<1>2. IsFiniteSet(S)
    <2>1. IsFiniteSet(1..Len(Names))
        BY <1>1, FS_Interval
    <2> QED
        BY <2>1, <1>1, FS_Subset
<1>3. c \in Nat
    BY <1>2, FS_CardinalityType
<1>4. f \in [1..c -> S] /\ \A i, j \in 1..c : i < j => f[i] < f[j]
    BY DEF Ascending
<1> HIDE DEF c
<1>5. list \in Seq(Network)
    <2>1. \A i \in 1..c : Names[f[i]] \in Network
        BY <1>4 DEF Network, Range
    <2> QED
        BY <2>1, <1>3, <1>4
<1>6. ASSUME NEW i \in 1..c, NEW j \in 1..c, list[i] = list[j] PROVE i = j
    <2>1. f[i] = f[j]
        BY <1>4, <1>6, CommandLineAssumption DEF IsInjective
    <2>2. f[i] \in Int /\ f[j] \in Int
        BY <1>1, <1>4
    <2> QED
        BY <2>1, <2>2, <1>3, <1>4
<1> QED
    BY <1>4, <1>5, <1>6
-----------------------------------------------------------------------------
(* Types.                                                                   *)

\* Only an existing network is locked by peer.
TypeInv ==
    /\ TypeOK
    /\ pc \in {"peerlock", "serve"} => Peer \in Network

\* The parser consumes one token or two, and stays within the command line.
LEMMA TakeTypes ==
    ASSUME TypeInv, Take
    PROVE  TypeInv'
<1>1. argv \in Seq(Text) /\ at \in 1..Len(argv) /\ Len(argv) \in Nat
    BY CommandLineAssumption DEF TypeInv, TypeOK, Peer, Take, More
<1>2. Token \in Text
    BY <1>1 DEF Token
<1>3. UNCHANGED <<argv, disk, loop, effects, pc, code>>
    BY DEF Take
<1>4. args' \in Args /\ at' \in 1..Len(argv) + 1
    <2>1. args \in Args
        BY DEF TypeInv, TypeOK, Peer
    <2>2. CASE TakeDir
        <3>1. argv[at + 1] \in Text
            BY <1>1, <2>2 DEF TakeDir
        <3>2. args' \in Args
            BY <3>1, <2>1, <2>2 DEF TakeDir, Args
        <3> QED
            BY <3>2, <1>1, <2>2 DEF TakeDir, Take, Step
    <2>3. CASE TakeValue
        <3>1. argv[at + 1] \in Text
            BY <1>1, <2>3 DEF TakeValue
        <3>2. Token \in ValueFlags /\ args' = [args EXCEPT !.flags[Token] = argv[at + 1]]
            BY <2>3 DEF TakeValue
        <3>3. args'.flags \in [ValueFlags -> Text \cup {None}]
            BY <3>1, <3>2, <2>1 DEF Args
        <3>4. args' \in Args
            BY <3>2, <3>3, <2>1 DEF Args
        <3> QED
            BY <3>4, <1>1, <2>3 DEF TakeValue, Take, Step
    <2>4. CASE TakeSwitch
        <3>1. (IF Token \in HelpFlags THEN "--help" ELSE Token) \in SwitchFlags
            BY <2>4 DEF TakeSwitch, SwitchFlags, HelpFlags
        <3>2. args' \in Args
            BY <3>1, <2>1, <2>4 DEF TakeSwitch, Args
        <3>3. Token \notin DirFlags \cup ValueFlags
            BY <2>4 DEF TakeSwitch, SwitchFlags, HelpFlags, DirFlags, ValueFlags
        <3> QED
            BY <3>2, <3>3, <1>1 DEF Take, Step
    <2>5. CASE TakeCommand
        <3>1. Token \notin DirFlags \cup ValueFlags
            BY <2>5 DEF TakeCommand, Commands, DirFlags, ValueFlags
        <3>2. Token \in Commands /\ args' = [args EXCEPT !.command = Token]
            BY <2>5 DEF TakeCommand
        <3>3. args' \in Args
            BY <3>2, <2>1 DEF Args
        <3> QED
            BY <3>1, <3>3, <1>1 DEF Take, Step
    <2>6. CASE TakePositional
        <3>1. Token \notin DirFlags \cup ValueFlags
            BY <2>6 DEF TakePositional, Dashed
        <3>2. args' \in Args
            <4>1. Append(args.positionals, Token) \in Seq(Text)
                BY <1>2, <2>1 DEF Args
            <4> QED
                BY <4>1, <2>1, <2>6 DEF TakePositional, Args
        <3> QED
            BY <3>1, <3>2, <1>1 DEF Take, Step
    <2> QED
        BY <2>2, <2>3, <2>4, <2>5, <2>6 DEF Take
<1> QED
    BY <1>3, <1>4 DEF TypeInv, TypeOK, disk, loop, effects, Take, More

\* The next network, or the exit.
LEMMA ProceedTypes ==
    ASSUME TypeInv, pc \in Looping, NEW w \in {0, 1, 3}, Proceed(w), UNCHANGED names
    PROVE  /\ turn' \in 1..Len(names') + 1
           /\ pc' \in {"load", "exit"} /\ (pc' \in Looping => turn' <= Len(names'))
           /\ worst' \in {0, 1, 3}
           /\ code' \in {None, "0", "1", "2", "3", "abort"}
<1>1. Len(names) \in Nat /\ turn \in 1..Len(names)
    BY DEF TypeInv, TypeOK, Peer
<1> QED
    BY <1>1 DEF Proceed, TypeInv, TypeOK, Peer, Goto, Exit, Status, Looping

LEMMA TypeInvHolds == Spec => []TypeInv
<1>1. Init => TypeInv
    <2> SUFFICES ASSUME Init PROVE TypeInv
        OBVIOUS
    <2>1. argv \in Seq(Text)
        BY CommandLineAssumption DEF Init
    <2>2. args \in Args
        <3>1. <<>> \in Seq(Text)
            OBVIOUS
        <3>2. [f \in ValueFlags |-> None] \in [ValueFlags -> Text \cup {None}]
            OBVIOUS
        <3> QED
            BY <3>1, <3>2 DEF Init, Args
    <2> QED
        BY <2>1, <2>2 DEF Init, TypeInv, TypeOK, Peer, Copy, Old, Looping, Sources
<1>2. TypeInv /\ [Next]_vars => TypeInv'
    <2> SUFFICES ASSUME TypeInv, [Next]_vars PROVE TypeInv'
        OBVIOUS
    <2>1. CASE Take
        BY <2>1, TakeTypes
    <2>2. CASE Misused \/ Inform \/ Dispatch \/ Start \/ SelectUnknown \/ SelectFails
               \/ SelectAborts \/ LoadAborts
        BY <2>2 DEF TypeInv, TypeOK, Peer, Misused, Inform, Dispatch, Start, SelectUnknown, SelectFails,
                    SelectAborts, LoadAborts, Goto, Exit, parser, disk, loop, effects, Looping
    <2>3. CASE SelectOne
        BY <2>3 DEF SelectOne, TypeInv, TypeOK, Peer, Loop, Goto, Exit, parser, disk, effects, Looping
    <2>4. CASE SelectAll
        <3>1. PICK f \in Ascending({i \in DOMAIN Names : sources[Names[i]] \in Listed}) :
                Loop([i \in DOMAIN f |-> Names[f[i]]])
            BY <2>4 DEF SelectAll
        <3>2. names' \in Seq(Network) /\ names' = [i \in DOMAIN f |-> Names[f[i]]]
            BY <3>1, Selection DEF Loop
        <3>3. names' # <<>> => Len(names') \in Nat \ {0}
            BY <3>2
        <3> QED
            BY <3>1, <3>2, <3>3 DEF TypeInv, TypeOK, Peer, Loop, Goto, Exit, parser, disk, effects, Looping
    <2>5. CASE Load
        <3>1. names[turn] \in Network
            BY <2>5 DEF Load, TypeInv, TypeOK, Peer, Looping
        <3>2. loaded' \in Copy
            BY <3>1, <2>5 DEF Load, This, Copy, TypeInv, TypeOK, Peer
        <3>3. CASE args.command \in {"list", "network"}
            <4>1. Proceed(worst) /\ Say("ok") /\ UNCHANGED <<names, parser, disk, effects>>
                BY <2>5, <3>3 DEF Load
            <4> QED
                BY <4>1, <3>1, <3>2, <2>5, ProceedTypes
                   DEF TypeInv, TypeOK, Peer, Say, This, parser, disk, effects, Looping, Load
        <3>4. CASE args.command \notin {"list", "network"}
            BY <2>5, <3>2, <3>4 DEF Load, TypeInv, TypeOK, Peer, Goto, parser, disk, effects, Looping
        <3> QED
            BY <3>3, <3>4
    <2>6. ASSUME NEW w \in {0, 1, 3}, pc \in Looping, Fail(w), UNCHANGED <<parser, disk>>,
                 conf' \in [Network -> Copy \cup {Old}], live' \in [Network -> Copy \cup {Old}],
                 ledger' \subseteq Network, locks' \subseteq Network
          PROVE  TypeInv'
        <3>1. Proceed(w) /\ Say("error") /\ UNCHANGED <<names, loaded>>
            BY <2>6 DEF Fail
        <3> QED
            BY <3>1, <2>6, ProceedTypes DEF TypeInv, TypeOK, Peer, Say, parser, disk, Looping
    <2>7. ASSUME pc \in Looping, Succeed, UNCHANGED <<parser, disk>>,
                 conf' \in [Network -> Copy \cup {Old}], live' \in [Network -> Copy \cup {Old}],
                 ledger' \subseteq Network, locks' \subseteq Network
          PROVE  TypeInv'
        <3>1. Proceed(worst) /\ Say("ok") /\ UNCHANGED <<names, loaded>> /\ worst \in {0, 1, 3}
            BY <2>7 DEF Succeed, TypeInv, TypeOK, Peer
        <3> QED
            BY <3>1, <2>7, ProceedTypes DEF TypeInv, TypeOK, Peer, Say, parser, disk, Looping
    <2>8. CASE LoadFails
        <3>1. CASE args.command = "network"
            BY <2>8, <3>1 DEF LoadFails, TypeInv, TypeOK, Peer, Say, Exit, parser, disk, effects, Looping
        <3>2. CASE args.command # "network"
            BY <2>8, <3>2, <2>6 DEF LoadFails, TypeInv, TypeOK, Peer, effects, Looping
        <3> QED
            BY <3>1, <3>2
    <2>9. CASE Check
        <3>1. CASE Fail(1)
            BY <2>9, <3>1, <2>6 DEF Check, TypeInv, TypeOK, Peer, effects, Looping
        <3>2. CASE Succeed
            BY <2>9, <3>2, <2>7 DEF Check, TypeInv, TypeOK, Peer, effects, Looping
        <3>3. CASE Goto("compile") /\ UNCHANGED loop
            BY <2>9, <3>3 DEF Check, TypeInv, TypeOK, Peer, Goto, parser, disk, loop, effects, Looping
        <3> QED
            BY <2>9, <3>1, <3>2, <3>3 DEF Check
    <2>10. CASE Compile
        <3>1. CASE Fail(3)
            BY <2>10, <3>1, <2>6 DEF Compile, TypeInv, TypeOK, Peer, effects, Looping
        <3>2. CASE ~ Fail(3)
            BY <2>10, <3>2 DEF Compile, TypeInv, TypeOK, Peer, Goto, parser, disk, loop, effects, Looping
        <3> QED
            BY <3>1, <3>2
    <2>11. CASE Write \/ Plan \/ Reload
        <3>1. conf' \in [Network -> Copy \cup {Old}] /\ live' \in [Network -> Copy \cup {Old}]
            BY <2>11 DEF Write, Plan, Reload, TypeInv, TypeOK, Peer, effects, Looping, This
        <3> QED
            BY <3>1, <2>11, <2>7 DEF Write, Plan, Reload, TypeInv, TypeOK, Peer, effects, Looping
    <2>12. CASE Lock \/ Install
        BY <2>12 DEF Lock, Install, TypeInv, TypeOK, Peer, Goto, parser, disk, loop, Looping, This
    <2>13. CASE StepFails
        <3>1. names[turn] \in Network /\ pc \in Looping
            BY <2>13 DEF StepFails, TypeInv, TypeOK, Peer, Looping
        <3>2. /\ UNCHANGED <<conf, ledger>> /\ locks' \subseteq Network
              /\ live' \in [Network -> Copy \cup {Old}]
            BY <2>13, <3>1 DEF StepFails, TypeInv, TypeOK, Peer, This
        <3> QED
            BY <3>1, <3>2, <2>13, <2>6 DEF StepFails, TypeInv, TypeOK, Peer
    <2>14. CASE PeerStep
        <3>1. CASE PeerFolder \/ PeerAborts \/ PeerAnswers
            BY <3>1 DEF PeerFolder, PeerAborts, PeerAnswers, TypeInv, TypeOK, Peer, Goto, Exit,
                        parser, disk, loop, effects, Looping
        <3>2. CASE PeerLock
            <4>1. locks' \subseteq Network /\ Peer \in Network
                BY <3>2 DEF PeerLock, TypeInv, TypeOK, Peer
            <4> QED
                BY <4>1, <3>2 DEF PeerLock, TypeInv, TypeOK, Peer, Goto, Exit, parser, disk, loop, Looping
        <3>3. CASE PeerChanges
            <4> DEFINE new == [of |-> Peer, state |-> "sound"]
            <4>1. Peer \in Network /\ new \in Copy
                BY <3>3 DEF PeerChanges, TypeInv, Copy, Sources
            <4>2. /\ conf' \in {conf, [conf EXCEPT ![Peer] = new]}
                  /\ live' \in {live, [live EXCEPT ![Peer] = new]}
                  /\ ledger' = ledger \cup {Peer}
                  /\ pc' = "exit" /\ code' \in {"0", "1", "3", "abort"}
                  /\ UNCHANGED <<parser, disk, loop, locks>>
                BY <3>3 DEF PeerChanges, Exit
            <4> HIDE DEF new
            <4>3. /\ conf' \in [Network -> Copy \cup {Old}]
                  /\ live' \in [Network -> Copy \cup {Old}]
                  /\ ledger' \subseteq Network
                BY <4>1, <4>2 DEF TypeInv, TypeOK
            <4> QED
                BY <4>2, <4>3 DEF TypeInv, TypeOK, parser, disk, loop, Looping
        <3> QED
            BY <2>14, <3>1, <3>2, <3>3 DEF PeerStep
    <2>15. CASE Edit
        BY <2>15 DEF Edit, TypeInv, TypeOK, Peer, parser, loop, effects
    <2>16. CASE UNCHANGED vars
        BY <2>16 DEF vars, TypeInv, TypeOK, Peer, parser, disk, loop, effects
    <2> QED
        BY <2>1, <2>2, <2>3, <2>4, <2>5, <2>8, <2>9, <2>10, <2>11, <2>12, <2>13, <2>14,
           <2>15, <2>16 DEF Next, ParseStep, SelectStep, LoopStep
<1> QED
    BY <1>1, <1>2, PTL DEF Spec

\* TypeOK for any number of networks and any command lines.
THEOREM TypeCorrect == Spec => []TypeOK
<1>1. TypeInv => TypeOK
    BY DEF TypeInv
<1> QED
    BY <1>1, TypeInvHolds, PTL
-----------------------------------------------------------------------------
(* Which command is where, and what it has in hand.                         *)

Early == {"args", "start", "select", "peer", "peerlock", "serve"}
Checking == {"check", "build", "apply"}

\* Nothing has happened yet.
Fresh ==
    /\ names = <<>> /\ turn = 1 /\ worst = 0
    /\ said = [n \in Network |-> "nothing"]
    /\ conf = [n \in Network |-> Old] /\ live = [n \in Network |-> Old]
    /\ ledger = {}
    /\ locks \subseteq (IF pc = "serve" THEN {Peer} ELSE {})

ControlInv ==
    /\ pc \in Early => Fresh
    /\ pc = "start" => args.command # None
    /\ pc \in {"select"} \cup Looping => args.command \in Commands \ {"peer"}
    /\ pc \in {"peer", "peerlock", "serve"} => args.command = "peer"
    /\ pc \in Looping \ {"load"} =>
        loaded \in Copy /\ loaded.of = This /\ args.command \in Checking
    /\ pc \in Looping \ {"load", "check"} =>
        loaded.state \in Checks /\ args.command # "check"
    /\ pc = "write" => args.command = "build"
    /\ pc \in {"lock", "install", "reload"} => args.command = "apply"
    /\ pc = "reload" => ~ Dry /\ conf[This] = loaded
    /\ \A i, j \in DOMAIN names : names[i] = names[j] => i = j
    /\ pc # "exit" => code = None

\* Wherever the command ends.
LEMMA EndKeepsControl ==
    ASSUME ControlInv, pc' = "exit", UNCHANGED names
    PROVE  ControlInv'
    BY DEF ControlInv, Early, Looping

\* The next network, or the end.
LEMMA ProceedKeepsControl ==
    ASSUME ControlInv, pc \in Looping, NEW w, Proceed(w), UNCHANGED <<names, parser>>
    PROVE  ControlInv'
<1>1. CASE pc' = "exit"
    BY <1>1, EndKeepsControl
<1>2. CASE pc' = "load" /\ UNCHANGED code
    BY <1>2 DEF ControlInv, parser, Early, Looping
<1> QED
    BY <1>1, <1>2 DEF Proceed, Goto, Exit

LEMMA FailKeepsControl ==
    ASSUME ControlInv, pc \in Looping, NEW w, Fail(w), UNCHANGED parser
    PROVE  ControlInv'
    BY ProceedKeepsControl DEF Fail

LEMMA SucceedKeepsControl ==
    ASSUME ControlInv, pc \in Looping, Succeed, UNCHANGED parser
    PROVE  ControlInv'
    BY ProceedKeepsControl DEF Succeed

LEMMA ControlInvHolds == Spec => []ControlInv
<1>1. Init => ControlInv
    BY DEF Init, ControlInv, Fresh, Early, Looping
<1>2. TypeInv /\ ControlInv /\ [Next]_vars => ControlInv'
    <2> SUFFICES ASSUME TypeInv, ControlInv, [Next]_vars PROVE ControlInv'
        OBVIOUS
    <2> USE DEF Looping
    <2>1. CASE Take
        BY <2>1 DEF Take, More, ControlInv, Fresh, Early, disk, loop, effects
    <2>2. CASE \/ Misused \/ Inform \/ SelectUnknown \/ SelectFails \/ SelectAborts
               \/ LoadAborts \/ PeerAborts \/ PeerAnswers \/ PeerChanges
        <3>1. pc' = "exit" /\ UNCHANGED names
            BY <2>2 DEF Misused, Inform, SelectUnknown, SelectFails, SelectAborts,
                LoadAborts, PeerAborts, PeerAnswers, PeerChanges, Exit, loop
        <3> QED
            BY <3>1, EndKeepsControl
    <2>3. CASE Dispatch
        BY <2>3 DEF Dispatch, Goto, ControlInv, Fresh, Early, parser, disk, loop, effects
    <2>4. CASE Start
        <3>1. CASE pc' = "exit"
            BY <2>4, <3>1, EndKeepsControl DEF Start, loop
        <3>2. CASE pc' # "exit"
            <4>1. /\ pc = "start" /\ UNCHANGED <<parser, disk, loop, effects, code>>
                  /\ pc' = IF args.command = "peer" THEN "peer" ELSE "select"
                BY <2>4, <3>2 DEF Start, Goto, Exit
            <4>2. args.command \in Commands
                BY <4>1 DEF ControlInv, TypeInv, TypeOK, Args
            <4> QED
                BY <4>1, <4>2 DEF ControlInv, Fresh, Early, parser, disk, loop, effects
        <3> QED
            BY <3>1, <3>2
    <2>5. ASSUME pc = "select", NEW list \in Seq(Network), Loop(list),
                 \A i, j \in DOMAIN list : list[i] = list[j] => i = j
          PROVE  ControlInv'
        BY <2>5 DEF Loop, Goto, Exit, ControlInv, Fresh, Early, parser
    <2>6. CASE SelectOne
        <3>1. <<Sub>> \in Seq(Network) /\ \A i, j \in DOMAIN <<Sub>> : i = j
            BY <2>6 DEF SelectOne
        <3> QED
            BY <3>1, <2>5, <2>6 DEF SelectOne
    <2>7. CASE SelectAll
        <3>1. PICK f \in Ascending({i \in DOMAIN Names : sources[Names[i]] \in Listed}) :
                Loop([i \in DOMAIN f |-> Names[f[i]]])
            BY <2>7 DEF SelectAll
        <3> DEFINE list == [i \in DOMAIN f |-> Names[f[i]]]
        <3>2. list \in Seq(Network) /\ \A i, j \in DOMAIN list : list[i] = list[j] => i = j
            BY Selection
        <3> QED
            BY <3>1, <3>2, <2>5, <2>7 DEF SelectAll
    <2>8. CASE Load
        <3>1. CASE args.command \in {"list", "network"}
            BY <2>8, <3>1, ProceedKeepsControl DEF Load
        <3>2. CASE args.command \notin {"list", "network"}
            <4>1. names[turn] \in Network
                BY <2>8 DEF Load, TypeInv, TypeOK
            <4>2. /\ pc = "load" /\ pc' = "check" /\ UNCHANGED <<names, turn, code, parser>>
                  /\ loaded' = [of |-> This, state |-> sources[This]]
                BY <2>8, <3>2 DEF Load, Goto
            <4>3. loaded' \in Copy
                BY <4>1, <4>2 DEF Copy, This, TypeInv, TypeOK
            <4>4. args.command \in Checking
                BY <2>8, <3>2 DEF Load, ControlInv, Commands, Checking
            <4> QED
                BY <4>2, <4>3, <4>4 DEF ControlInv, Early, parser, This
        <3> QED
            BY <3>1, <3>2
    <2>9. CASE LoadFails
        <3>1. CASE args.command = "network"
            BY <2>9, <3>1, EndKeepsControl DEF LoadFails, Exit
        <3>2. CASE args.command # "network"
            BY <2>9, <3>2, FailKeepsControl DEF LoadFails
        <3> QED
            BY <3>1, <3>2
    <2>10. CASE Check
        <3>1. CASE Fail(1)
            BY <2>10, <3>1, FailKeepsControl DEF Check
        <3>2. CASE Succeed
            BY <2>10, <3>2, SucceedKeepsControl DEF Check
        <3>3. CASE /\ loaded.state \in Checks /\ args.command # "check"
                   /\ Goto("compile") /\ UNCHANGED loop
            BY <2>10, <3>3 DEF Check, Goto, ControlInv, Early, parser, disk, loop, effects, This
        <3> QED
            BY <2>10, <3>1, <3>2, <3>3 DEF Check
    <2>11. CASE Compile
        <3>1. CASE Fail(3)
            BY <2>11, <3>1, FailKeepsControl DEF Compile
        <3>2. CASE ~ Fail(3)
            <4>1. args.command \in {"build", "apply"}
                BY <2>11 DEF Compile, ControlInv, Checking
            <4> QED
                BY <2>11, <3>2, <4>1
                   DEF Compile, Goto, ControlInv, Early, parser, disk, loop, effects, This
        <3> QED
            BY <3>1, <3>2
    <2>12. CASE Write \/ Plan \/ Reload
        BY <2>12, SucceedKeepsControl DEF Write, Plan, Reload
    <2>13. CASE Lock
        BY <2>13 DEF Lock, Goto, ControlInv, Early, parser, disk, loop, This
    <2>14. CASE Install
        <3>1. names[turn] \in Network
            BY <2>14 DEF Install, TypeInv, TypeOK
        <3>2. conf'[This] = loaded
            BY <2>14, <3>1 DEF Install, This, TypeInv, TypeOK
        <3> QED
            BY <2>14, <3>2 DEF Install, Goto, ControlInv, Early, parser, disk, loop, This, Dry
    <2>15. CASE StepFails
        BY <2>15, FailKeepsControl DEF StepFails
    <2>16. CASE PeerFolder
        BY <2>16, EndKeepsControl
           DEF PeerFolder, Goto, Exit, ControlInv, Fresh, Early, parser, disk, loop, effects
    <2>17. CASE PeerLock
        <3>1. CASE pc' = "exit"
            BY <2>17, <3>1, EndKeepsControl DEF PeerLock, loop
        <3>2. CASE pc' # "exit"
            BY <2>17, <3>2 DEF PeerLock, Goto, Exit, ControlInv, Fresh, Early, Peer,
                               parser, disk, loop
        <3> QED
            BY <3>1, <3>2
    <2>18. CASE Edit
        BY <2>18 DEF Edit, ControlInv, Fresh, Early, Peer, Dry, This, parser, loop, effects
    <2>19. CASE UNCHANGED vars
        BY <2>19 DEF vars, ControlInv, Fresh, Early, Peer, Dry, This, parser, disk, loop, effects
    <2> QED
        BY <2>1, <2>2, <2>3, <2>4, <2>6, <2>7, <2>8, <2>9, <2>10, <2>11, <2>12, <2>13, <2>14,
           <2>15, <2>16, <2>17, <2>18, <2>19
           DEF Next, ParseStep, SelectStep, LoopStep, PeerStep
<1> QED
    BY <1>1, <1>2, TypeInvHolds, PTL DEF Spec
-----------------------------------------------------------------------------
(* What is installed, and where.                                            *)

Quiet ==
    Take \/ Misused \/ Inform \/ Dispatch \/ Start \/ SelectOne \/ SelectUnknown
    \/ SelectAll \/ SelectFails \/ SelectAborts \/ Load \/ LoadFails \/ LoadAborts
    \/ Check \/ Compile \/ Plan \/ PeerFolder \/ PeerAborts \/ PeerAnswers
    \/ Edit \/ UNCHANGED vars

\* What a step may do to the files and the interfaces.
LEMMA Effects ==
    ASSUME TypeInv, ControlInv, [Next]_vars
    PROVE  \/ UNCHANGED effects
           \/ /\ pc \in {"write", "lock", "install", "reload"}
              /\ conf' \in {conf, [conf EXCEPT ![This] = loaded]}
              /\ live' \in {live, [live EXCEPT ![This] = loaded]}
              /\ UNCHANGED <<ledger, args, names>>
              /\ locks' \in {locks, locks \cup {This}}
              /\ UNCHANGED <<conf, live>> \/ args.command = "build" \/ ~ Dry
              /\ code' # "2"
           \/ /\ pc \in {"peerlock", "serve"}
              /\ \E new \in {c \in Copy : c.of = Peer /\ c.state = "sound"} :
                    /\ conf' \in {conf, [conf EXCEPT ![Peer] = new]}
                    /\ live' \in {live, [live EXCEPT ![Peer] = new]}
              /\ ledger' \in {ledger, ledger \cup {Peer}}
              /\ UNCHANGED <<args, names>>
              /\ locks' \in {locks, locks \cup {Peer}}
              /\ UNCHANGED <<conf, live, ledger>> \/ ~ Dry
              /\ code' # "2"
<1>1. CASE Quiet
    BY <1>1 DEF Quiet, Take, Misused, Inform, Dispatch, Start, SelectOne, SelectUnknown,
        SelectAll, SelectFails, SelectAborts, Load, LoadFails, LoadAborts, Check, Compile,
        Plan, PeerFolder, PeerAborts, PeerAnswers, Edit, Loop, effects, vars
<1>2. ASSUME pc \in Looping, args.command \notin {"list", "network"},
             \/ Succeed \/ \E w \in {0, 1, 3} : Fail(w)
      PROVE  UNCHANGED names /\ code' # "2"
    BY <1>2 DEF Succeed, Fail, Proceed, Goto, Exit, Status, ControlInv, Looping, None
<1>3. CASE Write \/ Reload
    <2>1. args.command = "build" \/ (~ Dry /\ conf[This] = loaded)
        BY <1>3 DEF Write, Reload, ControlInv
    <2>2. args.command \notin {"list", "network"}
        BY <1>3 DEF Write, Reload, ControlInv, Checking, Looping
    <2>3. UNCHANGED names /\ code' # "2"
        BY <1>2, <1>3, <2>2 DEF Write, Reload, Looping
    <2> QED
        BY <1>3, <2>1, <2>3 DEF Write, Reload, ControlInv, parser
<1>4. CASE Lock \/ Install
    BY <1>4 DEF Lock, Install, Goto, parser, loop, ControlInv, None
<1>5. CASE StepFails
    <2>1. pc = "reload" => ~ Dry /\ conf[This] = loaded
        BY DEF ControlInv
    <2>2. args.command \notin {"list", "network"} /\ pc \in Looping
        BY <1>5 DEF StepFails, ControlInv, Checking, Looping
    <2>3. UNCHANGED names /\ code' # "2"
        BY <1>2, <1>5, <2>2 DEF StepFails
    <2> QED
        BY <1>5, <2>1, <2>3 DEF StepFails, parser
<1>6. CASE PeerLock \/ PeerChanges
    <2>1. Peer \in Network /\ [of |-> Peer, state |-> "sound"] \in Copy
        BY <1>6 DEF PeerLock, PeerChanges, TypeInv, Copy, Sources
    <2> QED
        BY <1>6, <2>1 DEF PeerLock, PeerChanges, Goto, Exit, parser, loop, ControlInv, None
<1> QED
    BY <1>1, <1>3, <1>4, <1>5, <1>6
       DEF Quiet, Next, ParseStep, SelectStep, LoopStep, PeerStep

\* Once the networks are selected, nothing is misused any more.
LEMMA LaterSteps ==
    ASSUME ControlInv, [Next]_vars, pc \notin Early \ {"serve"}
    PROVE  UNCHANGED <<args, names>> /\ (code' = "2" => code = "2")
<1>1. ASSUME pc \in Looping, Succeed \/ \E w \in {0, 1, 3} : Fail(w)
      PROVE  UNCHANGED names /\ code' # "2"
    BY <1>1 DEF Succeed, Fail, Proceed, Goto, Exit, Status, ControlInv, Looping, None
<1>2. CASE Load \/ LoadFails
    <2>1. code = None
        BY <1>2 DEF Load, LoadFails, ControlInv
    <2> QED
        BY <1>1, <1>2, <2>1
           DEF Load, LoadFails, Proceed, Goto, Exit, Status, parser, Looping, None
<1>3. CASE Check \/ Compile
    BY <1>1, <1>3 DEF Check, Compile, Goto, parser, loop, Looping
<1>4. CASE Write \/ Plan \/ Reload
    BY <1>1, <1>4 DEF Write, Plan, Reload, parser, Looping
<1>5. CASE StepFails
    BY <1>1, <1>5 DEF StepFails, parser, Looping
<1>6. CASE LoadAborts \/ PeerAborts \/ PeerAnswers \/ PeerChanges
    BY <1>6 DEF LoadAborts, PeerAborts, PeerAnswers, PeerChanges, Exit, parser, loop
<1>7. CASE Lock \/ Install \/ Edit \/ UNCHANGED vars
    BY <1>7 DEF Lock, Install, Edit, Goto, parser, loop, vars
<1>8. CASE \/ ParseStep \/ SelectStep \/ PeerFolder \/ PeerLock
    BY <1>8 DEF ParseStep, Take, More, Misused, Inform, Dispatch, SelectStep, Start, SelectOne,
        SelectUnknown, SelectAll, SelectFails, SelectAborts, PeerFolder, PeerLock, Early
<1> QED
    BY <1>2, <1>3, <1>4, <1>5, <1>6, <1>7, <1>8 DEF Next, LoopStep, PeerStep

\* InstalledIsOwn for any number of networks: no conf is compiled from another
\* network, or from one that did not load or pass the check.
THEOREM InstallsOwn == Spec => []InstalledIsOwn
<1>1. Init => InstalledIsOwn
    BY DEF Init, InstalledIsOwn
<1>2. TypeInv /\ ControlInv /\ InstalledIsOwn /\ [Next]_vars => InstalledIsOwn'
    <2> SUFFICES ASSUME TypeInv, ControlInv, InstalledIsOwn, [Next]_vars
                 PROVE  InstalledIsOwn'
        OBVIOUS
    <2>1. ASSUME NEW m \in Network, NEW new,
                 new # Old => new.of = m /\ new.state \in Checks,
                 conf' \in {conf, [conf EXCEPT ![m] = new]},
                 live' \in {live, [live EXCEPT ![m] = new]}
          PROVE  InstalledIsOwn'
        BY <2>1 DEF InstalledIsOwn, TypeInv, TypeOK
    <2>2. CASE UNCHANGED effects
        BY <2>2 DEF effects, InstalledIsOwn
    <2>3. CASE /\ pc \in {"write", "lock", "install", "reload"}
               /\ conf' \in {conf, [conf EXCEPT ![This] = loaded]}
               /\ live' \in {live, [live EXCEPT ![This] = loaded]}
        <3>1. This \in Network
            BY <2>3 DEF TypeInv, TypeOK, Looping, This
        <3>2. loaded.of = This /\ loaded.state \in Checks
            BY <2>3 DEF ControlInv, Looping
        <3> QED
            BY <3>1, <3>2, <2>1, <2>3
    <2>4. CASE /\ pc \in {"peerlock", "serve"}
               /\ \E new \in {c \in Copy : c.of = Peer /\ c.state = "sound"} :
                    /\ conf' \in {conf, [conf EXCEPT ![Peer] = new]}
                    /\ live' \in {live, [live EXCEPT ![Peer] = new]}
        <3>1. Peer \in Network /\ "sound" \in Checks
            BY <2>4 DEF TypeInv, Checks
        <3> QED
            BY <3>1, <2>1, <2>4
    <2> QED
        BY <2>2, <2>3, <2>4, Effects
<1> QED
    BY <1>1, <1>2, TypeInvHolds, ControlInvHolds, PTL DEF Spec

\* TouchesOnlyIts for any number of networks.
THEOREM TouchesNothingElse == Spec => []TouchesOnlyIts
<1>1. Init => TouchesOnlyIts
    BY DEF Init, TouchesOnlyIts, Touched
<1>2. TypeInv /\ ControlInv /\ TouchesOnlyIts /\ [Next]_vars => TouchesOnlyIts'
    <2> SUFFICES ASSUME TypeInv, ControlInv, TouchesOnlyIts, [Next]_vars
                 PROVE  TouchesOnlyIts'
        OBVIOUS
    <2>1. CASE UNCHANGED effects
        <3>1. CASE pc \in Early \ {"serve"}
            <4>1. \A n \in Network : ~ Touched(n) /\ n \notin locks
                BY <3>1 DEF ControlInv, Fresh, Touched, Early
            <4>2. \A n \in Network : ~ Touched(n)' /\ n \notin locks'
                BY <4>1, <2>1 DEF effects, Touched
            <4> QED
                BY <4>2 DEF TouchesOnlyIts
        <3>2. CASE pc \notin Early \ {"serve"}
            <4>1. UNCHANGED <<args, names>> /\ (code' = "2" => code = "2")
                BY <3>2, LaterSteps
            <4> QED
                BY <4>1, <2>1 DEF TouchesOnlyIts, Touched, Its, Peer, Dry, effects
        <3> QED
            BY <3>1, <3>2
    <2>2. CASE /\ pc \in {"write", "lock", "install", "reload"}
               /\ conf' \in {conf, [conf EXCEPT ![This] = loaded]}
               /\ live' \in {live, [live EXCEPT ![This] = loaded]}
               /\ UNCHANGED <<ledger, args, names>>
               /\ locks' \in {locks, locks \cup {This}}
               /\ UNCHANGED <<conf, live>> \/ args.command = "build" \/ ~ Dry
               /\ code' # "2"
        <3>1. This \in Range(names) /\ args.command \in {"build", "apply"}
            BY <2>2 DEF ControlInv, TypeInv, TypeOK, Looping, This, Range, Checking
        <3>2. \A n \in Network : Its(n)' = Its(n)
            BY <2>2 DEF Its, Peer
        <3>3. Its(This)
            BY <3>1 DEF Its
        <3>4. \A n \in Network : Touched(n)' =>
                \/ Touched(n)
                \/ n = This /\ (args.command = "build" \/ ~ Dry)
            BY <2>2 DEF Touched, TypeInv, TypeOK
        <3>5. \A n \in Network : n \in locks' => n \in locks \/ n = This
            BY <2>2
        <3>6. \A n \in Network :
                /\ Touched(n)' => Its(n) /\ (Dry => args.command = "build")
                /\ n \in locks' => Its(n)
            BY <3>3, <3>4, <3>5 DEF TouchesOnlyIts
        <3>7. Dry' = Dry /\ args' = args /\ code' # "2"
            BY <2>2 DEF Dry
        <3> QED
            BY <3>2, <3>6, <3>7 DEF TouchesOnlyIts
    <2>3. CASE /\ pc \in {"peerlock", "serve"}
               /\ \E new \in {c \in Copy : c.of = Peer /\ c.state = "sound"} :
                    /\ conf' \in {conf, [conf EXCEPT ![Peer] = new]}
                    /\ live' \in {live, [live EXCEPT ![Peer] = new]}
               /\ ledger' \in {ledger, ledger \cup {Peer}}
               /\ UNCHANGED <<args, names>>
               /\ locks' \in {locks, locks \cup {Peer}}
               /\ UNCHANGED <<conf, live, ledger>> \/ ~ Dry
               /\ code' # "2"
        <3>1. args.command = "peer" /\ Its(Peer)
            BY <2>3 DEF ControlInv, Its
        <3>2. \A n \in Network : ~ Touched(n) /\ (n \in locks => n = Peer)
            BY <2>3 DEF ControlInv, Fresh, Touched, Early
        <3>3. \A n \in Network : Touched(n)' => n = Peer /\ ~ Dry
            BY <2>3, <3>2 DEF Touched, TypeInv, TypeOK
        <3>4. \A n \in Network : n \in locks' => n = Peer
            BY <2>3, <3>2
        <3>5. \A n \in Network : Its(n)' = Its(n)
            BY <2>3 DEF Its, Peer
        <3>6. \A n \in Network :
                /\ Touched(n)' => Its(n) /\ (Dry => args.command = "build")
                /\ n \in locks' => Its(n)
            BY <3>1, <3>3, <3>4
        <3>7. Dry' = Dry /\ args' = args /\ code' # "2"
            BY <2>3 DEF Dry
        <3> QED
            BY <3>5, <3>6, <3>7 DEF TouchesOnlyIts
    <2> QED
        BY <2>1, <2>2, <2>3, Effects
<1> QED
    BY <1>1, <1>2, TypeInvHolds, ControlInvHolds, PTL DEF Spec
-----------------------------------------------------------------------------
(* Turns and exit codes.                                                    *)

TallyInv ==
    /\ pc \in Looping =>
        /\ \A i \in DOMAIN names : said[names[i]] = "nothing" <=> i >= turn
        /\ worst = 0 <=> \A i \in 1..(turn - 1) : said[names[i]] = "ok"
    /\ args.command \in Checking => \A n \in Network : said[n] = "ok" => Done(n)
    /\ ExitHonest
    /\ TurnForAll

\* What is installed stays installed, so what is done stays done.
LEMMA DoneStays ==
    ASSUME TallyInv, UNCHANGED args, args.command \in Checking,
           NEW n \in Network, said[n] = "ok", said'[n] = "ok",
           conf[n] # Old => conf'[n] # Old, live[n] # Old => live'[n] # Old
    PROVE  Done(n)'
<1>1. Done(n)
    BY DEF TallyInv
<1> QED
    BY <1>1 DEF Done, Dry

\* The tally after one more network.
LEMMA Counted ==
    ASSUME TypeInv, ControlInv, TallyInv, pc \in Looping, UNCHANGED <<names, args>>,
           NEW w \in {0, 1, 3}, NEW what \in {"ok", "error"}, Say(what), Proceed(w),
           what = "ok" => w = worst, what = "error" => w # 0,
           \A n \in Network :
                (conf[n] # Old => conf'[n] # Old) /\ (live[n] # Old => live'[n] # Old),
           \A n \in Network :
                args.command \in Checking /\ what = "ok" /\ n = This => Done(n)'
    PROVE  TallyInv'
<1>1. /\ Len(names) \in Nat /\ turn \in 1..Len(names) /\ DOMAIN names = 1..Len(names)
      /\ \A i \in 1..Len(names) : names[i] \in Network
      /\ said \in [Network -> {"nothing", "ok", "error"}]
    BY DEF TypeInv, TypeOK
<1>2. \A i, j \in 1..Len(names) : names[i] = names[j] => i = j
    BY <1>1 DEF ControlInv
<1>3. turn' = turn + 1 /\ worst' = w /\ said' = [said EXCEPT ![names[turn]] = what]
    BY DEF Proceed, Say, This
<1>4. \A i \in 1..Len(names) :
        said'[names[i]] = IF i = turn THEN what ELSE said[names[i]]
    BY <1>1, <1>2, <1>3
<1>5. \A i \in 1..Len(names) : said'[names[i]] = "nothing" <=> i >= turn'
    <2>1. \A i \in 1..Len(names) : said[names[i]] = "nothing" <=> i >= turn
        BY <1>1 DEF TallyInv
    <2> QED
        BY <2>1, <1>1, <1>3, <1>4
<1>6. worst' = 0 <=> \A i \in 1..turn : said'[names[i]] = "ok"
    <2>1. worst = 0 <=> \A i \in 1..(turn - 1) : said[names[i]] = "ok"
        BY DEF TallyInv
    <2>2. \A i \in 1..(turn - 1) : said'[names[i]] = said[names[i]]
        BY <1>1, <1>4
    <2>3. said'[names[turn]] = what
        BY <1>1, <1>4
    <2>4. CASE what = "ok"
        BY <2>1, <2>2, <2>3, <2>4, <1>1, <1>3
    <2>5. CASE what = "error"
        BY <2>3, <2>5, <1>1, <1>3
    <2> QED
        BY <2>4, <2>5
<1>7. ASSUME args.command \in Checking, NEW n \in Network, said'[n] = "ok"
      PROVE  Done(n)'
    <2>1. CASE n = names[turn]
        <3>1. what = "ok"
            BY <2>1, <1>1, <1>3, <1>7
        <3> QED
            BY <3>1, <2>1, <1>7 DEF This
    <2>2. CASE n # names[turn]
        <3>1. said[n] = "ok"
            BY <2>2, <1>1, <1>3, <1>7
        <3> QED
            BY <3>1, <1>7, DoneStays
    <2> QED
        BY <2>1, <2>2
<1>8. ASSUME pc' = "exit" PROVE turn = Len(names)
    <2>1. turn < Len(names) => pc' = "load"
        BY DEF Proceed, Goto
    <2>2. ~ (turn < Len(names))
        BY <2>1, <1>8
    <2>3. turn \in Int /\ Len(names) \in Int /\ turn <= Len(names)
        BY <1>1
    <2> QED
        BY <2>2, <2>3
<1>9. ExitHonest'
    <2> SUFFICES ASSUME pc' = "exit", args.command \in Checking
                 PROVE  code' = "0" <=> \A n \in Range(names) : Done(n)'
        BY DEF ExitHonest, Checking
    <2>1. code' = "0" <=> w = 0
        BY <1>1, <1>8 DEF Proceed, Exit, Status, Checking
    <2>2. w = 0 <=> \A n \in Range(names) : said'[n] = "ok"
        BY <1>1, <1>3, <1>6, <1>8 DEF Range
    <2>3. \A n \in Range(names) : n \in Network /\ (Done(n)' <=> said'[n] = "ok")
        BY <1>1, <1>7 DEF Range, Done
    <2> QED
        BY <2>1, <2>2, <2>3
<1>10. TurnForAll'
    <2> SUFFICES ASSUME pc' = "exit" PROVE \A n \in Range(names) : said'[n] # "nothing"
        BY DEF TurnForAll
    <2> QED
        BY <1>1, <1>3, <1>5, <1>8 DEF Range
<1>11. pc' \in Looping =>
        /\ \A i \in DOMAIN names' : said'[names'[i]] = "nothing" <=> i >= turn'
        /\ worst' = 0 <=> \A i \in 1..(turn' - 1) : said'[names'[i]] = "ok"
    <2>1. turn' - 1 = turn
        BY <1>1, <1>3
    <2> QED
        BY <2>1, <1>1, <1>5, <1>6
<1> QED
    BY <1>7, <1>9, <1>10, <1>11 DEF TallyInv

\* A step within the turn of a network.
LEMMA Continued ==
    ASSUME TypeInv, TallyInv, pc \in Looping, pc' \in Looping,
           UNCHANGED <<args, names, turn, worst, said>>,
           \A n \in Network :
                (conf[n] # Old => conf'[n] # Old) /\ (live[n] # Old => live'[n] # Old)
    PROVE  TallyInv'
<1>1. \A n \in Network : args.command \in Checking /\ said'[n] = "ok" => Done(n)'
    BY DoneStays
<1>2. pc' # "exit"
    BY DEF Looping
<1> QED
    BY <1>1, <1>2 DEF TallyInv, ExitHonest, TurnForAll

\* Before the first turn.
LEMMA Started ==
    ASSUME TypeInv', ControlInv, pc \in Early, pc' \notin Looping \/ turn' = 1,
           UNCHANGED <<worst, said>>, pc' \in Looping \/ names' = <<>>
    PROVE  TallyInv'
<1>1. worst' = 0 /\ \A n \in Network : said'[n] = "nothing"
    BY DEF ControlInv, Fresh
<1>2. CASE pc' \in Looping /\ turn' = 1 /\ names' \in Seq(Network)
    <2>1. pc' # "exit"
        BY <1>2 DEF Looping
    <2>2. \A i \in DOMAIN names' : i >= 1 /\ said'[names'[i]] = "nothing"
        BY <1>1, <1>2
    <2> QED
        BY <1>1, <1>2, <2>1, <2>2 DEF TallyInv, ExitHonest, TurnForAll
<1>3. CASE pc' \notin Looping /\ names' = <<>>
    BY <1>1, <1>3 DEF TallyInv, ExitHonest, TurnForAll, Range
<1> QED
    BY <1>2, <1>3 DEF TypeInv, TypeOK

LEMMA TallyInvHolds == Spec => []TallyInv
<1>1. Init => TallyInv
    BY DEF Init, TallyInv, ExitHonest, TurnForAll, Looping
<1>2. TypeInv /\ TypeInv' /\ ControlInv /\ TallyInv /\ [Next]_vars => TallyInv'
    <2> SUFFICES ASSUME TypeInv, TypeInv', ControlInv, TallyInv, [Next]_vars
                 PROVE  TallyInv'
        OBVIOUS
    <2>1. CASE ParseStep
        <3>1. /\ pc \in Early /\ pc' \in {"args", "exit", "start"} /\ names = <<>>
              /\ UNCHANGED <<worst, said, names>>
            BY <2>1 DEF ParseStep, Take, More, Misused, Inform, Dispatch, Goto, Exit, loop,
                        Early, ControlInv, Fresh
        <3> QED
            BY <3>1, Started DEF Looping
    <2>2. CASE SelectStep
        <3>1. /\ pc \in Early /\ names = <<>> /\ UNCHANGED <<worst, said>>
              /\ \/ names' = <<>> /\ pc' \in {"exit", "select", "peer"}
                 \/ pc' = "load" /\ turn' = 1
            <4>1. CASE SelectOne \/ SelectAll
                <5>1. PICK list : Loop(list) /\ pc = "select"
                    BY <4>1 DEF SelectOne, SelectAll
                <5> QED
                    BY <5>1 DEF Loop, Goto, Exit, Early, ControlInv, Fresh
            <4>2. CASE Start \/ SelectUnknown \/ SelectFails \/ SelectAborts
                BY <4>2 DEF Start, SelectUnknown, SelectFails, SelectAborts,
                            Goto, Exit, loop, Early, ControlInv, Fresh
            <4> QED
                BY <4>1, <4>2, <2>2 DEF SelectStep
        <3> QED
            BY <3>1, Started DEF Looping
    <2>3. CASE PeerStep
        <3>1. /\ pc \in Early /\ pc' \in {"exit", "peerlock", "serve"} /\ names = <<>>
              /\ UNCHANGED <<worst, said, names>>
            BY <2>3 DEF PeerStep, PeerFolder, PeerLock, PeerAborts, PeerAnswers, PeerChanges,
                        Goto, Exit, loop, Early, ControlInv, Fresh
        <3> QED
            BY <3>1, Started DEF Looping
    <2>4. CASE Load
        <3>1. UNCHANGED <<args, conf, live>> /\ pc \in Looping
            BY <2>4 DEF Load, parser, effects, Looping
        <3>2. CASE args.command \in {"list", "network"}
            <4>1. Proceed(worst) /\ Say("ok") /\ UNCHANGED names /\ worst \in {0, 1, 3}
                BY <2>4, <3>2 DEF Load, TypeInv, TypeOK
            <4> QED
                BY <4>1, <3>1, <3>2, Counted DEF Checking
        <3>3. CASE args.command \notin {"list", "network"}
            BY <3>1, <3>3, <2>4, Continued DEF Load, Goto, Looping
        <3> QED
            BY <3>2, <3>3
    <2>5. ASSUME pc \in Looping, NEW w \in {1, 3}, Fail(w), UNCHANGED <<args, conf>>,
                 \A n \in Network : live[n] # Old => live'[n] # Old
          PROVE  TallyInv'
        BY <2>5, Counted DEF Fail
    <2>6. ASSUME pc \in Looping, Succeed, UNCHANGED args,
                 \A n \in Network :
                    (conf[n] # Old => conf'[n] # Old) /\ (live[n] # Old => live'[n] # Old),
                 args.command = "build" => conf'[This] # Old,
                 args.command = "apply" /\ ~ Dry => conf'[This] # Old /\ live'[This] # Old
          PROVE  TallyInv'
        <3>1. Say("ok") /\ Proceed(worst) /\ UNCHANGED names /\ worst \in {0, 1, 3}
            BY <2>6 DEF Succeed, TypeInv, TypeOK
        <3>2. This \in Network /\ said'[This] = "ok"
            BY <3>1, <2>6 DEF Say, TypeInv, TypeOK, This, Looping
        <3>3. \A n \in Network : n = This => Done(n)'
            BY <3>2, <2>6 DEF Done, Dry
        <3> QED
            BY <3>1, <3>3, <2>6, Counted
    <2>7. CASE LoadFails
        <3>1. CASE args.command = "network"
            <4>1. pc' = "exit" /\ args' = args
                BY <2>7, <3>1 DEF LoadFails, Exit, parser
            <4> QED
                BY <4>1, <3>1 DEF TallyInv, Looping, Checking, ExitHonest, TurnForAll
        <3>2. CASE args.command # "network"
            BY <2>7, <3>2, <2>5 DEF LoadFails, Looping, parser, effects
        <3> QED
            BY <3>1, <3>2
    <2>8. CASE LoadAborts
        <3>1. /\ pc = "load" /\ pc' = "exit" /\ code' = "abort"
              /\ UNCHANGED <<args, names, turn, said, conf, live>>
            BY <2>8 DEF LoadAborts, Exit, parser, loop, effects
        <3>2. This \in Range(names) /\ said[This] = "nothing"
            BY <3>1 DEF TypeInv, TypeOK, TallyInv, Looping, This, Range
        <3>3. \A n \in Network : Done(n)' = Done(n)
            BY <3>1 DEF Done, Dry
        <3>4. ~ Done(This)
            BY <3>2 DEF Done
        <3>5. This \in Network
            BY <3>1 DEF TypeInv, TypeOK, Looping, This
        <3>6. ~ \A n \in Range(names) : Done(n)'
            BY <3>2, <3>3, <3>4, <3>5
        <3> QED
            BY <3>1, <3>3, <3>6 DEF TallyInv, Looping, ExitHonest, TurnForAll
    <2>9. CASE Check
        <3>1. UNCHANGED <<args, conf, live>> /\ pc \in Looping
            BY <2>9 DEF Check, parser, effects, Looping
        <3>2. CASE Fail(1)
            BY <3>1, <3>2, <2>5
        <3>3. CASE Succeed /\ args.command = "check"
            BY <3>1, <3>3, <2>6
        <3>4. CASE Goto("compile") /\ UNCHANGED loop
            BY <3>1, <3>4, Continued DEF Goto, loop, Looping
        <3> QED
            BY <2>9, <3>2, <3>3, <3>4 DEF Check
    <2>10. CASE Compile
        <3>1. UNCHANGED <<args, conf, live>> /\ pc \in Looping
            BY <2>10 DEF Compile, parser, effects, Looping
        <3>2. CASE Fail(3)
            BY <3>1, <3>2, <2>5
        <3>3. CASE ~ Fail(3)
            BY <2>10, <3>1, <3>3, Continued DEF Compile, Goto, loop, Looping
        <3> QED
            BY <3>2, <3>3
    <2>11. pc \in {"write", "lock", "install", "reload"} =>
             /\ loaded # Old /\ This \in Network
             /\ \A m \in Network : conf[m] # Old => [conf EXCEPT ![This] = loaded][m] # Old
             /\ \A m \in Network : live[m] # Old => [live EXCEPT ![This] = loaded][m] # Old
             /\ [conf EXCEPT ![This] = loaded][This] = loaded
             /\ [live EXCEPT ![This] = loaded][This] = loaded
        <3> SUFFICES ASSUME pc \in {"write", "lock", "install", "reload"}
                     PROVE  loaded # Old /\ This \in Network
            BY DEF TypeInv, TypeOK
        <3>1. This \in Network /\ loaded.of = This
            BY DEF TypeInv, TypeOK, ControlInv, Looping, This
        <3>2. loaded.of # None
            BY <3>1, CommandLineAssumption
        <3> QED
            BY <3>1, <3>2 DEF Old
    <2>12. CASE Write
        <3>1. args.command = "build" /\ pc \in Looping
            BY <2>12 DEF Write, ControlInv, Looping
        <3> QED
            BY <3>1, <2>6, <2>11, <2>12 DEF Write, parser
    <2>13. CASE Plan
        <3>1. args.command = "apply" /\ pc \in Looping
            BY <2>13 DEF Plan, ControlInv, Looping
        <3> QED
            BY <3>1, <2>6, <2>13 DEF Plan, parser, effects
    <2>14. CASE Reload
        <3>1. args.command = "apply" /\ pc \in Looping /\ conf[This] = loaded
            BY <2>14 DEF Reload, ControlInv, Looping
        <3> QED
            BY <3>1, <2>6, <2>11, <2>14 DEF Reload, parser
    <2>15. CASE Lock \/ Install
        <3>1. /\ pc \in Looping /\ pc' \in Looping
              /\ UNCHANGED <<args, names, turn, worst, said, live>>
              /\ \A m \in Network : conf[m] # Old => conf'[m] # Old
            BY <2>15, <2>11 DEF Lock, Install, Goto, parser, loop, Looping
        <3> QED
            BY <3>1, Continued
    <2>16. CASE StepFails
        <3>1. pc = "reload" => conf[This] = loaded
            BY DEF ControlInv
        <3>2. \A m \in Network : live[m] # Old => live'[m] # Old
            BY <3>1, <2>11, <2>16 DEF StepFails
        <3> QED
            BY <3>2, <2>5, <2>16 DEF StepFails, parser, Looping
    <2>17. CASE Edit \/ UNCHANGED vars
        <3>1. UNCHANGED <<args, names, turn, worst, said, conf, live, pc, code>>
            BY <2>17 DEF Edit, vars, parser, loop, effects
        <3>2. \A n \in Network : Done(n)' = Done(n)
            BY <3>1 DEF Done, Dry
        <3>3. Range(names) \subseteq Network
            BY DEF TypeInv, TypeOK, Range
        <3> QED
            BY <3>1, <3>2, <3>3 DEF TallyInv, ExitHonest, TurnForAll
    <2> QED
        BY <2>1, <2>2, <2>3, <2>4, <2>7, <2>8, <2>9, <2>10, <2>12, <2>13, <2>14, <2>15,
           <2>16, <2>17 DEF Next, LoopStep
<1> QED
    BY <1>1, <1>2, TypeInvHolds, ControlInvHolds, PTL DEF Spec

\* ExitHonest for any number of networks, whatever fails in whatever order.
THEOREM ExitsHonestly == Spec => []ExitHonest
<1>1. TallyInv => ExitHonest
    BY DEF TallyInv
<1> QED
    BY <1>1, TallyInvHolds, PTL

\* TurnForAll for any number of networks: no failure costs another its turn.
THEOREM EveryTurn == Spec => []TurnForAll
<1>1. TallyInv => TurnForAll
    BY DEF TallyInv
<1> QED
    BY <1>1, TallyInvHolds, PTL-----------------------------------------------------------------------------
(***************************************************************************)
(* The parser.                                                              *)
(***************************************************************************)
\* Which tokens of a command line are values, up to the m-th.
Marks(m, V) ==
    /\ V \in SUBSET (1..m)
    /\ \A i \in 1..m : i \in V <=> i > 1 /\ i - 1 \notin V /\ argv[i - 1] \in Takers

\* A set of numbers that is not empty has a least element.
LEMMA Least ==
    ASSUME NEW S \in SUBSET Nat, S # {}
    PROVE  \E m \in S : \A n \in S : m <= n
<1>1. PICK m \in S : \A n \in S : ~ (<<n, m>> \in OpToRel(<, Nat))
    BY NatLessThanWellFounded, WFMin
<1>2. \A n \in S : ~ (n < m)
    BY <1>1, Zenon DEF OpToRel
<1>3. m \in Nat /\ \A n \in S : n \in Nat
    OBVIOUS
<1>4. \A n \in S : m <= n
    BY <1>2, <1>3
<1> QED
    BY <1>4

\* Each command line has values, in one way at least.
LEMMA ValuesExist ==
    ASSUME NEW n \in Nat
    PROVE  \E V : Marks(n, V)
<1> DEFINE Bad == {m \in Nat : ~ \E V : Marks(m, V)}
<1>1. 0 \notin Bad
    <2>1. Marks(0, {})
        BY DEF Marks
    <2> QED
        BY <2>1
<1>2. ASSUME NEW m \in Nat, m \notin Bad PROVE m + 1 \notin Bad
    <2>1. PICK V : Marks(m, V)
        BY <1>2
    <2> DEFINE more == m > 0 /\ m \notin V /\ argv[m] \in Takers
               W == V \cup (IF more THEN {m + 1} ELSE {})
    <2>2. W \in SUBSET (1..m + 1) /\ \A i \in 1..m : i \in W <=> i \in V
        BY <2>1 DEF Marks
    <2>3. m + 1 \in W <=> more
        BY <2>1 DEF Marks
    <2>4. \A i \in 1..m + 1 : i \in W <=> i > 1 /\ i - 1 \notin W /\ argv[i - 1] \in Takers
        <3>1. ASSUME NEW i \in 1..m
              PROVE  i \in W <=> i > 1 /\ i - 1 \notin W /\ argv[i - 1] \in Takers
            <4>1. i > 1 => i - 1 \in 1..m
                OBVIOUS
            <4>2. i \in V <=> i > 1 /\ i - 1 \notin V /\ argv[i - 1] \in Takers
                BY <2>1 DEF Marks
            <4> QED
                BY <4>1, <4>2, <2>2
        <3>2. m + 1 \in W <=> m + 1 > 1 /\ m + 1 - 1 \notin W /\ argv[m + 1 - 1] \in Takers
            <4>1. m > 0 => (m \in W <=> m \in V)
                BY <2>2
            <4>2. m + 1 - 1 = m /\ (m + 1 > 1 <=> m > 0)
                OBVIOUS
            <4> QED
                BY <2>3, <4>1, <4>2
        <3> QED
            BY <3>1, <3>2
    <2> HIDE DEF W
    <2>5. Marks(m + 1, W)
        BY <2>2, <2>4 DEF Marks
    <2> QED
        BY <2>5
<1>3. Bad = {}
    <2> SUFFICES ASSUME Bad # {} PROVE FALSE
        OBVIOUS
    <2>1. PICK m \in Bad : \A k \in Bad : m <= k
        BY Least
    <2>2. m - 1 \in Nat /\ m - 1 \notin Bad
        BY <1>1, <2>1
    <2> QED
        BY <1>2, <2>1, <2>2
<1> QED
    BY <1>3

\* Values is what its definition asks for.
LEMMA ValuesAre ==
    ASSUME argv \in Seq(Text)
    PROVE  /\ Values \in SUBSET DOMAIN argv
           /\ \A i \in DOMAIN argv :
                i \in Values <=> i > 1 /\ i - 1 \notin Values /\ argv[i - 1] \in Takers
<1>1. Len(argv) \in Nat /\ DOMAIN argv = 1..Len(argv)
    OBVIOUS
<1>2. PICK V : Marks(Len(argv), V)
    BY <1>1, ValuesExist
<1>3. /\ V \in SUBSET DOMAIN argv
      /\ \A i \in DOMAIN argv : i \in V <=> i > 1 /\ i - 1 \notin V /\ argv[i - 1] \in Takers
    BY <1>1, <1>2 DEF Marks
<1> QED
    BY <1>3 DEF Values

\* A token is a value if the one before it takes one and is none itself.
LEMMA ValueAfter ==
    ASSUME argv \in Seq(Text), NEW i \in DOMAIN argv, i + 1 \in DOMAIN argv
    PROVE  i + 1 \in Values <=> i \notin Values /\ argv[i] \in Takers
<1>1. i \in Nat \ {0}
    OBVIOUS
<1>2. i + 1 \in Values <=>
        i + 1 > 1 /\ (i + 1) - 1 \notin Values /\ argv[(i + 1) - 1] \in Takers
    BY ValuesAre
<1>3. (i + 1) - 1 = i /\ i + 1 > 1
    BY <1>1
<1> QED
    BY <1>2, <1>3

LEMMA MaxIs ==
    ASSUME NEW S \in SUBSET Nat, NEW m \in S, \A n \in S : m >= n
    PROVE  Max(S) = m
<1>1. \A x \in S : (\A n \in S : x >= n) => x = m
    <2>1. \A x, y \in Nat : x >= y /\ y >= x => x = y
        OBVIOUS
    <2> QED
        BY <2>1
<1>2. Max(S) \in S /\ \A n \in S : Max(S) >= n
    BY Zenon DEF Max
<1> QED
    BY <1>1, <1>2

LEMMA MinIs ==
    ASSUME NEW S \in SUBSET Nat, NEW m \in S, \A n \in S : m <= n
    PROVE  Min(S) = m
<1>1. \A x \in S : (\A n \in S : x <= n) => x = m
    <2>1. \A x, y \in Nat : x <= y /\ y <= x => x = y
        OBVIOUS
    <2> QED
        BY <2>1
<1>2. Min(S) \in S /\ \A n \in S : Min(S) <= n
    BY Zenon DEF Min
<1> QED
    BY <1>1, <1>2

\* A number above all others joins an ascending list at its end.
LEMMA AscendingGrows ==
    ASSUME NEW S \in SUBSET Nat, IsFiniteSet(S), NEW a \in Nat, \A i \in S : i < a,
           NEW f \in Ascending(S)
    PROVE  LET c == Cardinality(S)
           IN  /\ c \in Nat /\ DOMAIN f = 1..c
               /\ [i \in 1..c + 1 |-> IF i = c + 1 THEN a ELSE f[i]] \in Ascending(S \cup {a})
<1> DEFINE c == Cardinality(S)
           g == [i \in 1..c + 1 |-> IF i = c + 1 THEN a ELSE f[i]]
<1>1. c \in Nat /\ Cardinality(S \cup {a}) = c + 1
    BY FS_CardinalityType, FS_AddElement
<1>2. f \in [1..c -> S] /\ \A i, j \in 1..c : i < j => f[i] < f[j]
    BY DEF Ascending
<1> HIDE DEF c
<1>3. g \in [1..c + 1 -> S \cup {a}]
    BY <1>1, <1>2
<1>4. ASSUME NEW i \in 1..c + 1, NEW j \in 1..c + 1, i < j PROVE g[i] < g[j]
    <2>1. i \in 1..c /\ g[i] = f[i]
        BY <1>1, <1>4
    <2>2. CASE j = c + 1
        BY <2>1, <2>2, <1>2
    <2>3. CASE j # c + 1
        BY <2>1, <2>3, <1>1, <1>2, <1>4
    <2> QED
        BY <2>2, <2>3
<1>5. g \in Ascending(S \cup {a})
    BY <1>1, <1>3, <1>4 DEF Ascending
<1> QED
    BY <1>1, <1>2, <1>5 DEF c

LEMMA NothingAscends == <<>> \in Ascending({})
BY FS_EmptySet DEF Ascending

-----------------------------------------------------------------------------
\* What has been read so far.
Upto(S) == {i \in S : i < at}
LastUpto(flags) ==
    IF Upto(Given(flags)) = {} THEN None ELSE argv[Max(Upto(Given(flags))) + 1]

\* The arguments are the meaning of the tokens before the next one, which is
\* no value, and nothing in them was wrong.
ReadSoFar ==
    /\ at \in DOMAIN argv => at \notin Values
    /\ Upto(Given(OtherFlags)) = {} /\ Len(argv) \notin Upto(Given(Takers))
    /\ Upto(Words) # {} => argv[Min(Upto(Words))] \in Commands
    /\ args.command = IF Upto(Words) = {} THEN None ELSE argv[Min(Upto(Words))]
    /\ args.dir = LastUpto(DirFlags)
    /\ \E f \in Ascending(Upto(Operands)) :
            args.positionals = [i \in DOMAIN f |-> argv[f[i]]]
    /\ args.flags = [f \in ValueFlags |-> LastUpto({f})]
    /\ args.switches = {argv[i] : i \in Upto(Given(SwitchFlags))}
                       \cup (IF Upto(Given(HelpFlags)) = {} THEN {} ELSE {"--help"})

ParseInv ==
    /\ pc = "args" => ReadSoFar
    /\ pc # "args" => IF Wrong THEN code = "2" /\ pc = "exit" ELSE Understood

\* At the end of the command line everything has been read.
LEMMA AllRead ==
    ASSUME TypeOK, at > Len(argv), NEW S \in SUBSET DOMAIN argv
    PROVE  Upto(S) = S
<1>1. at = Len(argv) + 1 /\ Len(argv) \in Nat /\ DOMAIN argv = 1..Len(argv)
    BY CommandLineAssumption DEF TypeOK
<1> QED
    BY <1>1 DEF Upto

\* A step of the parser reads the token at hand, and its value with it.
LEMMA Advance ==
    ASSUME TypeOK, ReadSoFar, Take
    PROVE  /\ argv' = argv /\ Values' = Values
           /\ at \in DOMAIN argv \ Values /\ at \in Nat /\ at + 1 \in Nat
           /\ Token \in Takers => at < Len(argv)
           /\ (at \in DOMAIN argv => at \notin Values)'
           /\ \A S \in SUBSET (DOMAIN argv \ Values) :
                Upto(S)' = Upto(S) \cup (IF at \in S THEN {at} ELSE {})
<1>1. /\ argv \in Seq(Text) /\ Len(argv) \in Nat /\ DOMAIN argv = 1..Len(argv)
      /\ at \in 1..Len(argv)
    BY CommandLineAssumption DEF TypeOK, Take, More
<1>2. argv' = argv /\ Values' = Values
    BY DEF Take, Values
<1>3. at \notin Values
    BY <1>1 DEF ReadSoFar
<1>4. Token \in Takers => at < Len(argv)
    BY DEF Take, TakeDir, TakeValue, TakeSwitch, TakeCommand, TakePositional, Takers,
           DirFlags, ValueFlags, SwitchFlags, HelpFlags, Commands, Dashed
<1>5. /\ Token \in Takers => at' = at + 2
      /\ Token \notin Takers => at' = at + 1
    BY <1>1 DEF Take, Step, Takers
<1>6. at + 1 \in DOMAIN argv => (at + 1 \in Values <=> Token \in Takers)
    BY <1>1, <1>3, ValueAfter DEF Token
<1>7. Token \in Takers => (at + 2 \in DOMAIN argv => at + 2 \notin Values)
    <2>1. at + 2 \in DOMAIN argv => at + 1 \in DOMAIN argv /\ (at + 1) + 1 = at + 2
        BY <1>1
    <2>2. at + 2 \in DOMAIN argv => (at + 2 \in Values => at + 1 \notin Values)
        BY <1>1, <2>1, ValueAfter
    <2> QED
        BY <2>1, <2>2, <1>6
<1>8. (at \in DOMAIN argv => at \notin Values)'
    BY <1>2, <1>5, <1>6, <1>7
<1>9. ASSUME NEW S \in SUBSET (DOMAIN argv \ Values)
      PROVE  Upto(S)' = Upto(S) \cup (IF at \in S THEN {at} ELSE {})
    <2>1. \A i \in S : i < at' <=> i < at \/ i = at
        <3>1. CASE Token \in Takers
            <4>1. at + 1 \notin S
                BY <3>1, <1>6
            <4> QED
                BY <3>1, <4>1, <1>1, <1>5
        <3>2. CASE Token \notin Takers
            BY <3>2, <1>1, <1>5
        <3> QED
            BY <3>1, <3>2
    <2> QED
        BY <2>1 DEF Upto
<1> QED
    BY <1>1, <1>2, <1>3, <1>4, <1>8, <1>9

\* The last flag read is the one at hand, if it is one of these.
LEMMA LastAdvance ==
    ASSUME TypeOK, ReadSoFar, Take, NEW flags
    PROVE  /\ Given(flags)' = Given(flags)
           /\ LastUpto(flags)' = IF Token \in flags THEN argv[at + 1] ELSE LastUpto(flags)
<1>1. Given(flags)' = Given(flags)
    BY Advance, Zenon DEF Given
<1>2. Given(flags) \in SUBSET (DOMAIN argv \ Values) /\ (at \in Given(flags) <=> Token \in flags)
    BY Advance DEF Given, Token
<1>3. Upto(Given(flags))' = Upto(Given(flags)) \cup (IF at \in Given(flags) THEN {at} ELSE {})
    BY <1>1, <1>2, Advance
<1>4. CASE Token \notin flags
    <2>1. Upto(Given(flags))' = Upto(Given(flags)) /\ argv' = argv
        BY <1>2, <1>3, <1>4, Advance
    <2> QED
        BY <2>1, <1>1, <1>4 DEF LastUpto
<1>5. CASE Token \in flags
    <2>1. Upto(Given(flags)') = Upto(Given(flags))
        BY <1>1
    <2> DEFINE now == Upto(Given(flags)) \cup {at}
    <2>2. Upto(Given(flags))' = now /\ argv' = argv
        BY <1>2, <1>3, <1>5, Advance
    <2>3. now \in SUBSET Nat /\ \A i \in now : at >= i
        <3>1. DOMAIN argv \in SUBSET Nat
            BY CommandLineAssumption DEF TypeOK
        <3> QED
            BY <3>1, <1>2, Advance DEF Upto
    <2>4. Max(now) = at
        BY <2>3, MaxIs
    <2>5. LastUpto(flags)' = IF now = {} THEN None ELSE argv[Max(now) + 1]
        BY <2>2 DEF LastUpto
    <2>6. now # {}
        OBVIOUS
    <2> HIDE DEF now
    <2> QED
        BY <2>4, <2>5, <2>6, <1>1, <1>5
<1> QED
    BY <1>1, <1>4, <1>5

\* Words come one by one; all but the first are operands.
LEMMA WordsAdvance ==
    ASSUME TypeOK, ReadSoFar, Take
    PROVE  /\ Token \in Dashed =>
                Upto(Words)' = Upto(Words) /\ Upto(Operands)' = Upto(Operands)
           /\ Token \notin Dashed =>
                /\ Upto(Words)' = Upto(Words) \cup {at}
                /\ Upto(Operands)' = Upto(Operands) \cup (IF Upto(Words) = {} THEN {} ELSE {at})
           /\ Upto(Words) # {} => (Min(Upto(Words)))' = Min(Upto(Words))
           /\ Upto(Words) \in SUBSET Nat /\ \A i \in Upto(Words) : i < at
           /\ IsFiniteSet(Upto(Operands)) /\ Upto(Operands) \in SUBSET Upto(Words)
<1>1. Words' = Words /\ Operands' = Operands
    BY Advance, Zenon DEF Words, Operands
<1>2. Words \in SUBSET (DOMAIN argv \ Values) /\ Operands \in SUBSET Words
    BY DEF Words, Operands
<1>3. at \in Words <=> Token \notin Dashed
    BY Advance DEF Words, Token
<1>4. DOMAIN argv \in SUBSET Nat /\ IsFiniteSet(DOMAIN argv)
    <2>1. DOMAIN argv = 1..Len(argv) /\ Len(argv) \in Nat
        BY CommandLineAssumption DEF TypeOK
    <2> QED
        BY <2>1, FS_Interval
<1>5. at \in Operands <=> at \in Words /\ Upto(Words) # {}
    BY DEF Operands, Upto
<1>6. /\ Upto(Words)' = Upto(Words) \cup (IF at \in Words THEN {at} ELSE {})
      /\ Upto(Operands)' = Upto(Operands) \cup (IF at \in Operands THEN {at} ELSE {})
    <2>1. \A S \in SUBSET (DOMAIN argv \ Values) :
             {i \in S : i < at'} = {i \in S : i < at} \cup (IF at \in S THEN {at} ELSE {})
        BY Advance DEF Upto
    <2>2. Operands \in SUBSET (DOMAIN argv \ Values)
        BY <1>2
    <2> QED
        BY <1>1, <1>2, <2>1, <2>2 DEF Upto
<1>7. Upto(Words) \in SUBSET Nat /\ \A i \in Upto(Words) : i < at
    BY <1>2, <1>4 DEF Upto
<1>8. IsFiniteSet(Upto(Operands)) /\ Upto(Operands) \in SUBSET Upto(Words)
    <2>1. Upto(Operands) \in SUBSET DOMAIN argv /\ Upto(Operands) \in SUBSET Upto(Words)
        BY <1>2 DEF Upto
    <2> QED
        BY <2>1, <1>4, FS_Subset
<1>9. ASSUME Upto(Words) # {} PROVE (Min(Upto(Words)))' = Min(Upto(Words))
    <2>1. PICK m \in Upto(Words) : \A n \in Upto(Words) : m <= n
        BY <1>7, <1>9, Least
    <2>2. Min(Upto(Words)) = m
        BY <1>7, <2>1, MinIs
    <2> DEFINE more == Upto(Words)'
    <2>3. more \in SUBSET Nat /\ m \in more /\ \A n \in more : m <= n
        BY <1>6, <1>7, <2>1, Advance
    <2>4. Min(more) = m
        BY <2>3, MinIs
    <2> QED
        BY <2>2, <2>4
<1> QED
    BY <1>3, <1>5, <1>6, <1>7, <1>8, <1>9

\* What the parser makes of the token at hand.
LEMMA ArgsAdvance ==
    ASSUME TypeOK, Take
    PROVE  /\ args'.dir = IF Token \in DirFlags THEN argv[at + 1] ELSE args.dir
           /\ args'.flags = IF Token \in ValueFlags
                            THEN [args.flags EXCEPT ![Token] = argv[at + 1]] ELSE args.flags
           /\ args'.switches = args.switches \cup
                (IF Token \in HelpFlags THEN {"--help"}
                 ELSE IF Token \in SwitchFlags THEN {Token} ELSE {})
           /\ Token \in Dashed =>
                args'.command = args.command /\ args'.positionals = args.positionals
           /\ (Token \notin Dashed /\ args.command = None) =>
                /\ Token \in Commands /\ args'.command = Token
                /\ args'.positionals = args.positionals
           /\ (Token \notin Dashed /\ args.command # None) =>
                /\ args'.command = args.command
                /\ args'.positionals = Append(args.positionals, Token)
           /\ Token \notin OtherFlags
<1> USE DEF Dashed, DirFlags, ValueFlags, SwitchFlags, HelpFlags, OtherFlags, Commands
<1>1. args \in Args
    BY DEF TypeOK
<1>2. CASE TakeDir
    BY <1>1, <1>2 DEF TakeDir, Args
<1>3. CASE TakeValue
    BY <1>1, <1>3 DEF TakeValue, Args
<1>4. CASE TakeSwitch
    BY <1>1, <1>4 DEF TakeSwitch, Args
<1>5. CASE TakeCommand
    BY <1>1, <1>5 DEF TakeCommand, Args
<1>6. CASE TakePositional
    BY <1>1, <1>6 DEF TakePositional, Args
<1> QED
    BY <1>2, <1>3, <1>4, <1>5, <1>6 DEF Take

\* The token at hand joins those given before it.
LEMMA GivenAdvance ==
    ASSUME TypeOK, ReadSoFar, Take, NEW tokens
    PROVE  Upto(Given(tokens))' =
             Upto(Given(tokens)) \cup (IF Token \in tokens THEN {at} ELSE {})
<1>1. Given(tokens)' = Given(tokens)
    BY Advance, Zenon DEF Given
<1>2. Given(tokens) \in SUBSET (DOMAIN argv \ Values) /\ (at \in Given(tokens) <=> Token \in tokens)
    BY Advance DEF Given, Token
<1> QED
    BY <1>1, <1>2, Advance

\* Each step of the parser keeps to the meaning of the tokens.
LEMMA ReadTake ==
    ASSUME TypeOK, ReadSoFar, Take
    PROVE  ReadSoFar'
<1>1. argv' = argv /\ at \in DOMAIN argv /\ (Token \in Takers => at < Len(argv))
        /\ (at \in DOMAIN argv => at \notin Values)'
    BY Advance
<1>2. (Upto(Given(OtherFlags)) = {})'
    BY GivenAdvance, ArgsAdvance DEF ReadSoFar
<1>3. (Len(argv) \notin Upto(Given(Takers)))'
    <2>1. Len(argv) \in Nat /\ at \in Nat
        BY CommandLineAssumption, Advance DEF TypeOK
    <2> QED
        BY <1>1, <2>1, GivenAdvance DEF ReadSoFar
<1>4. (args.dir = LastUpto(DirFlags))'
    BY LastAdvance, ArgsAdvance DEF ReadSoFar
<1>5. (args.flags = [f \in ValueFlags |-> LastUpto({f})])'
    <2>1. \A f \in ValueFlags :
             LastUpto({f})' = IF Token = f THEN argv[at + 1] ELSE LastUpto({f})
        <3>1. ASSUME NEW f \in ValueFlags
              PROVE  LastUpto({f})' = IF Token \in {f} THEN argv[at + 1] ELSE LastUpto({f})
            BY LastAdvance
        <3> QED
            BY <3>1
    <2>2. args.flags = [f \in ValueFlags |-> LastUpto({f})]
        BY DEF ReadSoFar
    <2>3. args'.flags = [f \in ValueFlags |->
                            IF Token = f THEN argv[at + 1] ELSE LastUpto({f})]
        BY <2>2, ArgsAdvance
    <2> QED
        BY <2>1, <2>3
<1>6. (args.switches = {argv[i] : i \in Upto(Given(SwitchFlags))}
                       \cup (IF Upto(Given(HelpFlags)) = {} THEN {} ELSE {"--help"}))'
    <2> DEFINE before == {argv[i] : i \in Upto(Given(SwitchFlags))}
               help == IF Upto(Given(HelpFlags)) = {} THEN {} ELSE {"--help"}
    <2>1. args.switches = before \cup help
        BY DEF ReadSoFar
    <2>2. before' = before \cup (IF Token \in SwitchFlags THEN {Token} ELSE {})
        <3>1. Upto(Given(SwitchFlags))' =
                Upto(Given(SwitchFlags)) \cup (IF Token \in SwitchFlags THEN {at} ELSE {})
            BY GivenAdvance
        <3> QED
            BY <1>1, <3>1 DEF Token
    <2>3. help' = help \cup (IF Token \in HelpFlags THEN {"--help"} ELSE {})
        <3>1. Upto(Given(HelpFlags))' =
                Upto(Given(HelpFlags)) \cup (IF Token \in HelpFlags THEN {at} ELSE {})
            BY GivenAdvance
        <3> QED
            BY <3>1
    <2>4. args'.switches = (before \cup help) \cup
              (IF Token \in HelpFlags THEN {"--help"}
               ELSE IF Token \in SwitchFlags THEN {Token} ELSE {})
        BY <2>1, ArgsAdvance
    <2>5. (Token \in HelpFlags /\ Token \in SwitchFlags) => Token = "--help"
        BY DEF HelpFlags, SwitchFlags
    <2>6. args'.switches = before' \cup help'
        <3> HIDE DEF before, help
        <3> QED
            BY <2>2, <2>3, <2>4, <2>5
    <2> QED
        BY <2>6
<1>7. /\ (Upto(Words) # {} => argv[Min(Upto(Words))] \in Commands)'
      /\ (args.command = IF Upto(Words) = {} THEN None ELSE argv[Min(Upto(Words))])'
      /\ args.command = None <=> Upto(Words) = {}
    <2>1. args.command = None <=> Upto(Words) = {}
        <3>1. None \notin Commands
            BY DEF None, Commands
        <3>2. /\ Upto(Words) # {} => argv[Min(Upto(Words))] \in Commands
              /\ args.command = IF Upto(Words) = {} THEN None ELSE argv[Min(Upto(Words))]
            BY DEF ReadSoFar
        <3>3. CASE Upto(Words) = {}
            BY <3>2, <3>3
        <3>4. CASE Upto(Words) # {}
            BY <3>1, <3>2, <3>4
        <3> QED
            BY <3>3, <3>4
    <2>2. CASE Token \in Dashed
        <3>1. Upto(Words)' = Upto(Words) /\ args'.command = args.command
            BY <2>2, WordsAdvance, ArgsAdvance
        <3>2. CASE Upto(Words) = {}
            BY <2>1, <3>1, <3>2
        <3>3. CASE Upto(Words) # {}
            <4>1. args.command = argv[Min(Upto(Words))] /\ argv[Min(Upto(Words))] \in Commands
                BY <3>3 DEF ReadSoFar
            <4>2. Min(Upto(Words)') = Min(Upto(Words)) /\ Upto(Words)' # {}
                BY <3>1, <3>3
            <4> QED
                BY <1>1, <2>1, <3>1, <3>3, <4>1, <4>2
        <3> QED
            BY <3>2, <3>3
    <2>3. CASE Token \notin Dashed /\ Upto(Words) # {}
        <3>1. (Upto(Words) # {})' /\ (Min(Upto(Words)))' = Min(Upto(Words))
            BY <2>3, WordsAdvance
        <3> QED
            BY <1>1, <2>1, <2>3, <3>1, ArgsAdvance DEF ReadSoFar
    <2>4. CASE Token \notin Dashed /\ Upto(Words) = {}
        <3>1. Upto(Words)' = {at} /\ at \in Nat
            BY <2>4, WordsAdvance, Advance
        <3>2. Min({at}) = at
            BY <3>1, MinIs
        <3>3. Min(Upto(Words)') = at /\ Upto(Words)' # {}
            BY <3>1, <3>2
        <3> QED
            BY <1>1, <2>1, <2>4, <3>3, ArgsAdvance DEF Token
    <2> QED
        BY <2>1, <2>2, <2>3, <2>4
<1>8. (\E f \in Ascending(Upto(Operands)) :
            args.positionals = [i \in DOMAIN f |-> argv[f[i]]])'
    <2>1. PICK f \in Ascending(Upto(Operands)) :
              args.positionals = [i \in DOMAIN f |-> argv[f[i]]]
        BY DEF ReadSoFar
    <2>2. CASE Token \in Dashed \/ Upto(Words) = {}
        <3>1. Upto(Operands)' = Upto(Operands)
            BY <2>2, WordsAdvance
        <3>2. args'.positionals = args.positionals
            BY <2>2, <1>7, ArgsAdvance
        <3>3. f \in Ascending(Upto(Operands)')
            BY <3>1, <2>1
        <3> QED
            BY <1>1, <2>1, <3>2, <3>3 DEF Ascending
    <2>3. CASE Token \notin Dashed /\ Upto(Words) # {}
        <3> DEFINE c == Cardinality(Upto(Operands))
                   g == [i \in 1..c + 1 |-> IF i = c + 1 THEN at ELSE f[i]]
        <3>1. /\ Upto(Operands) \in SUBSET Nat /\ IsFiniteSet(Upto(Operands))
              /\ at \in Nat /\ \A i \in Upto(Operands) : i < at
            BY WordsAdvance, Advance
        <3>2. c \in Nat /\ DOMAIN f = 1..c /\ g \in Ascending(Upto(Operands) \cup {at})
            BY <2>1, <3>1, AscendingGrows
        <3>3. Upto(Operands)' = Upto(Operands) \cup {at}
            BY <2>3, WordsAdvance
        <3>4. args'.positionals = Append(args.positionals, Token)
            BY <2>3, <1>7, ArgsAdvance
        <3> HIDE DEF c
        <3>5. Append(args.positionals, Token) = [i \in 1..c + 1 |-> argv[g[i]]]
            <4>1. args.positionals = [i \in 1..c |-> argv[f[i]]] /\ Len(args.positionals) = c
                BY <2>1, <3>2
            <4> QED
                BY <4>1, <3>2 DEF Token
        <3>6. DOMAIN g = 1..c + 1
            OBVIOUS
        <3> HIDE DEF g
        <3>7. g \in Ascending(Upto(Operands)')
            BY <3>2, <3>3
        <3>8. args'.positionals = [i \in DOMAIN g |-> argv'[g[i]]]
            BY <1>1, <3>4, <3>5, <3>6
        <3> QED
            BY <3>7, <3>8 DEF Ascending
    <2> QED
        BY <2>2, <2>3
<1> QED
    BY <1>1, <1>2, <1>3, <1>4, <1>5, <1>6, <1>7, <1>8 DEF ReadSoFar

\* Nothing has been read at first.
LEMMA ParseInit == Init => ParseInv
<1> SUFFICES ASSUME Init PROVE ReadSoFar
    BY DEF ParseInv, Init
<1>1. argv \in Seq(Text) /\ DOMAIN argv \in SUBSET (Nat \ {0})
    <2>1. argv \in Seq(Text)
        BY CommandLineAssumption DEF Init
    <2> QED
        BY <2>1
<1>2. at \notin Values
    <2>1. 1 \in Values => 1 \in DOMAIN argv /\ 1 > 1
        BY <1>1, ValuesAre
    <2> QED
        BY <2>1 DEF Init
<1>3. \A S \in SUBSET DOMAIN argv : Upto(S) = {}
    BY <1>1 DEF Upto, Init
<1>4. /\ \A tokens : Given(tokens) \in SUBSET DOMAIN argv
      /\ Words \in SUBSET DOMAIN argv /\ Operands \in SUBSET DOMAIN argv
    BY DEF Given, Words, Operands
<1>5. (\A tokens : Upto(Given(tokens)) = {}) /\ Upto(Words) = {} /\ Upto(Operands) = {}
    BY <1>3, <1>4
<1>6. \A flags : LastUpto(flags) = None
    BY <1>5 DEF LastUpto
<1>7. \E f \in Ascending(Upto(Operands)) :
         args.positionals = [i \in DOMAIN f |-> argv[f[i]]]
    <2>1. args.positionals = [i \in DOMAIN <<>> |-> argv[<<>>[i]]]
        BY DEF Init
    <2> QED
        BY <2>1, <1>5, NothingAscends
<1>8. args.switches = {argv[i] : i \in Upto(Given(SwitchFlags))}
                       \cup (IF Upto(Given(HelpFlags)) = {} THEN {} ELSE {"--help"})
    BY <1>5 DEF Init
<1>9. args.command = None /\ args.dir = LastUpto(DirFlags)
      /\ args.flags = [f \in ValueFlags |-> LastUpto({f})]
    BY <1>6 DEF Init
<1> QED
    BY <1>2, <1>5, <1>7, <1>8, <1>9 DEF ReadSoFar

\* A command line the parser gives up on is wrong.
LEMMA WrongWhenMisused ==
    ASSUME TypeOK, ReadSoFar, Misused
    PROVE  Wrong
<1>1. /\ argv \in Seq(Text) /\ Len(argv) \in Nat /\ DOMAIN argv = 1..Len(argv)
      /\ at \in 1..Len(argv)
    BY CommandLineAssumption DEF TypeOK, Misused, More
<1>2. at \in DOMAIN argv \ Values
    BY <1>1 DEF ReadSoFar
<1>3. CASE Token \in DirFlags \cup ValueFlags /\ at = Len(argv)
    BY <1>2, <1>3 DEF Wrong, Given, Takers, Token
<1>4. CASE Token \in OtherFlags
    BY <1>2, <1>4 DEF Wrong, Given, Token
<1>5. CASE Token \notin Dashed \cup Commands /\ args.command = None
    <2>1. Upto(Words) = {}
        <3>1. Upto(Words) # {} => args.command \in Commands
            BY DEF ReadSoFar
        <3>2. None \notin Commands
            BY DEF None, Commands
        <3> QED
            BY <3>1, <3>2, <1>5
    <2>2. at \in Words /\ Words \in SUBSET Nat
        BY <1>1, <1>2, <1>5 DEF Words, Token
    <2>3. \A i \in Words : at <= i
        BY <1>1, <2>1, <2>2 DEF Upto
    <2>4. Min(Words) = at
        BY <2>2, <2>3, MinIs
    <2> QED
        BY <2>2, <2>4, <1>5 DEF Wrong, Token
<1> QED
    BY <1>3, <1>4, <1>5 DEF Misused

\* What is understood of the whole command line when nothing is left of it.
LEMMA WholeRead ==
    ASSUME TypeOK, ReadSoFar, at > Len(argv)
    PROVE  /\ Understood
           /\ Wrong <=> Words = {} /\ Given(HelpFlags \cup {"--version"}) = {}
           /\ Words = {} <=> args.command = None
<1>1. /\ \A tokens : Given(tokens) \in SUBSET DOMAIN argv
      /\ Words \in SUBSET DOMAIN argv /\ Operands \in SUBSET DOMAIN argv
    BY DEF Given, Words, Operands
<1>2. /\ \A tokens : Upto(Given(tokens)) = Given(tokens)
      /\ Upto(Words) = Words /\ Upto(Operands) = Operands
    BY <1>1, AllRead
<1>3. \A flags : LastUpto(flags) = LastOf(flags)
    BY <1>2 DEF LastUpto, LastOf
<1>4. Understood
    BY <1>2, <1>3 DEF ReadSoFar, Understood
<1>5. /\ Given(OtherFlags) = {} /\ Len(argv) \notin Given(Takers)
      /\ Words # {} => argv[Min(Words)] \in Commands
    BY <1>2 DEF ReadSoFar
<1>6. Words = {} <=> args.command = None
    <2>1. None \notin Commands
        BY DEF None, Commands
    <2>2. args.command = IF Words = {} THEN None ELSE argv[Min(Words)]
        BY <1>4 DEF Understood
    <2>3. CASE Words = {}
        BY <2>2, <2>3
    <2>4. CASE Words # {}
        BY <2>1, <2>2, <2>4, <1>5
    <2> QED
        BY <2>3, <2>4
<1> QED
    BY <1>4, <1>5, <1>6 DEF Wrong

\* The program informs when it is asked to.
LEMMA AskedToInform ==
    ASSUME TypeOK, ReadSoFar, at > Len(argv)
    PROVE  Informs <=> Given(HelpFlags \cup {"--version"}) # {}
<1>1. args.switches = {argv[i] : i \in Given(SwitchFlags)}
                       \cup (IF Given(HelpFlags) = {} THEN {} ELSE {"--help"})
    BY WholeRead DEF Understood
<1>2. "--version" \in args.switches <=> Given({"--version"}) # {}
    <2>1. "--version" \in args.switches <=> \E i \in Given(SwitchFlags) : argv[i] = "--version"
        BY <1>1
    <2> QED
        BY <2>1 DEF Given, SwitchFlags
<1>3. "--help" \in args.switches <=> Given(HelpFlags) # {}
    <2>1. ASSUME NEW i \in Given(SwitchFlags), argv[i] = "--help" PROVE i \in Given(HelpFlags)
        BY <2>1 DEF Given, HelpFlags
    <2>2. "--help" \in args.switches <=>
            (\E i \in Given(SwitchFlags) : argv[i] = "--help") \/ Given(HelpFlags) # {}
        BY <1>1
    <2> QED
        BY <2>1, <2>2
<1>4. Given(HelpFlags \cup {"--version"}) = Given(HelpFlags) \cup Given({"--version"})
    BY DEF Given
<1> QED
    BY <1>2, <1>3, <1>4 DEF Informs

\* What a command line means depends on nothing but its tokens.
LEMMA MeaningStays ==
    ASSUME argv' = argv
    PROVE  Wrong' = Wrong
<1>1. Values' = Values
    BY DEF Values
<1>2. Words' = Words /\ \A tokens : Given(tokens)' = Given(tokens)
    BY <1>1, Zenon DEF Words, Given
<1> QED
    BY <1>2 DEF Wrong

LEMMA UnderstoodStays ==
    ASSUME UNCHANGED <<argv, args>>, Understood
    PROVE  Understood'
<1>1. Values' = Values
    BY DEF Values
<1>2. Words' = Words /\ \A tokens : Given(tokens)' = Given(tokens)
    BY <1>1, Zenon DEF Words, Given
<1>3. Operands' = Operands /\ \A flags : LastOf(flags)' = LastOf(flags)
    BY <1>2 DEF Operands, LastOf
<1>4. /\ args'.command = IF Words' = {} THEN None ELSE argv'[Min(Words')]
      /\ args'.dir = LastOf(DirFlags)'
      /\ args'.flags = [f \in ValueFlags |-> LastOf({f})']
    BY <1>2, <1>3 DEF Understood
<1>5. \E f \in Ascending(Operands)' : args'.positionals = [i \in DOMAIN f |-> argv'[f[i]]]
    BY <1>3 DEF Understood, Ascending
<1>6. args'.switches = {argv'[i] : i \in Given(SwitchFlags)'}
                        \cup (IF Given(HelpFlags)' = {} THEN {} ELSE {"--help"})
    BY <1>2 DEF Understood
<1> QED
    BY <1>4, <1>5, <1>6 DEF Understood

LEMMA ReadStays ==
    ASSUME UNCHANGED parser, ReadSoFar
    PROVE  ReadSoFar'
<1>1. argv' = argv /\ at' = at /\ args' = args /\ Values' = Values
    BY DEF parser, Values
<1>2. Words' = Words /\ \A tokens : Given(tokens)' = Given(tokens)
    BY <1>1, Zenon DEF Words, Given
<1>3. Operands' = Operands
    BY <1>2 DEF Operands
<1>4. /\ Upto(Words)' = Upto(Words) /\ Upto(Operands)' = Upto(Operands)
      /\ \A tokens : Upto(Given(tokens))' = Upto(Given(tokens))
    BY <1>1, <1>2, <1>3, Zenon DEF Upto
<1>5. \A flags : LastUpto(flags)' = LastUpto(flags)
    BY <1>1, <1>4 DEF LastUpto
<1>6. /\ at' \in DOMAIN argv' => at' \notin Values'
      /\ Upto(Given(OtherFlags))' = {} /\ Len(argv') \notin Upto(Given(Takers))'
      /\ args'.dir = LastUpto(DirFlags)'
      /\ args'.flags = [f \in ValueFlags |-> LastUpto({f})']
    BY <1>1, <1>4, <1>5 DEF ReadSoFar
<1>7. /\ Upto(Words)' # {} => argv'[Min(Upto(Words)')] \in Commands
      /\ args'.command = IF Upto(Words)' = {} THEN None ELSE argv'[Min(Upto(Words)')]
    BY <1>1, <1>4 DEF ReadSoFar
<1>8. \E f \in Ascending(Upto(Operands))' :
         args'.positionals = [i \in DOMAIN f |-> argv'[f[i]]]
    BY <1>1, <1>4 DEF ReadSoFar, Ascending
<1>9. args'.switches = {argv'[i] : i \in Upto(Given(SwitchFlags))'}
                        \cup (IF Upto(Given(HelpFlags))' = {} THEN {} ELSE {"--help"})
    BY <1>1, <1>4 DEF ReadSoFar
<1> QED
    BY <1>6, <1>7, <1>8, <1>9 DEF ReadSoFar

\* After the parser has ended the arguments do not change, and an exit for a
\* wrong command line is the last step.
LEMMA ParseOver ==
    ASSUME SelectStep \/ LoopStep \/ PeerStep \/ Edit
    PROVE  pc \notin {"args", "exit"} /\ UNCHANGED parser /\ pc' # "args"
<1>1. CASE SelectStep
    BY <1>1 DEF SelectStep, Start, SelectOne, SelectUnknown, SelectAll, SelectFails,
                SelectAborts, Loop, Goto, Exit
<1>2. CASE LoopStep
    BY <1>2 DEF LoopStep, Load, LoadFails, LoadAborts, Check, Compile, Write, Lock, Plan,
                Install, Reload, StepFails, Fail, Succeed, Proceed, Goto, Exit
<1>3. CASE PeerStep
    BY <1>3 DEF PeerStep, PeerFolder, PeerLock, PeerAborts, PeerAnswers, PeerChanges,
                Goto, Exit
<1>4. CASE Edit
    BY <1>4 DEF Edit
<1> QED
    BY <1>1, <1>2, <1>3, <1>4

LEMMA ParseInvHolds == Spec => []ParseInv
<1>1. TypeOK /\ ParseInv /\ [Next]_vars => ParseInv'
    <2> SUFFICES ASSUME TypeOK, ParseInv, [Next]_vars PROVE ParseInv'
        OBVIOUS
    <2>1. CASE Take
        <3>1. ReadSoFar /\ pc' = "args"
            BY <2>1 DEF ParseInv, Take, More
        <3> QED
            BY <2>1, <3>1, ReadTake DEF ParseInv
    <2>2. CASE Misused
        <3>1. ReadSoFar /\ argv' = argv /\ pc' = "exit" /\ code' = "2"
            BY <2>2 DEF ParseInv, Misused, More, Exit, parser
        <3>2. Wrong'
            BY <2>2, <3>1, WrongWhenMisused, MeaningStays
        <3> QED
            BY <3>1, <3>2 DEF ParseInv
    <2>3. CASE Inform \/ Dispatch
        <3>1. ReadSoFar /\ at > Len(argv) /\ UNCHANGED <<argv, args>> /\ pc' # "args"
            BY <2>3 DEF ParseInv, Inform, Dispatch, Exit, Goto, parser
        <3>2. Understood' /\ Wrong' = Wrong
            BY <3>1, WholeRead, UnderstoodStays, MeaningStays
        <3>3. Wrong <=> args.command = None /\ ~ Informs
            BY <3>1, WholeRead, AskedToInform
        <3>4. Wrong => code' = "2" /\ pc' = "exit"
            BY <2>3, <3>3 DEF Inform, Dispatch, Exit
        <3> QED
            BY <3>1, <3>2, <3>4 DEF ParseInv
    <2>4. CASE SelectStep \/ LoopStep \/ PeerStep \/ Edit
        <3>1. pc \notin {"args", "exit"} /\ UNCHANGED <<argv, args>> /\ pc' # "args"
            BY <2>4, ParseOver DEF parser
        <3>2. ~ Wrong /\ Understood
            BY <3>1 DEF ParseInv
        <3>3. ~ Wrong' /\ Understood'
            BY <3>1, <3>2, UnderstoodStays, MeaningStays
        <3> QED
            BY <3>1, <3>3 DEF ParseInv
    <2>5. CASE UNCHANGED vars
        <3>1. UNCHANGED <<parser, pc, code>> /\ UNCHANGED <<argv, args>>
            BY <2>5 DEF vars, parser
        <3>2. CASE pc = "args"
            BY <3>1, <3>2, ReadStays DEF ParseInv
        <3>3. CASE pc # "args" /\ Wrong
            BY <3>1, <3>3, MeaningStays DEF ParseInv
        <3>4. CASE pc # "args" /\ ~ Wrong
            BY <3>1, <3>4, MeaningStays, UnderstoodStays DEF ParseInv
        <3> QED
            BY <3>2, <3>3, <3>4
    <2> QED
        BY <2>1, <2>2, <2>3, <2>4, <2>5 DEF Next, ParseStep
<1> QED
    BY <1>1, ParseInit, TypeCorrect, PTL DEF Spec

\* ParsedRight: whatever tokens a command line is made of, and in whatever
\* order, parse_args understands it as it is meant, or the program exits with 2
\* (parse_args in cli.cpp).
THEOREM ParsesRight == Spec => []ParsedRight
<1>1. ParseInv => ParsedRight
    BY DEF ParseInv, ParsedRight
<1> QED
    BY <1>1, ParseInvHolds, PTL
=============================================================================
