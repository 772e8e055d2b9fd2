----------------------------- MODULE MCCommands -----------------------------
(***************************************************************************)
(* What the programs do around the wordlists, in seven components that a   *)
(* TLC run takes one at a time: the environments of a process              *)
(* (EnvironmentList), bogofilter's options (Configuration), those of the   *)
(* other programs, and the paths of the lists (Arguments), the messages of *)
(* a run (MessageLoop), the queue of bogoutil (TokenTransaction), bogoutil *)
(* -m (Maintenance), and bogoutil -d and -l (LoadDump).                    *)
(***************************************************************************)
EXTENDS TokenTransaction

CONSTANTS
    Components,                                     \* that the run takes
    AnyChain,                                       \* --unicode=no on any list
    p1, p2, p3, home, site, NoProc, Closed,         \* of EnvironmentList
    EnvProc, ListDirectory, NCells, Assignments,
    MsgCount, LoopToken, LoopWord, Modes, MaxMessages,      \* of MessageLoop
    Version, qm, url, ip, C3A9, C383C2A9, E9, EA,   \* of Maintenance
    MaintWord, MaintValue, MaintOrder, CurrentVersion, Replaced, Prefixed, FromRaw, ToRaw,
    OutOfSize, MaintTasks,
    Encoding, Robx,                                 \* of LoadDump
    ListOrder, ListReplaced, Long, IntMax, Today, DumpTasks,
    Unset                                           \* of Configuration

VARIABLES
    component,
    directories, epc, cell, celllock, glock, torn, next, retry, envs, lockfd,
    lockpos, locked, globalfd,
    cpc, case, todo, o,
    apc, acase, atodo, ao, bfp, bogohome, dirs, files, rc,
    mode, mpc, disk, db, left, w, words, count, msgcount, fDie, history,
    npc, nopt, nstore, enc, old, cursor, nqueue, ret, nbefore,
    dpc, opt, list, pos, text, whole, target, view, rv, before

queueVars == vars
envVars == <<directories, epc, cell, celllock, glock, torn, next, retry, envs,
             lockfd, lockpos, locked, globalfd>>
optionVars == <<cpc, case, todo, o>>
argumentVars == <<apc, acase, atodo, ao, bfp, bogohome, dirs, files, rc>>
loopVars == <<mode, mpc, disk, db, left, w, words, count, msgcount, fDie, history>>
maintainVars == <<npc, nopt, nstore, enc, old, cursor, nqueue, ret, nbefore>>
dumpVars == <<dpc, opt, list, pos, text, whole, target, view, rv, before>>
allVars == <<component, queueVars, envVars, optionVars, argumentVars, loopVars,
             maintainVars, dumpVars>>

-----------------------------------------------------------------------------
(* EnvironmentList: processes whose lists are all in one directory, and    *)
(* processes with a list of their own and a shared one.                    *)

MCProc == {p1, p2, p3}
OneDirectory == [p \in MCProc |-> IF p = p3 THEN <<site>> ELSE <<home>>]
TwoDirectories ==
    [p \in MCProc |-> IF p = p1 THEN <<home, site>>
                      ELSE IF p = p2 THEN <<home>> ELSE <<site>>]

MCAssignments == {OneDirectory, TwoDirectories}

E == INSTANCE EnvironmentList WITH
        Proc <- EnvProc, Directory <- ListDirectory, pc <- epc

ASSUME EnvAssumption == E!NCellsAssumption /\ E!NobodyAssumption /\ E!AssignmentsAssumption

-----------------------------------------------------------------------------
(* MessageLoop: every combination of options that validate_args lets       *)
(* through, up to three messages of two tokens.                            *)

MCModes ==
    {m \in [incr : {"spam", "good", "none"}, decr : {"spam", "good", "none"},
            update : BOOLEAN, passthrough : BOOLEAN, logflag : BOOLEAN] :
        /\ m.incr # "none" => m.incr # m.decr
        /\ m.update => m.incr = "none" /\ m.decr = "none"}

M == INSTANCE MessageLoop WITH
        Token <- LoopToken, Word <- LoopWord, pc <- mpc

ASSUME LoopAssumption ==
    M!MaxMessagesAssumption /\ M!RoomAssumption /\ M!ModesAssumption /\ MsgCount \notin LoopToken

-----------------------------------------------------------------------------
(* Configuration: sequences of up to two or three options on the command   *)
(* line, and of one or two in files that are there or not.                 *)

OptionsUpTo(S, n) == UNION {[1 .. k -> S] : k \in 0 .. n}
MCOpt(name, val) == [name |-> name, val |-> val]
MCFlag(name) == MCOpt(name, 0)
MCHome == [BOGO |-> Unset, HOME |-> "home"]
MCFilesOf(s, u, t) ==
    [f \in {"site", "user", "other"} |-> CASE f = "site" -> s [] f = "user" -> u
                                           [] f = "other" -> t]
MCCase(cli, s, u, t, extra, env) ==
    [program |-> "bogofilter", cli |-> cli, extra |-> extra, env |-> env,
     files |-> MCFilesOf(s, u, t)]

\* Values in three files and on the command line.
ValueCases ==
    {MCCase(c, s, u, t, FALSE, MCHome) :
        c \in OptionsUpTo({MCOpt("spam_cutoff", 1), MCOpt("max_token_len", 1),
                           MCOpt("c", "other"), MCFlag("C"), MCFlag("verbose")}, 2),
        s \in {Unset} \cup OptionsUpTo({MCOpt("spam_cutoff", 2), MCFlag("bad"),
                                        MCOpt("max_token_len", 2), MCFlag("verbose")}, 1),
        u \in {Unset} \cup OptionsUpTo({MCOpt("spam_cutoff", 3), MCOpt("c", "other"),
                                        MCOpt("max_token_len", 3)}, 1),
        t \in {Unset} \cup OptionsUpTo({MCOpt("spam_cutoff", 4), MCFlag("bad")}, 1)}

\* Directories, wordlists and the place of the user's file.
DirectoryCases ==
    {MCCase(c, s, u, t, FALSE, e) :
        c \in OptionsUpTo({MCOpt("dir", "d1"), MCOpt("dir", "d2"), MCOpt("c", "other"),
                           MCOpt("wordlist", "w1"), MCOpt("user_config_file", "other")}, 2),
        s \in {Unset} \cup OptionsUpTo({MCOpt("dir", "ds"), MCOpt("wordlist", "w2")}, 1),
        u \in {Unset} \cup OptionsUpTo({MCOpt("dir", "du"), MCOpt("wordlist", "w1")}, 1),
        t \in {<<>>, <<MCOpt("dir", "dt")>>},
        e \in [BOGO : {Unset, "bogo"}, HOME : {Unset, "home"}]}

\* What bogofilter is to do.
MCRuns == {MCFlag(r) : r \in {"spam", "good", "unspam", "ungood", "update"}}
RunCases ==
    {MCCase(c, <<>>, u, Unset, x, MCHome) :
        c \in OptionsUpTo(MCRuns \cup {MCFlag("bulk"), MCFlag("help"),
                                       MCFlag("passthrough")}, 2)
              \cup [1 .. 3 -> MCRuns],
        u \in OptionsUpTo(MCRuns \ {MCFlag("ungood")}, 1), x \in BOOLEAN}

LimitCases ==
    {MCCase(c, s, <<>>, Unset, FALSE, MCHome) :
        c \in OptionsUpTo({MCOpt("token_count_fix", 2), MCOpt("token_count_min", 3),
                           MCOpt("token_count_max", 1), MCOpt("token_count_min", 1)}, 2),
        s \in OptionsUpTo({MCOpt("token_count_fix", 1), MCOpt("token_count_max", 3)}, 1)}

UtilCases ==
    {[MCCase(c, s, <<>>, Unset, FALSE, MCHome) EXCEPT !.program = "bogoutil"] :
        c \in OptionsUpTo({MCFlag("C")}, 1), s \in {<<>>, <<MCOpt("max_token_len", 2)>>}}

C == INSTANCE Configuration WITH
        Cases <- ValueCases \cup DirectoryCases \cup RunCases \cup LimitCases
                 \cup UtilCases,
        pc <- cpc

-----------------------------------------------------------------------------
(* Arguments: commands with every kind of path, two options with a file,   *)
(* messages for bogotune, and lists of bogofilter.                         *)

MCNoEnv == [BOGOFILTER_DIR |-> Unset, BOGODIR |-> Unset, HOME |-> Unset]
ArgCase(program, cli, file, extra) ==
    [program |-> program, cli |-> cli, site |-> file, other |-> <<>>, extra |-> extra,
     env |-> MCNoEnv, home |-> Unset, lists |-> <<>>, unreg |-> FALSE,
     dirs |-> {<<>>, <<"home">>, <<"empty">>, <<"home", ".bogofilter">>},
     files |-> {<<"list">>, <<"wordlist">>, <<"home", "wordlist">>, <<"home", "list">>,
                <<"home", ".bogofilter", "wordlist">>}]
ArgPaths == {<<"list">>, <<"home">>, <<".", "home", "">>, <<"home", "list">>, <<"empty">>,
             <<"new">>, <<"empty", "new">>, <<"home", "wordlist">>}

UtilPathCases ==
    {ArgCase("bogoutil", <<MCOpt(c, path)>>, <<>>, x) :
        c \in {"M_DUMP", "M_LOAD", "M_WORD", "M_VERIFY", "M_PAGESIZE", "M_LIST_LOGFILES",
               "p", "u", "r"},
        path \in ArgPaths, x \in {0, 1}}

UtilOptionCases ==
    {ArgCase("bogoutil", c, s, 0) :
        c \in OptionsUpTo({MCOpt("M_DUMP", <<"list">>), MCOpt("M_VERIFY", <<"home">>),
                           MCFlag("help"), MCFlag("version"), MCFlag("?"), MCFlag(":"),
                           MCOpt("-s", "bad"), MCOpt("-a", 1), MCOpt("input-file", "bad"),
                           MCOpt("config-file", "other"), MCOpt("max-token-len", 3),
                           MCOpt("multi-token-count", 2)}, 2),
        s \in {<<>>, <<MCOpt("M_VERIFY", <<"home">>)>>, <<MCOpt("max-token-len", 2)>>,
               <<MCOpt("unicode", "bad"), MCOpt("charset-default", "c")>>}}

TuneCases ==
    {[ArgCase("bogotune", c, s, 0) EXCEPT !.env = e] :
        c \in OptionsUpTo({MCOpt("n", "m1"), MCOpt("s", "m2"), MCOpt("file", "m3"), MCFlag("D"),
                           MCOpt("M", "m4")}, 3),
        s \in {<<>>, <<MCOpt("max-token-len", 2)>>, <<MCOpt("charset-default", "c")>>},
        e \in {MCNoEnv, [MCNoEnv EXCEPT !.BOGODIR = <<"home">>],
               [MCNoEnv EXCEPT !.HOME = <<"home">>]}}

TunePathCases ==
    {ArgCase("bogotune", <<MCOpt("d", path)>> \o c \o <<MCOpt("n", "m1"), MCOpt("s", "m2")>>,
             <<>>, 0) :
        path \in ArgPaths, c \in {<<>>, <<MCOpt("d", <<"home">>)>>, <<MCFlag("no-config-file")>>}}

LexCases ==
    {ArgCase("bogolexer", c, s, x) :
        c \in OptionsUpTo({MCFlag("help"), MCFlag("?"), MCOpt("config-file", "other"),
                           MCOpt("charset-default", "c")}, 2),
        s \in {<<>>, <<MCOpt("charset-default", "c")>>, <<MCFlag("help")>>,
               <<MCOpt("version", "x")>>},
        x \in {0, 1}}

ListCases ==
    {[ArgCase("bogofilter", <<>>, <<>>, 0) EXCEPT !.home = h, !.lists = l, !.unreg = u, !.env = e] :
        h \in {Unset, <<"home">>, <<"new">>, <<"list">>, <<"new", "new">>},
        l \in OptionsUpTo(ArgPaths, 2) \ {<<>>}, u \in BOOLEAN,
        e \in {MCNoEnv, [MCNoEnv EXCEPT !.BOGOFILTER_DIR = <<"home">>]}}

A == INSTANCE Arguments WITH
        Cases <- UtilPathCases \cup UtilOptionCases \cup TuneCases \cup TunePathCases
                 \cup LexCases \cup ListCases,
        WORDLIST <- "wordlist", BOGODIR <- ".bogofilter", Garbage <- <<"freed">>,
        pc <- apc, case <- acase, todo <- atodo, o <- ao

-----------------------------------------------------------------------------
(* Maintenance.  A token is named for its bytes: qm is "?", E9 and EA are  *)
(* letters of iso-8859-1, C3A9 is E9 in utf-8, and C383C2A9 is what C3A9   *)
(* becomes when it is taken for iso-8859-1 once more.                      *)

Val(spam, good, date) == [spam |-> spam, good |-> good, date |-> date]
TokenValue == {Val(1, 0, 2), Val(2, 1, 1)}
MCWord == {MsgCount, Version, qm, ip, url, C383C2A9, C3A9, E9, EA}

Become(pairs) ==
    [t \in MCWord |-> IF \E p \in pairs : p[1] = t
                         THEN (CHOOSE p \in pairs : p[1] = t)[2] ELSE t]

\* Stores of some of these tokens.
Stores(versions, tokens) ==
    {[t \in MCWord |-> IF t = MsgCount THEN Val(2, 1, 1)
                       ELSE IF t = Version THEN v
                       ELSE IF t \in tokens THEN s[t] ELSE Absent] :
        v \in versions,
        s \in [tokens -> TokenValue \cup {Absent}]}
MCVersions == {Absent, Val(9, 0, 2)}
Encodings == {"unknown", "raw", "unicode", "none"}

Command(c, age, size, replace, encoding, upgrade) ==
    [count |-> c, age |-> age, size |-> size, replace |-> replace,
     encoding |-> encoding, upgrade |-> upgrade]

\* -n, -u or neither, with some of -c, -a and -s, on lists from before the
\* "ip:" tokens.
ReplaceTasks ==
    [opt : {Command(c, a, s, r = "n", "unicode", r = "u") :
                c \in {0, 1}, a \in {0, 1}, s \in BOOLEAN, r \in {"n", "u", ""}},
     list : [store : Stores({Absent}, {qm, url, E9, EA}), enc : {"unicode"}]]

\* --unicode=yes, or neither, where no token was encoded twice.
EncodeTasks ==
    [opt : {Command(c, a, FALSE, FALSE, e, FALSE) :
                c \in {0, 1}, a \in {0, 1}, e \in {"unknown", "unicode"}},
     list : [store : Stores(MCVersions, {C3A9, E9}), enc : Encodings]]

\* --unicode=no without -a and -c: its targets are walked to after their
\* sources.
DecodeTasks ==
    [opt : {Command(0, 0, FALSE, FALSE, "raw", FALSE)},
     list : [store : Stores(MCVersions, {C3A9, E9}), enc : Encodings]
            \cup [store : Stores(MCVersions, {C383C2A9, C3A9, E9}),
                  enc : {"raw", "none"}]]

\* --unicode=no on lists in which a target is walked to before its sources.
ChainTasks ==
    [opt : {Command(0, 0, FALSE, FALSE, "raw", FALSE)},
     list : [store : Stores({Absent}, {C383C2A9, C3A9, E9}), enc : {"unicode"}]]

MCValue == TokenValue \cup {Val(9, 0, 2)}
MCOrder == <<MsgCount, Version, qm, ip, url, C383C2A9, C3A9, E9, EA>>
MCReplaced == Become({<<E9, qm>>, <<EA, qm>>})
MCPrefixed == Become({<<url, ip>>})
MCFromRaw == Become({<<E9, C3A9>>, <<C3A9, C383C2A9>>})
MCToRaw == Become({<<C3A9, E9>>, <<C383C2A9, C3A9>>})
MCMaintTasks == IF AnyChain THEN ChainTasks ELSE ReplaceTasks \cup EncodeTasks \cup DecodeTasks

N == INSTANCE Maintenance WITH
        Word <- MaintWord, Value <- MaintValue, Order <- MaintOrder, Tasks <- MaintTasks,
        pc <- npc, opt <- nopt, store <- nstore, queue <- nqueue, before <- nbefore

ASSUME MaintAssumption ==
    /\ N!SpecialKeysAssumption /\ N!ValueAssumption /\ N!OrderAssumption /\ N!TasksAssumption
    /\ MsgCount \in MaintWord /\ Version \in MaintWord /\ CurrentVersion \in Nat
    /\ AnyChain \/ N!RegularTasks

-----------------------------------------------------------------------------
(* LoadDump: lists of three tokens, one of which becomes another with -n   *)
(* and one of which may be too long, into a list that is new or not.       *)

ListKeys == {MsgCount, Encoding, Robx, Version, qm, E9, EA}
Entry(k, s, g, d) == [key |-> k, spam |-> s, good |-> g, date |-> d]
ListOf(f) ==
    [k \in ListKeys |->
        CASE k = MsgCount -> Entry(k, 2, 3, 1) [] k = Encoding -> Entry(k, 1, 0, 1)
          [] k = Robx -> Entry(k, 2, 0, 1) [] k = Version -> Entry(k, 3, 0, 1)
          [] OTHER -> f[k]]
DumpLists ==
    {ListOf(f) : f \in {g \in [{qm, E9, EA} ->
                                {Entry(k, 1, 0, 1) : k \in {qm, E9, EA}}
                                \cup {Entry(k, 2, 1, 0) : k \in {qm, E9, EA}}
                                \cup {Absent}] :
                          \A k \in {qm, E9, EA} : g[k] = Absent \/ g[k].key = k}}
NewList == [k \in ListKeys |-> Absent]
OldList == ListOf([k \in {qm, E9, EA} |-> Entry(k, 2, 2, 2)])

MCListOrder == <<MsgCount, Encoding, Robx, Version, qm, E9, EA>>
MCListReplaced == [k \in ListKeys |-> IF k = E9 THEN qm ELSE k]
MCDumpTasks ==
    [from : DumpLists, into : {NewList, OldList},
     opt : [count : {0, 1}, replace : BOOLEAN, max_token_len : BOOLEAN]]

D == INSTANCE LoadDump WITH
        Order <- ListOrder, Replaced <- ListReplaced, Tasks <- DumpTasks, pc <- dpc

ASSUME DumpAssumption == D!LoadDumpAssumption

-----------------------------------------------------------------------------
(* The run: a component that does not take part stands still.              *)

EnvInit ==
    IF component = "environments" THEN E!Init
    ELSE /\ directories = (CHOOSE ds \in Assignments : TRUE) /\ E!Init

QueueInit ==
    /\ component # "queue" => store = [t \in Word |-> Absent]
    /\ Init

OptionInit ==
    IF component = "options" THEN C!Init
    ELSE cpc = "off" /\ case = Unset /\ todo = <<>> /\ o = Unset

ArgumentInit ==
    IF component = "arguments" THEN A!Init
    ELSE /\ apc = "off" /\ acase = Unset /\ atodo = <<>> /\ ao = Unset /\ bfp = <<>>
         /\ bogohome = Unset /\ dirs = {} /\ files = {} /\ rc = 0

LoopInit ==
    /\ component # "loop" => left = 0 /\ mode = CHOOSE m \in Modes : TRUE
    /\ M!Init

MaintainInit ==
    IF component = "maintenance" THEN N!Init
    ELSE /\ npc = "off" /\ nopt = Unset /\ nstore = Unset /\ enc = "none" /\ old = "raw"
         /\ cursor = 1 /\ nqueue = <<>> /\ ret = "EX_OK" /\ nbefore = Unset

DumpInit ==
    IF component = "dump" THEN D!Init
    ELSE /\ dpc = "off" /\ opt = Unset /\ list = Unset /\ pos = 1 /\ text = <<>>
         /\ whole = TRUE /\ target = NewList /\ view = NewList /\ rv = 0
         /\ before = NewList

CommandsInit ==
    /\ component \in Components
    /\ EnvInit /\ QueueInit /\ OptionInit /\ ArgumentInit /\ LoopInit /\ MaintainInit
    /\ DumpInit

Environments ==
    /\ E!Next
    /\ UNCHANGED <<queueVars, optionVars, argumentVars, loopVars, maintainVars, dumpVars>>

Queue ==
    /\ Next
    /\ UNCHANGED <<envVars, optionVars, argumentVars, loopVars, maintainVars, dumpVars>>

Options ==
    /\ C!Next
    /\ UNCHANGED <<queueVars, envVars, argumentVars, loopVars, maintainVars, dumpVars>>

OtherOptions ==
    /\ A!Next
    /\ UNCHANGED <<queueVars, envVars, optionVars, loopVars, maintainVars, dumpVars>>

Loop ==
    /\ M!Next
    /\ UNCHANGED <<queueVars, envVars, optionVars, argumentVars, maintainVars, dumpVars>>

Maintain ==
    /\ N!Next
    /\ UNCHANGED <<queueVars, envVars, optionVars, argumentVars, loopVars, dumpVars>>

DumpOrLoad ==
    /\ D!Next
    /\ UNCHANGED <<queueVars, envVars, optionVars, argumentVars, loopVars, maintainVars>>

CommandsNext ==
    /\ UNCHANGED component
    /\ \/ component = "environments" /\ Environments
       \/ component = "queue" /\ Queue
       \/ component = "options" /\ Options
       \/ component = "arguments" /\ OtherOptions
       \/ component = "loop" /\ Loop
       \/ component = "maintenance" /\ Maintain
       \/ component = "dump" /\ DumpOrLoad

CommandsSpec == CommandsInit /\ [][CommandsNext]_allVars

-----------------------------------------------------------------------------
(* Properties of the components; TokenTransaction's is ReadsOwnWrites.     *)

\* With the lists of each process in one directory a crash is seen by the
\* next process, and only a crash (EnvironmentList).
OneDirectoryIsSafe == component = "environments" => E!OneDirectoryIsSafe

\* No environment is recovered while another process uses it (EnvironmentList).
RecoveredAlone == E!RecoveredAlone

\* The options are those of the last source that has a say, counted and listed
\* once, and ask for one thing to be done (Configuration); the other programs do
\* what their command line asks for, with the files it names (Arguments).
OptionsSound ==
    /\ component = "options" => C!CommandLineWins /\ C!NothingTwice /\ C!RunTypeFits
    /\ component = "arguments" => A!ArgumentsSound

\* The wordlist counts every token of a registered message once, no token in more
\* messages than it has counted, and nothing of an interrupted run (MessageLoop).
MessagesSound == M!TokensCountedOnce /\ M!TokensWithinMessages /\ M!InterruptedRegistersNothing

\* bogoutil -m adds up the counts of the tokens that become one, and loses or
\* revives none (Maintenance).
KeptAreCombined == component = "maintenance" => N!KeptAreCombined

\* And it deletes no key twice, and a list that it has converted says so.
MaintainedWhole == KeptAreCombined /\ N!NeverFails /\ N!EncodingMarked

\* The commit does what the walk has decided (Maintenance).
FlushIsSilent == N!FlushIsSilent

\* A dump that is loaded gives every token its counts (LoadDump).
ListMoved == D!ListMoved

\* The counterexample of MessageLoop.
UpdateCountsMessages == component = "loop" => M!UpdateCountsMessages
=============================================================================
