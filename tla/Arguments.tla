------------------------------ MODULE Arguments ------------------------------
(***************************************************************************)
(* What bogoutil, bogotune and bogolexer make of their arguments, and how  *)
(* a program finds the files of its lists (paths.c).  Each of the three    *)
(* walks its command line and then reads the configuration files of        *)
(* bogofilter, in which the options of its own table count.  bogofilter's  *)
(* own options are in Configuration; it is here for its lists only.        *)
(*                                                                         *)
(* A path is a sequence of names: the last one is what comes after the     *)
(* last separator.  One option stands for all that are treated alike.      *)
(***************************************************************************)
EXTENDS Naturals, Sequences, SequencesExt, FiniteSets

CONSTANTS
    Cases,          \* program, cli, site, extra, env, disk: see Init
    WORDLIST,       \* the name of the list in a directory
    BOGODIR,        \* the name of the directory in HOME
    Garbage,        \* the path that memory holds after it was freed
    Unset

VARIABLES
    pc, case, todo,
    o,              \* the options
    bfp,            \* the paths of the lists
    bogohome,
    dirs, files,    \* of the disk
    rc

vars == <<pc, case, todo, o, bfp, bogohome, dirs, files, rc>>

EX_OK == 0
EX_ERROR == 3
MAX_PREFIX_LEN == 5

Work(options, pass) == [i \in DOMAIN options |-> [opt |-> options[i], pass |-> pass]]

\* extra: arguments that are left over; lists, unreg: of bogofilter; token lengths are 0
\* where the program takes no options.
Init == /\ case \in Cases
        /\ pc = IF case.program = "bogofilter" THEN "lists" ELSE "arguments"
        /\ todo = Work(case.cli, 1)
        /\ o = [flag |-> "M_NONE", count |-> 0, ds_file |-> Unset, suppress |-> FALSE,
                ds_flag |-> "DS_NONE", lastmode |-> "none", ham |-> <<>>, spam |-> <<>>,
                bogolex_file |-> Unset, max_token_len |-> 0, max_multi_token_len |-> 0,
                multi_token_count |-> 1, set |-> {}]
        /\ bfp = <<>> /\ bogohome = case.home
        /\ dirs = case.dirs /\ files = case.files /\ rc = EX_OK

Exit(code) == /\ pc' = "exit" /\ rc' = code
              /\ UNCHANGED <<case, todo, o, bfp, bogohome, dirs, files>>

-----------------------------------------------------------------------------
(* One option: process_arg of the program                                  *)

Commands == {"M_DUMP", "M_LOAD", "M_MAINTAIN", "M_WORD", "M_ROBX", "M_HIST"}
DbCommands == {"M_VERIFY", "M_LEAFPAGES", "M_PAGESIZE", "M_CHECKPOINT", "M_CRECOVER",
               "M_PURGELOGS", "M_RECOVER", "M_REMOVEENV", "M_LIST_LOGFILES"}

\* The long options, which are what a file may hold (longoptions.h and the tables).
LongCommon == {"config-file", "no-config-file", "help", "input-file", "output-file",
               "max-token-len", "multi-token-count", "unicode", "version", "verbosity"}
LongLex == {"block-on-subnets", "charset-default", "user-config-file"}
Table(program) == CASE program = "bogoutil"  -> LongCommon \cup {"timestamp-date"} \cup DbCommands
                    [] program = "bogotune"  -> LongCommon \cup LongLex \cup {"token-count"}
                    [] program = "bogolexer" -> LongCommon \cup LongLex

\* The options that process_arg has a case for, of those that a file may hold.
Handled(program) ==
    CASE program = "bogoutil"  -> Table("bogoutil")
      [] program = "bogotune"  -> {"no-config-file", "max-token-len", "multi-token-count", "version",
                                   "verbosity", "block-on-subnets", "token-count"}
      [] program = "bogolexer" -> Table("bogolexer")

\* Those that end the program: unknown to it, wrong, or help.  What getopt does not know
\* ("?") is passed over by bogoutil and bogolexer.
Ends(w) ==
    LET n == w.opt.name IN
    \/ n \in {"help", "version", ":"}
    \/ n \in {"input-file", "output-file", "timestamp-date", "-s"} /\ w.opt.val = "bad"
    \/ n \in Table(case.program) \ Handled(case.program)
    \/ case.program = "bogotune" /\ n = "?"
    \/ n = "file" /\ o.lastmode = "none"

EndsWith(n) == IF n = "version" \/ (n = "help" /\ case.program # "bogotune") THEN EX_OK ELSE EX_ERROR

\* Of a file the name is kept, but not its memory (configfile.c:104), and the command is
\* not counted.
Command(flag, w, kept) ==
    [o EXCEPT !.flag = flag, !.count = IF w.pass = 1 THEN @ + 1 ELSE @,
              !.ds_file = IF w.pass = 1 \/ kept THEN w.opt.val ELSE Garbage]

\* A name without an option goes where the last -n or -s went.
Message(mode, name) == IF mode = "n" THEN [o EXCEPT !.ham = Append(@, name), !.lastmode = mode]
                       ELSE [o EXCEPT !.spam = Append(@, name), !.lastmode = mode]

WordlistSource(flag) == IF o.ds_flag = "DS_NONE" THEN flag ELSE "DS_ERR"

\* ds_file is ds_path of bogotune.
Set(w, kept) ==
    LET n == w.opt.name
        val == w.opt.val
    IN CASE n \in Commands \cup DbCommands -> Command(n, w, kept)
         [] n = "p" -> [Command("M_WORD", w, kept) EXCEPT !.set = @ \cup {"prob"}]
         [] n = "u" -> [Command("M_MAINTAIN", w, kept) EXCEPT !.set = @ \cup {"upgrade"}]
         [] n = "r" -> [Command("M_ROBX", w, kept) EXCEPT !.set = @ \cup {"onlyprint"}]
         [] n \in {"-a", "-c", "-n", "-s", "timestamp-date"} ->
               [o EXCEPT !.set = @ \cup {"maintain"}]
         [] n \in {"c file", "config-file", "no-config-file"} -> [o EXCEPT !.suppress = TRUE]
         [] n = "max-token-len" -> [o EXCEPT !.max_token_len = val]
         [] n = "multi-token-count" -> [o EXCEPT !.multi_token_count = val]
         [] n = "d" -> [o EXCEPT !.ds_file = val, !.ds_flag = WordlistSource("DS_DSK")]
         [] n = "D" -> [o EXCEPT !.ds_flag = WordlistSource("DS_RAM")]
         [] n = "M" -> [o EXCEPT !.bogolex_file = val]
         [] n \in {"n", "s"} -> Message(n, val)
         [] n = "file" -> Message(o.lastmode, val)
         [] OTHER -> o

\* A file's option must be in the table and have a value; else it is passed over.
Counts(w) == w.pass = 1 \/ (w.opt.name \in Table(case.program) /\ w.opt.val # Unset)

\* A file that is named is read where it is named.
ProcessArg ==
    /\ pc \in {"arguments", "files"} /\ todo # <<>>
    /\ LET w == Head(todo) IN
       IF Counts(w) /\ Ends(w) THEN Exit(EndsWith(w.opt.name))
       ELSE /\ \E kept \in BOOLEAN : o' = IF Counts(w) THEN Set(w, kept) ELSE o
            /\ todo' = (IF w.opt.name \in {"c file", "config-file"} /\ Counts(w) THEN Work(case.other, 2) ELSE <<>>)
                       \o Tail(todo)
            /\ UNCHANGED <<pc, case, bfp, bogohome, dirs, files, rc>>

-----------------------------------------------------------------------------
(* process_arglist after the walk, process_config_files                    *)

\* A limit for single tokens is one for multiple tokens, too.
WithMultiLimit ==
    IF o.max_token_len = 0 \/ o.max_multi_token_len # 0 THEN o
    ELSE IF o.multi_token_count = 1
         THEN [o EXCEPT !.max_multi_token_len = o.max_token_len + MAX_PREFIX_LEN]
         ELSE LET len == (o.max_token_len + 1) * o.multi_token_count + MAX_PREFIX_LEN
              IN [o EXCEPT !.max_multi_token_len = len, !.max_token_len = len]

GoodArglist ==
    CASE case.program = "bogoutil"  -> o.count = 1
      [] case.program = "bogolexer" -> case.extra = 0
      [] case.program = "bogotune"  -> /\ o.ds_flag # "DS_ERR"
                                       /\ o.bogolex_file = Unset => o.ham # <<>> /\ o.spam # <<>>

Checked == CASE case.program = "bogoutil"  -> WithMultiLimit
             [] case.program = "bogotune"  -> [o EXCEPT !.ds_flag = IF @ = "DS_NONE" THEN "DS_DSK" ELSE @]
             [] case.program = "bogolexer" -> o

EndOfArguments ==
    /\ pc = "arguments" /\ todo = <<>>
    /\ IF ~GoodArglist THEN Exit(EX_ERROR)
       ELSE /\ pc' = "files" /\ o' = Checked
            /\ todo' = IF o.suppress THEN <<>> ELSE Work(case.site, 2)
            /\ UNCHANGED <<case, bfp, bogohome, dirs, files, rc>>

\* bogoutil takes words, and list options, after its command and nothing else.
GoodExtra == case.program = "bogoutil" /\ o.flag \notin {"M_WORD", "M_LIST_LOGFILES"} => case.extra = 0

EndOfFiles ==
    /\ pc = "files" /\ todo = <<>>
    /\ IF ~GoodExtra THEN Exit(EX_ERROR)
       ELSE /\ pc' = IF case.program = "bogolexer" \/ o.ds_flag = "DS_RAM" THEN "ready" ELSE "path"
            /\ UNCHANGED <<case, todo, o, bfp, bogohome, dirs, files, rc>>

-----------------------------------------------------------------------------
(* paths.c                                                                 *)

\* Where a path leads to, from the current directory.
Place(path) == SelectSeq(path, LAMBDA n : n \notin {".", ""})
IsDir(path) == Place(path) \in dirs
IsFile(path) == Place(path) \in files

\* create_path_from_env, get_directory
get_directory(which) ==
    IF which = "PR_ENV_BOGO"
    THEN IF case.env.BOGOFILTER_DIR # Unset THEN case.env.BOGOFILTER_DIR ELSE case.env.BOGODIR
    ELSE IF case.env.HOME = Unset THEN Unset ELSE Append(case.env.HOME, BOGODIR)

FromEnvironment == IF get_directory("PR_ENV_BOGO") # Unset THEN get_directory("PR_ENV_BOGO")
                   ELSE get_directory("PR_ENV_HOME")

bfpath_create(path) == [filepath |-> path, dirname |-> Unset, filename |-> Unset,
                        isdir |-> FALSE, exists |-> FALSE]

\* get_directory_from_path: nothing where there is no separator.
DirectoryFrom(path) == IF Len(path) > 1 THEN Front(path) ELSE Unset

bfpath_split(b, home) ==
    IF Len(b.filepath) > 1 \/ home = Unset
    THEN [b EXCEPT !.dirname = DirectoryFrom(b.filepath), !.filename = Last(b.filepath)]
    ELSE [b EXCEPT !.dirname = home, !.filename = Last(b.filepath),
                   !.filepath = Append(home, Last(b.filepath))]

check_for_file(b) ==
    IF IsDir(b.filepath)
    THEN [b EXCEPT !.exists = TRUE, !.isdir = TRUE, !.dirname = b.filepath, !.filename = Unset]
    ELSE IF IsFile(b.filepath)
    THEN [b EXCEPT !.exists = TRUE, !.isdir = FALSE, !.dirname = DirectoryFrom(b.filepath),
                   !.filename = Last(b.filepath)]
    ELSE [b EXCEPT !.exists = FALSE, !.isdir = FALSE]

\* bfpath_check_mode: what it makes of the path, and what it says.
Looked(b) == check_for_file(IF b.dirname = Unset /\ b.filename = Unset THEN bfpath_split(b, Unset)
                            ELSE b)
Allowed(b, mode) == mode = "BFP_MAY_CREATE" \/ b.exists

bfpath_set_filename(b, name) ==
    check_for_file([b EXCEPT !.filename = name, !.filepath = Append(b.dirname, name)])

get_mode(flag) == IF flag = "M_LOAD" THEN "BFP_MAY_CREATE" ELSE "BFP_MUST_EXIST"

\* main of bogoutil: a directory means the list in it.
FindUtilList ==
    /\ pc = "path" /\ case.program = "bogoutil"
    /\ LET base == IF bogohome = Unset THEN <<".">> ELSE bogohome
           mode == get_mode(o.flag)
           named == Looked(bfpath_split(bfpath_create(o.ds_file), base))
           found == IF Allowed(named, mode) /\ named.isdir THEN bfpath_set_filename(named, WORDLIST)
                    ELSE named
       IN IF ~Allowed(Looked(found), mode) THEN Exit(EX_ERROR)
          ELSE /\ pc' = "ready" /\ bogohome' = base /\ bfp' = <<Looked(found)>>
               /\ UNCHANGED <<case, todo, o, dirs, files, rc>>

\* main of bogotune: the same, but nothing is made, and the name is looked up as it is.
FindTuneList ==
    /\ pc = "path" /\ case.program = "bogotune"
    /\ LET ds_path == IF o.ds_file # Unset THEN o.ds_file ELSE FromEnvironment IN
       IF ds_path = Unset THEN Exit(EX_ERROR)
       ELSE LET named == Looked(bfpath_create(ds_path))
                found == IF named.isdir THEN Looked(bfpath_create(Append(ds_path, WORDLIST)))
                         ELSE named
            IN IF ~found.exists THEN Exit(EX_ERROR)
               ELSE /\ pc' = "ready" /\ bogohome' = ds_path /\ bfp' = <<found>>
                    /\ UNCHANGED <<case, todo, o, dirs, files, rc>>

\* bogofilter (wordlists_set_bogohome): a list without a directory is in bogohome, which
\* the environment gives if nothing else does.
SetBogohome ==
    /\ pc = "lists"
    /\ LET base == IF bogohome # Unset THEN bogohome ELSE FromEnvironment IN
       IF base = Unset THEN Exit(EX_ERROR)
       ELSE /\ pc' = "open" /\ bogohome' = base
            /\ bfp' = [i \in DOMAIN case.lists |-> bfpath_split(bfpath_create(case.lists[i]), base)]
            /\ UNCHANGED <<case, todo, o, dirs, files, rc>>

\* What is not there is made; the directories above it are not.
check_directory(path) == IsDir(path) \/ (~IsFile(path) /\ IsDir(Front(Place(path))))

check_wordlist_path(b) == bfpath_split(Looked(b), bogohome)

\* open_wordlists: chk_bogohome makes the directory, and check_wordlist_path looks for
\* every list; it does not use the answer.
OpenWordlists ==
    /\ pc = "open"
    /\ IF ~check_directory(bogohome) THEN Exit(EX_ERROR)
       ELSE /\ pc' = "ready" /\ dirs' = dirs \cup {Place(bogohome)}
            /\ bfp' = [i \in DOMAIN bfp |-> check_wordlist_path(bfp[i])]
            /\ UNCHANGED <<case, todo, o, bogohome, files, rc>>

\* main of bogoutil: what the command says is what the program says.
RunCommand ==
    /\ pc = "ready" /\ case.program = "bogoutil"
    /\ pc' = "done"
    /\ \E ok \in BOOLEAN : rc' = IF ok \/ o.flag = "M_PAGESIZE" THEN EX_OK ELSE EX_ERROR
    /\ UNCHANGED <<case, todo, o, bfp, bogohome, dirs, files>>

\* check_msgcount_parms: -M writes the counts of one kind of messages.
GoodMsgcount == o.ds_flag # "DS_RAM" /\ ~(o.ham # <<>> /\ o.spam # <<>>)

RunTune == /\ pc = "ready" /\ case.program = "bogotune"
           /\ IF o.bogolex_file # Unset /\ ~GoodMsgcount THEN Exit(EX_ERROR)
              ELSE pc' = "done" /\ UNCHANGED <<case, todo, o, bfp, bogohome, dirs, files, rc>>

Next == \/ ProcessArg \/ EndOfArguments \/ EndOfFiles \/ FindUtilList \/ FindTuneList
        \/ SetBogohome \/ OpenWordlists \/ RunCommand \/ RunTune

Spec == Init /\ [][Next]_vars
-----------------------------------------------------------------------------
(* Properties *)

TypeOK == /\ pc \in {"arguments", "files", "path", "lists", "open", "ready", "done", "exit"}
          /\ o.flag \in {"M_NONE"} \cup Commands \cup DbCommands
          /\ o.count \in Nat /\ rc \in {EX_OK, EX_ERROR}

Given(S) == SelectSeq(case.cli, LAMBDA x : x.name \in S)
InFiles(S) == \E f \in {case.site, case.other} : \E i \in DOMAIN f : f[i].name \in S
CommandNames == Commands \cup DbCommands \cup {"p", "u", "r"}

\* bogoutil does the one thing that its command line asks for, with the list that is
\* named there: the file itself, or the one in the directory.
CommandAndList ==
    case.program = "bogoutil" /\ pc \in {"ready", "done"} /\ ~InFiles(CommandNames) =>
        LET on == Given(CommandNames)
            named == Place(on[1].val)
        IN /\ Len(on) = 1 /\ (o.flag = on[1].name \/ on[1].name \in {"p", "u", "r"})
           /\ Place(bfp[1].filepath) = IF named \in dirs THEN Append(named, WORDLIST) ELSE named

\* A list that is handed on has the directory it is in, for the environment; only with
\* bogoutil -l and with bogofilter it need not be there.
PathsWhole ==
    pc \in {"ready", "done"} =>
        \A i \in DOMAIN bfp :
            LET b == bfp[i] IN
            /\ b.exists <=> IsDir(b.filepath) \/ IsFile(b.filepath)
            /\ b.exists \/ case.program = "bogofilter" \/ o.flag = "M_LOAD"
            /\ b.dirname # Unset /\ ~b.isdir => b.filepath = Append(b.dirname, b.filename)

\* bogotune: every name of the command line is read as what the last of -n and -s before
\* it says.
ModeAt(i) == LET before == {j \in 1 .. i : case.cli[j].name \in {"n", "s"}}
             IN case.cli[CHOOSE j \in before : \A k \in before : k <= j].name
NamesOf(mode) ==
    LET names == {i \in DOMAIN case.cli : case.cli[i].name \in {"n", "s", "file"}}
    IN {case.cli[i].val : i \in {j \in names : ModeAt(j) = mode}}
MessagesSorted ==
    case.program = "bogotune" /\ pc \in {"ready", "done"} =>
        ToSet(o.ham) = NamesOf("n") /\ ToSet(o.spam) = NamesOf("s")

\* The limit for multiple tokens follows the one for single tokens.  It holds as long as
\* no file sets the limit: bogoutil computes the one from the other before it reads them.
LimitFollows ==
    /\ case.program = "bogoutil" /\ pc \in {"ready", "done"} /\ o.max_token_len # 0
    /\ ~InFiles({"max-token-len", "multi-token-count"})
    => o.max_multi_token_len > o.max_token_len \/ o.multi_token_count > 1

ArgumentsSound == CommandAndList /\ PathsWhole /\ MessagesSorted /\ LimitFollows

\* A command in a file does nothing.  It fails: what a file says is the command then, with
\* a name whose memory is free (configfile.c:104).
CommandLineDecides ==
    case.program = "bogoutil" /\ pc = "ready" => o.flag = Given(CommandNames)[1].name

\* The file of bogofilter serves all programs, as its options count where they are known.
\* It fails for bogotune: options of its table have no case, charset-default for one (bogotune.c:1134).
FileServesAll ==
    pc = "exit" => \/ Given({"help", "version", ":", "?"}) # <<>>
                   \/ ~InFiles({"charset-default", "unicode", "user-config-file"})
                   \/ todo = <<>>

\* The directory of a list is known.  It fails for bogotune with the name of a file in the
\* current directory (paths.c:344).
DirectoryKnown == pc = "ready" => \A i \in DOMAIN bfp : bfp[i].dirname # Unset

\* bogohome is a directory.  It fails for bogotune with the name of a file
\* (bogotune.c:1859), and compute_robinson_x ends the program then (paths.c:316).
HomeIsADirectory == pc = "ready" /\ bogohome # Unset => IsDir(bogohome)

\* Tokens are unregistered from lists that are there (wordlists.c:170).  It fails: the
\* answer of bfpath_check_mode is not used.
UnregistersFromAList ==
    case.program = "bogofilter" /\ case.unreg /\ pc = "ready" => \A i \in DOMAIN bfp : bfp[i].exists
=============================================================================
