--------------------------- MODULE Configuration ---------------------------
(***************************************************************************)
(* How bogofilter and bogoutil come to their options (bogoconfig.c,        *)
(* configfile.c, paths.c, the arguments of bogoutil.c): the command line   *)
(* is walked, configuration files are read, and bogofilter walks its       *)
(* command line once more, so that it has the last word. A file named with *)
(* -c is read where it stands.                                             *)
(*                                                                         *)
(* An option is a record of a name and a value; one option stands for all  *)
(* that are treated alike.                                                 *)
(***************************************************************************)
EXTENDS Naturals, Sequences, SequencesExt, FiniteSets

CONSTANTS
    Cases,      \* command lines, with files and an environment
    Unset       \* no directory, no value

VARIABLES
    pc,
    case,       \* program, cli, extra, files, env
    todo,       \* the options that are to be processed, with pass and precedence
    o           \* the options

vars == <<pc, case, todo, o>>

\* The options with a value, and their defaults; spam_cutoff stands for those that
\* the first pass leaves out, max_token_len for those that every pass sets.
ValueOptions == {"spam_cutoff", "max_token_len", "token_count_fix", "token_count_min",
                 "token_count_max"}
Guarded == {"spam_cutoff"}
RunTypes == {"spam", "good", "unspam", "ungood"}

Opt(name, val) == [name |-> name, val |-> val]

\* priority_t
PR_NONE == 0
PR_ENV_HOME == 1
PR_CFG_SITE == 2
PR_CFG_USER == 3
PR_ENV_BOGO == 5
PR_COMMAND == 6

Defaults == [value |-> [n \in ValueOptions |-> 0], verbose |-> 0, passthrough |-> FALSE,
             bulk |-> FALSE, run |-> {}, lists |-> {}, suppress |-> FALSE,
             user_config_file |-> "user", bogohome |-> Unset, saved |-> PR_NONE]

\* The options of one source, as they are to be processed.
Work(options, pass, precedence, from) ==
    [i \in DOMAIN options |-> [opt |-> options[i], pass |-> pass,
                               precedence |-> precedence, from |-> from]]

Init == /\ pc = "first" /\ case \in Cases /\ o = Defaults
        /\ todo = Work(case.cli, 1, PR_COMMAND, "cli")

-----------------------------------------------------------------------------
(* One option: process_arg, and process_config_option for one of a file.   *)

\* check_run_type: what -s, -n, -S and -N cannot be used with.
Conflict(run) == CASE run = "spam"   -> {"good", "unspam"}
                   [] run = "good"   -> {"spam", "ungood"}
                   [] run = "unspam" -> {"spam", "ungood"}
                   [] run = "ungood" -> {"good", "unspam"}

\* set_wordlist_dir
Directory(dir, precedence) ==
    IF precedence < o.saved THEN o
    ELSE [o EXCEPT !.bogohome = dir, !.saved = precedence]


\* Mutant: -v counts in both walks.
CountsInBoth(pass) == pass # 2

\* -v counts in the first walk only.
Counts(pass) == pass = 1

\* What an option sets.
Set(opt, pass, precedence) ==
    CASE opt.name \in ValueOptions ->
            IF opt.name \in Guarded /\ pass = 1 THEN o
            ELSE [o EXCEPT !.value[opt.name] = opt.val]
      [] opt.name = "verbose" -> IF Counts(pass) THEN [o EXCEPT !.verbose = @ + 1] ELSE o
      [] opt.name = "passthrough" -> [o EXCEPT !.passthrough = TRUE]
      [] opt.name = "bulk" -> [o EXCEPT !.bulk = TRUE]
      [] opt.name \in RunTypes \cup {"update"} -> [o EXCEPT !.run = @ \cup {opt.name}]
      [] opt.name = "wordlist" -> [o EXCEPT !.lists = @ \cup {opt.val}]
      [] opt.name = "dir" -> IF pass = 1 THEN o ELSE Directory(opt.val, precedence)
      [] opt.name \in {"c", "C"} -> IF pass = 1 THEN [o EXCEPT !.suppress = TRUE] ELSE o
      [] opt.name = "user_config_file" -> [o EXCEPT !.user_config_file = opt.val]
      [] OTHER -> o

\* An option that ends the program: a conflict; -c with a file that is not there,
\* or an option that does not exist in such a file.
Ends(w) == \/ w.opt.name = "help"
           \/ w.opt.name \in RunTypes /\ o.run \cap Conflict(w.opt.name) # {}
           \/ w.opt.name = "c" /\ w.pass = 1 /\ case.files[w.opt.val] = Unset
           \/ w.opt.name = "bad" /\ w.from = "-c"

ProcessArg ==
    /\ pc \in {"first", "site", "user", "last"} /\ todo # <<>>
    /\ LET w == Head(todo)
       IN IF Ends(w) THEN pc' = "exit" /\ UNCHANGED <<todo, o>>
          ELSE /\ o' = Set(w.opt, w.pass, w.precedence)
               /\ todo' = (IF w.opt.name = "c" /\ w.pass = 1
                           THEN Work(case.files[w.opt.val], 2, PR_CFG_USER, "-c") ELSE <<>>)
                          \o Tail(todo)
               /\ UNCHANGED pc
    /\ UNCHANGED case

-----------------------------------------------------------------------------
(* The passes                                                              *)

FileOptions(f, precedence) ==
    IF o.suppress \/ case.files[f] = Unset THEN <<>>
    ELSE Work(case.files[f], 2, precedence, f)

\* After the first pass, process_config_files.  Where nothing is to be registered
\* the run type is to classify.
EndOfFirstPass ==
    /\ pc = "first" /\ todo = <<>>
    /\ pc' = "site" /\ todo' = FileOptions("site", PR_CFG_SITE)
    /\ o' = IF case.program = "bogofilter" /\ o.run = {} THEN [o EXCEPT !.run = {"normal"}]
            ELSE o
    /\ UNCHANGED case

\* The site's file may say where the user's is.
EndOfSiteFile ==
    /\ pc = "site" /\ todo = <<>>
    /\ pc' = "user" /\ todo' = FileOptions(o.user_config_file, PR_CFG_USER)
    /\ UNCHANGED <<case, o>>

\* bogofilter walks its command line again.
EndOfUserFile ==
    /\ pc = "user" /\ todo = <<>>
    /\ IF case.program = "bogofilter"
       THEN pc' = "last" /\ todo' = Work(case.cli, 3, PR_COMMAND, "cli")
       ELSE pc' = "validated" /\ UNCHANGED todo
    /\ UNCHANGED <<case, o>>

\* token_count_conflict; 0 is none
TokenCountConflict(v) ==
    \/ v["token_count_fix"] \in 1 .. v["token_count_min"] - 1
    \/ /\ v["token_count_max"] # 0
       /\ \/ v["token_count_max"] < v["token_count_min"]
          \/ v["token_count_max"] < v["token_count_fix"]

\* validate_args and what process_arglist looks at after the last pass.
Valid == /\ ~(o.run \cap RunTypes # {} /\ o.run \cap {"normal", "update"} # {})
         /\ case.extra => o.bulk
         /\ ~TokenCountConflict(o.value)

EndOfLastPass ==
    /\ pc = "last" /\ todo = <<>>
    /\ pc' = IF Valid THEN "validated" ELSE "exit"
    /\ UNCHANGED <<case, todo, o>>

\* wordlists_set_bogohome: where nothing has named a directory, the environment
\* does, BOGOFILTER_DIR and BOGODIR before HOME.  bogoutil takes the current one.
EnvDirectory == IF case.env.BOGO # Unset THEN case.env.BOGO ELSE case.env.HOME
Found == IF o.bogohome # Unset THEN o.bogohome
         ELSE IF case.program = "bogoutil" THEN "." ELSE EnvDirectory
SetBogohome ==
    /\ pc = "validated"
    /\ pc' = IF Found = Unset THEN "exit" ELSE "ready"
    /\ o' = [o EXCEPT !.bogohome = Found, !.lists = IF @ = {} THEN {"wordlist.db"} ELSE @]
    /\ UNCHANGED <<case, todo>>

Next == \/ ProcessArg \/ EndOfFirstPass \/ EndOfSiteFile \/ EndOfUserFile
        \/ EndOfLastPass \/ SetBogohome

Spec == Init /\ [][Next]_vars

-----------------------------------------------------------------------------
(* Properties                                                              *)

TypeOK == /\ pc \in {"first", "site", "user", "last", "validated", "ready", "exit"}
          /\ case \in Cases
          /\ o.run \subseteq RunTypes \cup {"normal", "update"}
          /\ o.verbose \in Nat /\ o.saved \in PR_NONE .. PR_COMMAND

\* The files that count, in the order in which they are to have a say.
UserFile == LET on == SelectSeq(case.cli, LAMBDA x : x.name = "user_config_file")
                inSite == IF case.files["site"] = Unset THEN <<>>
                          ELSE SelectSeq(case.files["site"], LAMBDA x : x.name = "user_config_file")
            IN IF on # <<>> THEN Last(on).val ELSE IF inSite # <<>> THEN Last(inSite).val ELSE "user"
Named == SelectSeq(case.cli, LAMBDA x : x.name = "c")
Content(f) == IF case.files[f] = Unset THEN <<>> ELSE case.files[f]
FromFiles == IF \E i \in DOMAIN case.cli : case.cli[i].name \in {"c", "C"}
             THEN FlattenSeq([i \in DOMAIN Named |-> Content(Named[i].val)])
             ELSE Content("site") \o Content(UserFile)

\* What the last of the sources, or else the default, says an option is.
Says(name, default) ==
    LET all == SelectSeq(FromFiles \o case.cli, LAMBDA x : x.name = name)
    IN IF all = <<>> THEN default ELSE Last(all).val

\* The command line has the last word, then the user's file, then the site's,
\* whatever the order of the options.  It fails for bogoutil, which reads the files
\* after its command line (bogoutil.c:912), and where the site's file names a
\* user's file and the command line another: the site's is read (configfile.c:211).
CommandLineWins ==
    pc = "ready" => /\ \A n \in ValueOptions : o.value[n] = Says(n, 0)
                    /\ o.bogohome = Says("dir", IF case.program = "bogoutil" THEN "."
                                                ELSE EnvDirectory)

\* What a walk over the command line adds to, its two walks do not add to twice,
\* and a wordlist that some source names is in use.
NothingTwice ==
    pc = "ready" /\ case.program = "bogofilter" =>
        /\ o.verbose = Len(SelectSeq(case.cli, LAMBDA x : x.name = "verbose"))
        /\ LET named == {(FromFiles \o case.cli)[i].val : i \in
                            {j \in DOMAIN (FromFiles \o case.cli) :
                                (FromFiles \o case.cli)[j].name = "wordlist"}}
           IN o.lists = IF named = {} THEN {"wordlist.db"} ELSE named

\* bogofilter either classifies, and may then register what it has found out, or
\* it changes the count of one kind of mail up and of the other down, from whatever
\* sources its options come: MessageLoop takes this for granted.
RunTypeFits ==
    pc = "ready" /\ case.program = "bogofilter" =>
        \/ o.run \in {{"normal"}, {"normal", "update"}, {"update"}}
        \/ o.run # {} /\ o.run \subseteq {"spam", "ungood"}
        \/ o.run # {} /\ o.run \subseteq {"good", "unspam"}

\* The precedence that the comment in wordlists_base.c:114 gives: BOGOFILTER_DIR
\* before the files.  It fails: a directory from a file is not looked up again.
EnvironmentBeforeFiles ==
    pc = "ready" /\ case.program = "bogofilter" /\ case.env.BOGO # Unset =>
        \/ o.bogohome = case.env.BOGO
        \/ \E i \in DOMAIN case.cli : case.cli[i].name = "dir"
=============================================================================
