------------------------------ MODULE MCScoring ------------------------------
(***************************************************************************)
(* What the programs do with the tokens of messages, in seven components   *)
(* that a TLC run takes one at a time: their counts are looked up (Lookup),*)
(* they are kept in tables (WordHash) and scored (Score), lines are made   *)
(* of the result (Format), bogoutil counts tokens (Statistics), and        *)
(* bogotune reads, divides and trains on messages (Tuning) and looks for   *)
(* the best parameters (ParameterScan).                                    *)
(***************************************************************************)
EXTENDS Lookup

CONSTANTS
    Components,                             \* that the run takes
    user, system, ignored, a, b,            \* of Lookup
    Unset
VARIABLES
    component,
    hpc, w, words, sort, link, given,
    job, tpc, class, item, train, tmsgs, list, sets, written, trained,
    spc, plan, scan, axes, parms, ns, sp, target, coerced, cutoff, results, best, advice,
    cpc, cjob, robx, wn, wh, robn, score, stats, out,
    fpc, fjob, o, run_type, fn, calls, m, msg_register, log,
    upc, work, ulist, pos, umsgs, sum, count, hist, ones, shown, rc

lookupVars == vars
hashVars == <<hpc, w, words, sort, link, given>>
tuningVars == <<job, tpc, class, item, train, tmsgs, list, sets, written, trained>>
scanVars == <<spc, plan, scan, axes, parms, ns, sp, target, coerced, cutoff, results, best, advice>>
scoreVars == <<cpc, cjob, robx, wn, wh, robn, score, stats, out>>
formatVars == <<fpc, fjob, o, run_type, fn, calls, m, msg_register, log>>
statisticsVars == <<upc, work, ulist, pos, umsgs, sum, count, hist, ones, shown, rc>>
allVars == <<component, lookupVars, hashVars, tuningVars, scanVars, scoreVars, formatVars,
             statisticsVars>>

-----------------------------------------------------------------------------
(* Lookup: two regular lists and an ignore list, in front of them or after *)
(* them, and a precedence that the documentation does not name.            *)

MCWords == <<a, b>>
ConfigLine(file, type, precedence) == [file |-> file, type |-> type, override |-> precedence]
MCConfigLines ==
    {ConfigLine(user, "regular", 1), ConfigLine(system, "regular", 2),
     ConfigLine(ignored, "ignore", 1), ConfigLine(ignored, "ignore", 2),
     ConfigLine(user, "regular", -1)}

-----------------------------------------------------------------------------
(* WordHash: up to four tokens in two messages, in two bins.               *)

MCHash(t) == t % 2

W == INSTANCE WordHash WITH
        Word <- 1 .. 4, Hash <- MCHash, MaxTokens <- 4, MaxMessages <- 2, pc <- hpc

ASSUME W!WordHashAssumption

-----------------------------------------------------------------------------
(* Tuning: up to ten mails of each class, one of them without tokens; four *)
(* of them are enough to train and one is enough to score.                 *)

Mails(n, k) ==
    [i \in 1 .. n |-> IF (i + k) % 4 = 0 THEN {1} ELSE IF (i + k) % 4 = 1 THEN {1, 2}
                      ELSE IF i = 3 THEN {} ELSE {2}]
DiskCounts(n) ==
    [loads |-> n # 1, count |-> [t \in {1, 2} |-> [good |-> 3, spam |-> t]],
     msgs |-> IF n = 2 THEN [good |-> 0, spam |-> 0] ELSE [good |-> 5, spam |-> 6]]
MCInput(f, r, k, n, p, d, lex, both) ==
    [ds_flag |-> f, user_robx |-> r, kind |-> k, wordlist |-> DiskCounts(d),
     mails |-> [good |-> Mails(n, 0), spam |-> Mails(p, 1)], lex |-> lex, lists |-> both]
MCInputs ==
    {MCInput(f, r, k, n, p, 0, <<>>, TRUE) :
        f \in {"DSK", "RAM"}, r \in BOOLEAN, k \in {"mail", "counts"},
        n \in 0 .. 10, p \in 0 .. 10}
    \cup {MCInput(f, FALSE, "mail", 2, 2, d, lex, both) :
        f \in {"DSK", "RAM"}, d \in 0 .. 2, both \in BOOLEAN,
        lex \in {<<>>, Mails(3, 0), Mails(4, 1)}}

T == INSTANCE Tuning WITH
        Word <- {1, 2}, Inputs <- MCInputs, ListCount <- 4, TestCount <- 1,
        pc <- tpc, msgs <- tmsgs

ASSUME T!TuningAssumption

-----------------------------------------------------------------------------
(* ParameterScan: a grid with a middle, in which a set has neighbours on   *)
(* all sides of two directions, and one with an edge only.                 *)

MCScore(ham, spam) == [ham |-> ham, spam |-> spam]
MCScores(p) ==
    IF p.esf_flag THEN {MCScore(<<4, 3, 1>>, <<1, 4>>), MCScore(<<0, 2, 3>>, <<4, 4>>),
                           MCScore(<<0, 0, 0>>, <<1, 1>>)}
    ELSE {MCScore(<<4, 3, 1>>, <<1, 4>>), MCScore(<<3, 2, 1>>, <<1, 1>>),
          MCScore(<<2, 1, 3>>, <<4, 1>>), MCScore(<<3, 2, 1>>, <<4, 4>>)}

\* In thousandths, rs in halves of a decade.
CoarseRange(fst, lst, amt) == [fst |-> fst, lst |-> lst, amt |-> amt]
FineRange(min, max, radius, amt) == [min |-> min, max |-> max, radius |-> radius, amt |-> amt]
MCPlans ==
    {[esf_flag |-> FALSE, default |-> [rs |-> -3, md |-> 20, rx |-> 500],
      coarse |-> [rs |-> CoarseRange(0, 0, -2), md |-> CoarseRange(60, 140, 80), rx |-> 100,
                  sp |-> CoarseRange(2, 20, 3), ns |-> CoarseRange(2, 20, 3)],
      fine |-> [rs |-> FineRange(-4, 0, 0, -1), md |-> FineRange(20, 394, 42, 42), rx |-> 250,
                sp |-> FineRange(0, 20, 1, 1), ns |-> FineRange(0, 20, 1, 1)]],
     [esf_flag |-> TRUE, default |-> [rs |-> -3, md |-> 20, rx |-> 390],
      coarse |-> [rs |-> CoarseRange(0, -2, -2), md |-> CoarseRange(60, 60, 80), rx |-> 250,
                  sp |-> CoarseRange(2, 2, 3), ns |-> CoarseRange(2, 5, 3)],
      fine |-> [rs |-> FineRange(-2, 0, 1, -1), md |-> FineRange(20, 394, 0, 14), rx |-> 250,
                sp |-> FineRange(0, 20, 0, 1), ns |-> FineRange(0, 5, 1, 1)]]}

P == INSTANCE ParameterScan WITH
        Plans <- MCPlans, Scores <- MCScores, RX_MIN <- 400, RX_MAX <- 600,
        Minn <- <<2>>, pc <- spc

ASSUME P!ParameterScanAssumption

-----------------------------------------------------------------------------
(* Score: two messages of up to four tokens, on either side of EVEN_ODDS   *)
(* or at it, with and without limits on the tokens that count.             *)

Limits == {<<0, 0, 0>>, <<2, 0, 0>>, <<0, 2, 0>>, <<0, 0, 2>>, <<0, 1, 3>>, <<2, 1, 3>>}
Option(limits, verbose, table, unsure, tune) ==
    [fix |-> limits[1], min |-> limits[2], max |-> limits[3], verbose |-> verbose,
     Rtable |-> table, unsure_stats |-> unsure, passthrough |-> FALSE, bogotune |-> tune,
     min_dev |-> 1, spam_cutoff |-> 4, ham_cutoff |-> -2]
MCOptions ==
    {Option(l, v, FALSE, v = 1, FALSE) : l \in Limits, v \in 0 .. 3}
    \cup {Option(l, 0, FALSE, FALSE, TRUE) : l \in Limits}
    \cup {Option(<<0, 0, 2>>, 0, TRUE, FALSE, FALSE)}
RobxIs(option, read, val) == [given |-> option, read |-> read, val |-> val]
MCScoreJobs ==
    {[opt |-> q, robx |-> RobxIs(TRUE, "found", 1), messages |-> <<m1, m2>>] :
        q \in MCOptions, m1 \in {<<2, -2>>, <<1, -2, 2, 2>>},
        m2 \in UNION {[1 .. k -> {-2, -1, 2}] : k \in 0 .. 4}}
    \cup {[opt |-> Option(<<0, 0, 0>>, 3, FALSE, TRUE, FALSE), robx |-> r, messages |-> <<msg>>] :
            r \in {RobxIs(TRUE, "found", 1), RobxIs(FALSE, "found", -3),
                   RobxIs(FALSE, "aborted", 2), RobxIs(TRUE, "found", 4)},
            msg \in {<<>>, <<1>>, <<2, -1>>}}

S == INSTANCE Score WITH
        Jobs <- MCScoreJobs, Top <- 3, Underflow <- 7, Fins <- <<-1, 1, 2, 3>>,
        None <- Unset, pc <- cpc, job <- cjob, n <- wn

-----------------------------------------------------------------------------
(* Format: formats of up to three directives, and ones as long as a line;  *)
(* options for the tags; up to three messages for syslog.                  *)

MCTexts == {"Spam", "Ham", "Unsure", "Y", "N", "UNKNOWN", "name", "s"}
MCLength == [t \in MCTexts |-> CASE t \in {"Y", "N", "s"} -> 1 [] t = "Ham" -> 3
                                  [] t \in {"Spam", "name"} -> 4 [] t = "Unsure" -> 6
                                  [] t = "UNKNOWN" -> 7]
Msg(status, sure, near, text) ==
    [status |-> status, sure |-> sure, near |-> near, text |-> text, registered |-> "s"]
FormatJob(mode, logflag, options, format, mails) ==
    [mode |-> mode, logflag |-> logflag, options |-> options, format |-> format,
     register_format |-> <<"%", "r">>, messages |-> mails]
Directives ==
    {<<"%", "c">>, <<"x">>, <<"%", ".", "1", "c">>, <<"%", "5", ".", "h">>, <<"%", "h">>,
     <<"%", "D">>, <<"%", "d">>, <<"%", "p">>, <<"%", "#", ".", "1", "0", "e">>,
     <<"%", "0", ".", "5", "0", "f">>, <<"%", "-", "o">>, <<"%", "%">>, <<"%", "r">>,
     <<"%", "z">>, <<"%">>, <<"%", ".", "5">>}
Xs(k) == [i \in 1 .. k |-> "x"]

LineJobs ==
    {FormatJob("RUN_NORMAL", FALSE, <<>>, f \o g \o h, <<msg>>) :
        f \in Directives, g \in Directives, h \in Directives,
        msg \in {Msg("RC_SPAM", TRUE, TRUE, "name"), Msg("RC_UNSURE", TRUE, FALSE, Unset)}}
    \cup {FormatJob("RUN_NORMAL", FALSE, <<>>, Xs(k) \o d, <<Msg("RC_HAM", TRUE, FALSE, Unset)>>) :
            k \in 24 .. 28, d \in Directives \cup {Xs(2)}}
TagOptions ==
    {[name |-> "spamicity_tags", tags |-> v, digits |-> <<>>] :
        v \in {<<"Y">>, <<"Y", "N">>, <<"Y", "N", "Unsure", "s">>}}
    \cup {[name |-> "T", tags |-> <<>>, digits |-> <<k>>] : k \in 0 .. 2}
    \cup {[name |-> "spamicity_formats", tags |-> <<>>, digits |-> <<2, 25>>]}
TagJobs ==
    {FormatJob("RUN_NORMAL", FALSE, opts, <<"%", "c", "%", "p">>, <<Msg(s, TRUE, FALSE, Unset)>>) :
        opts \in UNION {[1 .. k -> TagOptions] : k \in 0 .. 2},
        s \in {"RC_SPAM", "RC_HAM", "RC_UNSURE"}}
LogJobs ==
    {FormatJob(mode, l, <<>>, <<"%", "c">>, mails) :
        mode \in {"RUN_NORMAL", "RUN_UPDATE", "REG_SPAM"}, l \in BOOLEAN,
        mails \in UNION {[1 .. k -> {Msg("RC_SPAM", TRUE, FALSE, Unset),
                                     Msg("RC_HAM", TRUE, FALSE, Unset),
                                     Msg("RC_HAM", FALSE, FALSE, Unset),
                                     Msg("RC_UNSURE", TRUE, FALSE, Unset)}] : k \in 0 .. 3}}

F == INSTANCE Format WITH
        Jobs <- LineJobs \cup TagJobs \cup LogJobs, Size <- 30, Length <- MCLength,
        None <- Unset, pc <- fpc, job <- fjob, n <- fn

-----------------------------------------------------------------------------
(* Statistics: a wordlist of three tokens, of which each may be absent, of *)
(* one kind or of both; up to two words are asked for.                     *)

V(spam, good) == [spam |-> spam, good |-> good]
MCLists ==
    {[M |-> k, R |-> Unset, x |-> v, y |-> u, z |-> t] :
        k \in {Unset, V(2, 3), V(0, 2), V(2, 0)}, v \in {Unset, V(1, 0), V(0, 1)},
        u \in {V(2, 2), V(0, 3), V(3, 0)}, t \in {Unset, V(1, 2), V(0, 0), V(1, 0)}}
Word(text) == [text |-> text, newline |-> TRUE]
MCAsked == UNION {[1 .. k -> {Word("x"), Word("y")}] : k \in 0 .. 2}
           \cup {<<Word("z"), [text |-> "y", newline |-> FALSE]>>}
MCWorks ==
    {[cmd |-> c, list |-> l, words |-> <<>>, stdin |-> FALSE, verbose |-> v,
      later |-> [l EXCEPT !.x = V(1, 3), !.M = V(3, 3)]] :
        c \in {"-r", "-R", "-H"}, l \in MCLists, v \in 0 .. 3}
    \cup {[cmd |-> "-w", list |-> l, words |-> asked, stdin |-> i, verbose |-> 0, later |-> l] :
            l \in MCLists, asked \in MCAsked, i \in BOOLEAN}

U == INSTANCE Statistics WITH
        Order <- <<"M", "R", "x", "y", "z">>, Meta <- {"M", "R"}, MsgCount <- "M",
        Robx <- "R", Absent <- Unset, Intervals <- 4, MinCount <- 3, Scale <- 1000,
        Modulus <- 16, Works <- MCWorks, pc <- upc, list <- ulist, msgs <- umsgs

ASSUME S!ScoreAssumption /\ F!FormatAssumption /\ U!StatisticsAssumption

-----------------------------------------------------------------------------
(* The run: a component that does not take part stands still.              *)

LookupInit ==
    /\ component # "lookup" => /\ config = <<>>
                               /\ content = [f \in File |-> [msgs |-> 0, count |-> <<>>]]
    /\ IF component = "lookup" THEN Init
       ELSE /\ word_lists = <<>> /\ todo = <<>> /\ cursor = 1 /\ override = 0
            /\ cnts = [t \in Token |-> 0] /\ msgs = [t \in Token |-> 0] /\ retries = 0

TuningInit ==
    IF component = "tuning" THEN T!Init
    ELSE /\ tpc = "off" /\ job = Unset /\ class = 1 /\ item = 1 /\ train = Unset
         /\ tmsgs = Unset /\ list = Unset /\ sets = Unset /\ written = <<>> /\ trained = Unset

ScanInit ==
    IF component = "scan" THEN P!Init
    ELSE /\ spc = "off" /\ plan = Unset /\ axes = <<>> /\ parms = <<>> /\ ns = <<>> /\ sp = <<>> /\ scan = 0 /\ target = 0
         /\ coerced = FALSE /\ cutoff = 0 /\ results = <<>> /\ best = 0 /\ advice = Unset

ScoreInit ==
    IF component = "score" THEN S!Init
    ELSE /\ cpc = "off" /\ cjob = Unset /\ robx = 0 /\ wn = 0 /\ wh = <<>> /\ robn = 0
         /\ score = Unset /\ stats = Unset /\ out = <<>>

FormatInit ==
    IF component = "format" THEN F!Init
    ELSE /\ fpc = "off" /\ fjob = Unset /\ o = Unset /\ run_type = {} /\ fn = 0 /\ calls = <<>>
         /\ m = Unset /\ msg_register = 0 /\ log = <<>>

StatisticsInit ==
    IF component = "statistics" THEN U!Init
    ELSE /\ upc = "off" /\ work = Unset /\ ulist = Unset /\ pos = 1 /\ umsgs = Unset
         /\ sum = 0 /\ count = 0 /\ hist = Unset /\ ones = Unset /\ shown = <<>> /\ rc = "ok"

ScoringInit ==
    /\ component \in Components
    /\ W!Init /\ TuningInit /\ ScanInit /\ LookupInit /\ ScoreInit /\ FormatInit
    /\ StatisticsInit

LookUp ==
    /\ Next
    /\ UNCHANGED <<hashVars, tuningVars, scanVars, scoreVars, formatVars, statisticsVars>>

HashTokens ==
    /\ W!Next
    /\ UNCHANGED <<lookupVars, tuningVars, scanVars, scoreVars, formatVars, statisticsVars>>

Tune ==
    /\ T!Next
    /\ UNCHANGED <<lookupVars, hashVars, scanVars, scoreVars, formatVars, statisticsVars>>

Scan ==
    /\ P!Next
    /\ UNCHANGED <<lookupVars, hashVars, tuningVars, scoreVars, formatVars, statisticsVars>>

ScoreMessages ==
    /\ S!Next
    /\ UNCHANGED <<lookupVars, hashVars, tuningVars, scanVars, formatVars, statisticsVars>>

FormatLines ==
    /\ F!Next
    /\ UNCHANGED <<lookupVars, hashVars, tuningVars, scanVars, scoreVars, statisticsVars>>

CountWords ==
    /\ U!Next
    /\ UNCHANGED <<lookupVars, hashVars, tuningVars, scanVars, scoreVars, formatVars>>

ScoringNext ==
    /\ UNCHANGED component
    /\ \/ component = "lookup" /\ LookUp
       \/ component = "hash" /\ HashTokens
       \/ component = "tuning" /\ Tune
       \/ component = "scan" /\ Scan
       \/ component = "score" /\ ScoreMessages
       \/ component = "format" /\ FormatLines
       \/ component = "statistics" /\ CountWords

ScoringSpec == ScoringInit /\ [][ScoringNext]_allVars

-----------------------------------------------------------------------------
(* Properties of the components; those of Lookup are ListsOrdered,         *)
(* CountsSummed and IgnoredCountsNothing.                                  *)

\* The list of a table has all of its tokens, in order after a sort, and a
\* table never loses a node (WordHash).
TablesKeepAll == component = "hash" => W!SortedWhole /\ W!NoNodeLost

\* bogotune scores a message by what the others were trained with, keeps enough
\* messages of both kinds for both (Tuning), chooses what is good all around, and
\* keeps to its target (ParameterScan).
TuningSound ==
    /\ component = "tuning" => T!ScoredByTraining /\ T!EnoughOfBoth /\ T!CountsAsInMail
    /\ component = "scan" => P!BestIsSmooth /\ P!TargetMeetsCutoff /\ P!ScansItsGrid

\* A message is scored by the tokens that deviate most, as many as the options ask
\* for, and its tokens are printed once (Score).  x, the histogram and the counts of
\* words are those of the whole wordlist, and nothing but x is written (Statistics).
\* A line tells what its format asks for and fits in its buffer, and syslog gets every
\* registration once (Format).
ScoreSound ==
    /\ component = "score" => S!BestAreUsed /\ S!SpamicityOfUsed /\ S!PrintedOnce
    /\ component = "format" => F!FormatSound
    /\ component = "statistics" => /\ U!RobxIsMean /\ U!OnlyRobxWritten
                                   /\ U!HistogramTrue /\ U!WordsShown

\* The counterexamples: see the comments in the components.
MemoryListTrained == T!MemoryListTrained
SomethingToScore == T!SomethingToScore
NothingReadOutside == P!NothingReadOutside
ExpectedMissesTrue == P!ExpectedMissesTrue
SummaryIsOfMessage == S!SummaryIsOfMessage
MaxIsExact == S!MaxIsExact
BogotuneKeepsLimits == S!BogotuneKeepsLimits
ClassificationsLogged == component = "format" => F!ClassificationsLogged
TerminatorFits == component = "format" => F!TerminatorFits
SpamicityShown == component = "format" => F!SpamicityShown
WidthsCount == component = "format" => F!WidthsCount
HistogramTrueAlways == U!HistogramTrueAlways
HistogramNotCut == U!HistogramNotCut
AllWordsShown == U!AllWordsShown
=============================================================================
