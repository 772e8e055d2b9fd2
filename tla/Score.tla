------------------------------- MODULE Score -------------------------------
(***************************************************************************)
(* How messages are scored (score.c, prob.c, rstats.c): the tokens that    *)
(* are to be used are chosen by their deviation from even odds, or so that *)
(* their number fits the token_count options; their probabilities are      *)
(* multiplied, and what is printed with -v is collected on the way.        *)
(*                                                                         *)
(* A probability is an integer, 0 for even odds and Top for a certain      *)
(* spam, which no probability is; the logarithms of the two products are   *)
(* sums of integers, and the spamicity is the difference of these sums.    *)
(* The statics of score.c live on from one message to the next.            *)
(***************************************************************************)
EXTENDS Integers, Sequences, SequencesExt, FiniteSets

CONSTANTS
    Jobs,       \* options, and the probabilities of the tokens of messages
    Top,        \* more than any probability
    Underflow,  \* the logarithm at which a mantissa is made larger
    Fins,       \* the upper ends of the intervals of the histogram
    None        \* no statistics

ScoreAssumption ==
    /\ Top \in Nat \ {0} /\ Underflow \in Nat /\ Fins \in Seq(-Top .. Top)
    /\ Fins # <<>> /\ Fins[Len(Fins)] = Top

VARIABLES
    pc,
    job,        \* opt, source of robx, messages
    robx,
    n,          \* the messages so far
    wh,         \* the tokens in the order of the list of the table
    robn,
    score,      \* the static score
    stats,      \* stats_head and its list
    out         \* what is printed of the message

vars == <<pc, job, robx, n, wh, robn, score, stats, out>>

EVEN_ODDS == 0
Abs(x) == IF x < 0 THEN -x ELSE x
Dev(token) == Abs(token.prob - EVEN_ODDS)
SumOver(f(_), s) == FoldLeft(LAMBDA sum, e : sum + f(e), 0, s)
Largest(S) == CHOOSE x \in S : \A y \in S : y <= x

NoScore == [min_dev |-> 0, spamicity |-> 0, robn |-> 0, p |-> 0, q |-> 0]
NoStats == [list |-> <<>>, robn |-> 0, spamicity |-> 0]
NoOutput == [table |-> <<>>, hist |-> <<>>, summary |-> None]

Init == /\ pc = "start" /\ job \in Jobs /\ robx = 0 /\ n = 0 /\ wh = <<>> /\ robn = 0
        /\ score = NoScore /\ stats = None /\ out = NoOutput

-----------------------------------------------------------------------------
(* score_initialize: robx is given, or is the one of the wordlist, or the  *)
(* default when that cannot be read, for whatever reason, or is 0.         *)

ROBX == 0
Robx == CASE job.robx.given -> job.robx.val
          [] ~job.robx.given /\ job.robx.read = "found" /\ job.robx.val # -Top -> job.robx.val
          [] OTHER -> ROBX

ScoreInitialize ==
    /\ pc = "start"
    /\ robx' = Robx
    /\ pc' = IF Robx \in -Top .. Top THEN "more" ELSE "exit"
    /\ UNCHANGED <<job, n, wh, robn, score, stats, out>>

\* The tokens of a message are collected; rstats_init.
ReadMessage ==
    /\ pc = "more" /\ n < Len(job.messages)
    /\ n' = n + 1 /\ out' = NoOutput
    /\ wh' = [i \in DOMAIN job.messages[n + 1] |->
                 [key |-> i, prob |-> job.messages[n + 1][i], used |-> FALSE]]
    /\ stats' = IF stats = None THEN NoStats ELSE stats
    /\ pc' = "scores"
    /\ UNCHANGED <<job, robx, robn, score>>

-----------------------------------------------------------------------------
(* msg_compute_spamicity                                                   *)

NeedStats == ~job.opt.bogotune /\ (job.opt.Rtable \/ job.opt.passthrough \/ job.opt.verbose > 0)

\* compute_count_and_scores; bogotune has no place for the flags.
ComputeScores ==
    /\ pc = "scores"
    /\ wh' = IF job.opt.bogotune THEN wh
             ELSE [i \in DOMAIN wh |-> [wh[i] EXCEPT !.used = Dev(wh[i]) > job.opt.min_dev]]
    /\ robn' = Cardinality({i \in DOMAIN wh' : wh'[i].used})
    /\ pc' = "boundary"
    /\ UNCHANGED <<job, robx, n, score, stats, out>>

\* need_scoring_boundary; a limit of 0 is none.
Need == \/ job.opt.min # 0 /\ robn < job.opt.min
        \/ job.opt.max # 0 /\ robn > job.opt.max
        \/ job.opt.fix # 0 /\ robn # job.opt.fix

compare_hashnode_t(node1, node2) ==
    IF Dev(node1) < Dev(node2) THEN 1 ELSE IF Dev(node1) > Dev(node2) THEN -1 ELSE 0

\* listsort with compare_hashnode_t: by falling deviation, and stable.  The counts
\* of bogotune are no list, and stay as they are.
ByDeviation ==
    IF job.opt.bogotune THEN wh
    ELSE LET order == SetToSortSeq(DOMAIN wh,
                          LAMBDA i, j : LET c == compare_hashnode_t(wh[i], wh[j])
                                        IN c < 0 \/ (c = 0 /\ i < j))
         IN [i \in DOMAIN wh |-> wh[order[i]]]

\* Mutant: the smallest of the limits is kept.
CountSmallest == LET limits == {job.opt.fix, job.opt.min, job.opt.max} \ {0}
                 IN CHOOSE x \in limits : \A y \in limits : x <= y
Count == Largest({job.opt.fix, job.opt.min, job.opt.max})

\* find_scoring_boundary: the first Count tokens, and those with the deviation of
\* the last of these.
Boundary(list) ==
    IF list = <<>> THEN (IF job.opt.max = 0 THEN job.opt.min_dev ELSE Top)
    ELSE Dev(list[IF Count < Len(list) THEN Count ELSE Len(list)])

Marked(list) ==
    IF job.opt.bogotune THEN list
    ELSE [i \in DOMAIN list |->
             [list[i] EXCEPT !.used = i <= Count \/ Dev(list[i]) >= Boundary(list)]]

FindBoundary ==
    /\ pc = "boundary"
    /\ IF Need THEN /\ wh' = Marked(ByDeviation)
                    /\ score' = [score EXCEPT !.min_dev = Boundary(ByDeviation)]
       ELSE /\ score' = [score EXCEPT !.min_dev = job.opt.min_dev]
            /\ UNCHANGED wh
    /\ pc' = "spamicity"
    /\ UNCHANGED <<job, robx, n, robn, stats, out>>

\* A product as it is kept: a factor, the mantissa made larger when it is small.
Times(f, log) == IF f.mant + log > Underflow THEN [mant |-> 0, exp |-> f.exp + f.mant + log]
                 ELSE [f EXCEPT !.mant = @ + log]
One == [mant |-> 0, exp |-> 0]
Product(factors) == FoldLeft(Times, One, factors)
Log(f) == f.mant + f.exp

IsUsed(token) == IF job.opt.bogotune THEN Dev(token) > score.min_dev ELSE token.used
Used == SelectSeq(wh, IsUsed)

\* Without a token that is used, only the spamicity of the last message changes.
get_spamicity(used, P, Q) ==
    IF used = 0 THEN [score EXCEPT !.spamicity = robx]
    ELSE [score EXCEPT !.spamicity = Log(P) - Log(Q), !.robn = used, !.p = Log(P), !.q = Log(Q)]

rstats_add(st) == [st EXCEPT !.list = @ \o wh]
rstats_fini(st) == [st EXCEPT !.robn = score'.robn, !.spamicity = score'.spamicity]

\* compute_count_and_spamicity and get_spamicity; rstats_add of all tokens and, when
\* some are used, rstats_fini.
ComputeSpamicity ==
    /\ pc = "spamicity"
    /\ robn' = Len(Used)
    /\ score' = get_spamicity(robn', Product([i \in DOMAIN Used |-> Top + Used[i].prob]),
                                     Product([i \in DOMAIN Used |-> Top - Used[i].prob]))
    /\ stats' = IF ~NeedStats THEN stats
                ELSE IF robn' = 0 THEN rstats_add(stats) ELSE rstats_fini(rstats_add(stats))
    /\ pc' = "print"
    /\ UNCHANGED <<job, robx, n, wh, out>>

-----------------------------------------------------------------------------
(* What is printed: rstats_print                                           *)

\* msg_status
Status == CASE score.spamicity >= job.opt.spam_cutoff -> "spam"
            [] score.spamicity < job.opt.spam_cutoff
                 /\ (job.opt.ham_cutoff = -Top \/ score.spamicity <= job.opt.ham_cutoff) -> "ham"
            [] OTHER -> "unsure"

Unsure == job.opt.unsure_stats /\ Status = "unsure" /\ job.opt.verbose > 0

\* The list has an element without a token at its end, with a probability of 0.
Sentinel == [key |-> 0, prob |-> -Top, used |-> FALSE]
Sorted ==
    SortSeq(Append(stats.list, Sentinel),
            LAMBDA r1, r2 : \/ r1.prob < r2.prob
                            \/ r1.prob = r2.prob /\ r1.key < r2.key)

\* rstats_print_rtable leaves out the first element, and those without a token.
Table == SelectSeq(Tail(Sorted), LAMBDA r : r.key # 0)

\* rstats_print_histogram: where each interval begins on the list, and its count.
Stop[i \in 0 .. Len(Fins)] ==
    IF i = 0 THEN 1
    ELSE LET rest == {j \in Stop[i - 1] .. Len(Sorted) : Sorted[j].prob >= Fins[i]}
         IN IF rest = {} THEN Len(Sorted) + 1
            ELSE CHOOSE j \in rest : \A k \in rest : j <= k
Histogram ==
    [i \in DOMAIN Fins |-> Cardinality({j \in Stop[i - 1] .. Stop[i] - 1 : Sorted[j].used})]

RstatsPrint ==
    /\ pc = "print"
    /\ out' = CASE job.opt.bogotune -> out
                [] ~job.opt.bogotune /\ (job.opt.Rtable \/ job.opt.verbose >= 3) ->
                     [out EXCEPT !.table = Table, !.summary = score]
                [] ~job.opt.bogotune /\ ~job.opt.Rtable
                     /\ (job.opt.verbose = 2 \/ Unsure) ->
                     [out EXCEPT !.hist = Histogram]
                [] OTHER -> out
    /\ pc' = "cleanup"
    /\ UNCHANGED <<job, robx, n, wh, robn, score, stats>>

\* rstats_cleanup
Cleanup ==
    /\ pc = "cleanup" /\ stats' = None /\ pc' = "more"
    /\ UNCHANGED <<job, robx, n, wh, robn, score, out>>

Next == \/ ScoreInitialize \/ ReadMessage \/ ComputeScores \/ FindBoundary
        \/ ComputeSpamicity \/ RstatsPrint \/ Cleanup

Spec == Init /\ [][Next]_vars

-----------------------------------------------------------------------------
(* Properties                                                              *)

TypeOK == /\ pc \in {"start", "more", "scores", "boundary", "spamicity", "print",
                     "cleanup", "exit"}
          /\ robx \in Int /\ n \in 0 .. Len(job.messages)
          /\ \A i \in DOMAIN wh : wh[i].used \in BOOLEAN

Chosen == pc \in {"spamicity", "print", "cleanup"}
Ties == {i \in DOMAIN wh : Dev(wh[i]) = score.min_dev}

\* The tokens that are used are those that say most, and their number fits the
\* limits, but for tokens with the same deviation as the last.
BestAreUsed ==
    Chosen /\ ~job.opt.bogotune =>
        LET used == Len(Used)  least == IF Count < Len(wh) THEN Count ELSE Len(wh)
        IN /\ \A i, j \in DOMAIN wh : wh[i].used /\ ~wh[j].used => Dev(wh[i]) >= Dev(wh[j])
           /\ job.opt.min # 0 => used >= IF job.opt.min < Len(wh) THEN job.opt.min ELSE Len(wh)
           /\ job.opt.max # 0 /\ used > job.opt.max => used - Cardinality(Ties) < Count
           /\ job.opt.fix # 0 => /\ used >= IF job.opt.fix < Len(wh) THEN job.opt.fix
                                            ELSE Len(wh)

\* The spamicity is that of the tokens in use, however their product was kept.
SpamicityOfUsed ==
    pc = "print" =>
        score.spamicity = IF Used = <<>> THEN robx
                          ELSE SumOver(LAMBDA t : 2 * t.prob, Used)

\* The table has every token of this message once, and the histogram counts every
\* token that is used once.
PrintedOnce ==
    pc = "cleanup" =>
        /\ out.hist # <<>> => SumOver(LAMBDA c : c, out.hist) = robn
        /\ out.summary # None => /\ Len(out.table) = Len(wh)
                                 /\ ToSet(out.table) = ToSet(wh)

\* The numbers below the table are those of this message.  It fails when no token
\* is used: N, P and Q are then those of an earlier message (score.c:552).
SummaryIsOfMessage == pc = "cleanup" /\ out.summary # None => out.summary.robn = robn

\* token_count_max is not exceeded (bogofilter.cf.example:276, "coerce the number of
\* tokens used to score a message").  It fails for tokens with the same deviation.
MaxIsExact == Chosen /\ ~job.opt.bogotune /\ job.opt.max # 0 => Len(Used) <= job.opt.max

\* bogotune keeps to the limits as bogofilter does.  It fails: its counts are not
\* sorted, and the tokens at the boundary are not used (score.c:314).
BogotuneKeepsLimits ==
    Chosen /\ job.opt.bogotune /\ job.opt.fix # 0 =>
        Len(Used) >= IF job.opt.fix < Len(wh) THEN job.opt.fix ELSE Len(wh)
=============================================================================
