--------------------------- MODULE ParameterScan ---------------------------
(***************************************************************************)
(* What bogotune does with scores (bogotune.c): the target of false        *)
(* positives, a scan over a grid of parameters, the choice of a smooth     *)
(* minimum, and the cutoffs it recommends.  A score is a level, the        *)
(* numbers of the source are between them; what the messages score with    *)
(* given parameters may be anything.                                       *)
(***************************************************************************)
EXTENDS Naturals, Integers, Sequences, SequencesExt, FiniteSets, FiniteSetsExt

CONSTANTS
    Plans,          \* limits and steps of the scans: the source has one plan,
                    \* with a flag (-e) for the two ranges of exponents
    Scores(_),      \* what the messages may score with a set of parameters:
                    \* records of the scores of the ham and of the spam
    RX_MIN, RX_MAX, \* the limits of robx
    Minn            \* the rates of false positives recommended for, one in ...

\* Levels: 0 < SCAN_CUTOFF <= 1 < MIN_CUTOFF <= 2 <= SPAM_CUTOFF < 3 < 0.999999 <= 4
ParameterScanAssumption ==
    /\ RX_MIN \in Nat /\ RX_MAX \in Nat /\ RX_MIN < RX_MAX
    /\ \A p \in Plans :
        /\ p.coarse.rx > 0 /\ p.fine.rx > 0
        /\ \A d \in {"rs", "md", "sp", "ns"} :
            /\ p.coarse[d].amt # 0 /\ p.fine[d].amt # 0
            /\ {p.coarse[d].fst, p.coarse[d].lst} \subseteq p.fine[d].min .. p.fine[d].max
            /\ p.fine[d].radius >= 0
    /\ Minn \in Seq(Nat)

VARIABLES
    pc,
    plan,
    scan,       \* 0 for the coarse scan, 1 for the fine one
    axes,       \* the values of rsval, mdval, rxval, spexp and nsexp; for rs
                \* the exponents
    parms,      \* robs (its exponent), min_dev, robx, spex and nsex
    ns, sp,     \* ns_scores and sp_scores as last computed
    target,     \* of false positives
    coerced,    \* the target comes from the option -T
    cutoff,     \* spam_cutoff
    results,    \* the results of the scan, in its order
    best,       \* the place of the result chosen; 0 is read from outside
    advice      \* the last cutoff recommended, with what to expect of it

vars == <<pc, plan, scan, axes, parms, ns, sp, target, coerced, cutoff, results, best, advice>>

NoAdvice == [cutoff |-> 0, fp |-> 0, fn |-> 0]

Axes == <<"rs", "md", "rx", "sp", "ns">>
AtMost(a, b) == IF a < b THEN a ELSE b
AtLeastOf(a, b) == IF a > b THEN a ELSE b

\* From -r, from the wordlist or the default, and within its limits.
get_robx(x) == AtLeastOf(RX_MIN, AtMost(RX_MAX, x))

Init ==
    /\ pc = "check" /\ plan \in Plans
    /\ parms = <<plan.default.rs, plan.default.md, get_robx(plan.default.rx), 0, 0>>
    /\ axes = <<>> /\ ns = <<>> /\ sp = <<>>
    /\ scan = 0
    /\ target = 0 /\ coerced \in BOOLEAN /\ cutoff = 0 /\ results = <<>> /\ best = 0 /\ advice = NoAdvice

-----------------------------------------------------------------------------
(* The scores, sorted                                                      *)

score_ns(scores) == SortSeq(scores.ham, LAMBDA a, b : a > b)
score_sp(scores) == SortSeq(scores.spam, LAMBDA a, b : a < b)

Score(scores) == ns' = score_ns(scores) /\ sp' = score_sp(scores)

\* check_for_high_ns_scores and check_for_low_sp_scores: what they find is
\* only told.
CheckScores ==
    /\ pc = "check"
    /\ \E s \in Scores(plan) : Score(s)
    /\ pc' = "target"
    /\ UNCHANGED <<plan, scan, axes, parms, target, coerced, cutoff, results, best, advice>>

AtLeast(scores, c) == Cardinality({i \in DOMAIN scores : scores[i] >= c})
Below(scores, c) == Len(scores) - AtLeast(scores, c)

-----------------------------------------------------------------------------
(* The target                                                              *)

\* With a cutoff under SCAN_CUTOFF nothing is scanned.
AfterTarget == IF cutoff' < 1 THEN "advise" ELSE "grid"

\* set_thresh: from the target that a curve over the number of messages gives
\* down to one with a high enough cutoff; then, while the cutoff is too high,
\* up again to the messages under it.  The last message is not looked at.
SetThresh ==
    /\ pc = "target" /\ ~coerced
    /\ \E curve \in 1 .. Len(ns) :
        LET ftarget == Max({1} \cup {k \in 1 .. curve : ns[k] >= 2})
            under == {k \in ftarget + 1 .. Len(ns) - 1 : ns[k] <= 2}
            next == IF under = {} THEN Max({Len(ns), ftarget + 1}) ELSE Min(under)
        IN IF ns[ftarget] > 2 THEN target' = next - 1 /\ cutoff' = 2
                              ELSE target' = ftarget /\ cutoff' = ns[ftarget]
    /\ pc' = AfterTarget
    /\ UNCHANGED <<plan, scan, axes, parms, ns, sp, coerced, results, best, advice>>

\* The target is given, and may be beyond the messages.
CoerceTarget ==
    /\ pc = "target" /\ coerced
    /\ target' \in 1 .. Len(ns) + 1
    /\ IF target' > Len(ns) THEN cutoff' = cutoff /\ pc' = "outside"
                            ELSE cutoff' = ns[target'] /\ pc' = AfterTarget
    /\ UNCHANGED <<plan, scan, axes, parms, ns, sp, coerced, results, best, advice>>

-----------------------------------------------------------------------------
(* The grid                                                                *)

AbsOf(n) == IF n < 0 THEN -n ELSE n
get_cnt(fst, lst, amt) == AbsOf(lst - fst) \div AbsOf(amt) + 1

seq_by_amt(fst, lst, amt) == [i \in 1 .. get_cnt(fst, lst, amt) |-> fst + (i - 1) * amt]

\* The powers themselves are in the order of their exponents.
seq_by_pow(fst, lst, amt) == [i \in 1 .. get_cnt(fst, lst, amt) |-> fst + (i - 1) * amt]

\* The value itself, then those on its sides that are within the limits.
seq_canonical(x, amt) ==
    LET fst == AtMost(AtLeastOf(x, RX_MIN), RX_MAX)
    IN SelectSeq(<<fst, fst - amt, fst + amt, fst - 2 * amt, fst + 2 * amt>>,
                 LAMBDA v : v \in RX_MIN .. RX_MAX)

ESF_SEL(a, b) == IF plan.esf_flag THEN b ELSE a

init_coarse ==
    LET c == plan.coarse
        Exponents(d) == seq_by_amt(ESF_SEL(0, c[d].fst), ESF_SEL(0, c[d].lst), c[d].amt)
    IN <<seq_by_pow(c.rs.fst, c.rs.lst, c.rs.amt), seq_by_amt(c.md.fst, c.md.lst, c.md.amt),
         seq_canonical(parms[3], c.rx), Exponents("sp"), Exponents("ns")>>

\* Around the parameters that the coarse scan chose, within limits.
init_fine ==
    LET f == plan.fine
        s0(d) == AtLeastOf(parms[d] - f[Axes[d]].radius, f[Axes[d]].min)
        s1(d) == AtMost(parms[d] + f[Axes[d]].radius, f[Axes[d]].max)
        Exponents(d) == seq_by_amt(s0(d), ESF_SEL(s0(d), s1(d)), f[Axes[d]].amt)
    IN <<seq_by_pow(s1(1), s0(1), f.rs.amt), seq_by_amt(s0(2), s1(2), f.md.amt),
         seq_canonical(parms[3], f.rx), Exponents(4), Exponents(5)>>

InitScan ==
    /\ pc = "grid"
    /\ axes' = IF scan = 0 THEN init_coarse ELSE init_fine
    /\ pc' = "scan"
    /\ UNCHANGED <<plan, scan, parms, ns, sp, target, coerced, cutoff, results, best, advice>>

-----------------------------------------------------------------------------
(* The scan                                                                *)

grid == [d \in DOMAIN axes |-> Len(axes[d])]
ValuesAt(at) == [d \in DOMAIN axes |-> axes[d][at[d] + 1]]

\* The place in the grid of the k-th parameter set of the nested loops.
PlaceOf(k) ==
    LET i == k - 1
        g == grid
    IN <<i \div (g[2] * g[3] * g[4] * g[5]),
         (i \div (g[3] * g[4] * g[5])) % g[2],
         (i \div (g[4] * g[5])) % g[3],
         (i \div g[5]) % g[4],
         i % g[5]>>

r_count == FoldLeft(LAMBDA a, b : a * b, 1, grid)

\* The false positives allowed, from the target up, until their cutoff is one
\* to work with; without one the cutoff is that of the last look, or 0.01.
FalsePositives(scores) ==
    Min({Max({target, Len(scores)})} \cup
        {fp \in target .. Len(scores) - 1 : scores[fp] < 4 \/ coerced})

Cutoff(scores, fp) ==
    IF fp < Len(scores) THEN scores[fp]
    ELSE IF target < Len(scores) THEN scores[Len(scores) - 1] ELSE 0

\* The messages are scored with the next parameter set.
ScanOne ==
    /\ pc = "scan" /\ Len(results) < r_count
    /\ \E s \in Scores(plan) :
        LET ham == score_ns(s)
            fp == FalsePositives(ham)
            co == Cutoff(ham, fp)
            at == PlaceOf(Len(results) + 1)
        IN /\ parms' = ValuesAt(at) /\ cutoff' = co /\ Score(s)
           /\ results' = Append(results, [idx |-> Len(results) + 1, at |-> at, co |-> co,
                                          fp |-> fp, fn |-> Below(s.spam, co)])
    /\ UNCHANGED <<pc, plan, scan, axes, target, coerced, best, advice>>

\* compare_results: few false negatives, then a low cutoff; a cutoff of at
\* most 0.5 counts as a high one.
CO(r) == IF r.co > 0 THEN r.co ELSE 3
Better(r1, r2) ==
    \/ r1.fn < r2.fn
    \/ r1.fn = r2.fn /\ CO(r1) < CO(r2)
    \/ r1.fn = r2.fn /\ CO(r1) = CO(r2) /\ r1.idx < r2.idx

results_sort == SortSeq(results, Better)

\* Mutant: the places of two directions are swapped.
IndexSwapped(at) ==
    LET g == grid IN (((at[1] * g[3] + at[3]) * g[2] + at[2]) * g[4] + at[4]) * g[5] + at[5] + 1

\* The index of gfn.
Index(at) ==
    LET g == grid IN (((at[1] * g[2] + at[2]) * g[3] + at[3]) * g[4] + at[4]) * g[5] + at[5] + 1

\* The neighbours that count_outliers asks for, two in each direction of the
\* grid where there are such.
Asked(at) ==
    {Index([at EXCEPT ![d] = @ + s]) :
        <<d, s>> \in {p \in (1 .. 5) \X {-1, 1} :
                        IF p[2] = -1 THEN at[p[1]] > 0 ELSE at[p[1]] < grid[p[1]] - 1}}

SmoothIn(r, med, q33) ==
    LET asked == {results[i] : i \in Asked(r.at)}
    IN /\ \A n \in asked : n.fp = target /\ n.fn < med
       /\ asked # {}
       /\ FoldSet(LAMBDA n, sum : n.fn + sum, 0, asked) \div Cardinality(asked) < q33

\* count_outliers: the first smooth result on target, or the first on target,
\* or what is before the sorted results.
CountOutliers ==
    /\ pc = "scan" /\ Len(results) = r_count
    /\ LET sorted == results_sort
           q33 == sorted[(r_count * 33) \div 100 + 1].fn
           med == sorted[(r_count * 50) \div 100 + 1].fn
           onTarget == {k \in DOMAIN sorted : sorted[k].fp = target}
           smooth == {k \in onTarget : SmoothIn(sorted[k], med, q33)}
       IN best' = IF smooth # {} THEN sorted[Min(smooth)].idx
                  ELSE IF onTarget # {} THEN sorted[Min(onTarget)].idx ELSE 0
    /\ IF best' = 0 THEN pc' = "outside" /\ UNCHANGED parms
                    ELSE pc' = "chosen" /\ parms' = ValuesAt(results[best'].at)
    /\ UNCHANGED <<plan, scan, axes, ns, sp, target, coerced, cutoff, results, advice>>

\* The results and the grid are freed.
EndScan ==
    /\ pc = "chosen"
    /\ results' = <<>> /\ best' = 0 /\ axes' = <<>>
    /\ IF scan = 0 THEN scan' = 1 /\ pc' = "grid" ELSE pc' = "advise" /\ UNCHANGED scan
    /\ UNCHANGED <<plan, parms, ns, sp, target, coerced, cutoff, advice>>

-----------------------------------------------------------------------------
(* The recommendations, after a last scoring.                              *)

\* One in mn: the score of the last of them is the cutoff, and is left out
\* when it is too high.  The last of Minn, 1, stands for what the cutoff of
\* the source gives.
Rate(mn) == (Len(ns) + mn - 1) \div mn

Advice(co, fp) ==
    [cutoff |-> co, fp |-> fp,
     fn |-> IF AtLeast(sp, co) = 0 THEN 0 ELSE Below(sp, co)]

Usable(mn) == mn > 1 /\ Len(ns) >= mn /\ ns[Rate(mn)] < 4

FinalRecommendations ==
    /\ pc = "advise"
    /\ \E s \in Scores(plan) : Score(s)
    /\ pc' = "print"
    /\ UNCHANGED <<plan, scan, axes, parms, target, coerced, cutoff, results, best, advice>>

Recommend ==
    /\ pc = "print"
    /\ \/ \E k \in DOMAIN Minn :
            /\ Usable(Minn[k])
            /\ advice' = Advice(ns[Rate(Minn[k])], Len(ns) \div Minn[k])
            /\ pc' = "end"
       \/ /\ \A k \in DOMAIN Minn : ~Usable(Minn[k])
          /\ LET fp == AtLeast(ns, 3)
             IN IF fp = 0 THEN pc' = "outside" /\ UNCHANGED advice
                ELSE advice' = Advice(ns[fp], fp) /\ pc' = "end"
    /\ UNCHANGED <<plan, scan, axes, parms, ns, sp, target, coerced, cutoff, results, best>>

Next == \/ CheckScores \/ SetThresh \/ CoerceTarget \/ InitScan \/ ScanOne
        \/ CountOutliers \/ EndScan \/ FinalRecommendations \/ Recommend

Spec == Init /\ [][Next]_vars

-----------------------------------------------------------------------------
(* Properties                                                              *)

TypeOK ==
    /\ pc \in {"check", "target", "grid", "scan", "chosen", "advise", "print", "end", "outside"}
    /\ target \in 0 .. Len(ns) + 1 /\ best \in 0 .. r_count /\ Len(parms) = 5

\* Two places of the grid are neighbours: they differ by one in one direction.
Neighbours(a, b) ==
    \E d \in 1 .. 5 : /\ a[d] - b[d] \in {-1, 1}
                      /\ \A e \in 1 .. 5 \ {d} : a[e] = b[e]

\* The false negatives that at least so many of 100 results do not exceed.
Quantile(percent) ==
    LET k == (r_count * percent) \div 100
        Fewer(f) == Cardinality({r \in ToSet(results) : r.fn < f})
    IN CHOOSE f \in 0 .. Len(sp) : Fewer(f) <= k /\ k < Fewer(f + 1)

Smooth(r) ==
    LET near == {n \in ToSet(results) : Neighbours(n.at, r.at)}
    IN /\ near # {}
       /\ \A n \in near : n.fp = target /\ n.fn < Quantile(50)
       /\ FoldSet(LAMBDA n, sum : n.fn + sum, 0, near) \div Cardinality(near) < Quantile(33)

\* The parameter set that is chosen has neighbours on every side which all
\* miss fewer spams than half of the sets do, with as many false positives;
\* where no set is so, it is the best of those on target.  The neighbours are
\* found by an index that must match the order of five nested loops
\* (count_outliers, gfn and bogotune in bogotune.c).
BestIsSmooth ==
    pc = "chosen" =>
        LET onTarget == {r \in ToSet(results) : r.fp = target}
            smooth == {r \in onTarget : Smooth(r)}
        IN /\ results[best] \in (IF smooth # {} THEN smooth ELSE onTarget)
           /\ \A r \in (IF smooth # {} THEN smooth ELSE onTarget) :
                ~Better(r, results[best])

\* No more of the ham is above the cutoff than the target allows, except when
\* all of it is above SPAM_CUTOFF (set_thresh).
TargetMeetsCutoff ==
    pc = "scan" /\ scan = 0 /\ results = <<>> /\ (\E i \in DOMAIN ns : ns[i] <= 2)
        => AtLeast(ns, cutoff + 1) <= target

\* The values looked for are within the limits that the scans have, and every set
\* of the grid is scanned once (seq_canonical, init_fine and the loops of bogotune).
ScansItsGrid ==
    /\ pc = "scan" /\ results = <<>> =>
        /\ \A v \in ToSet(axes[3]) : v \in RX_MIN .. RX_MAX
        /\ scan = 1 => \A d \in {1, 2, 4, 5} : \A v \in ToSet(axes[d]) :
                v \in plan.fine[Axes[d]].min .. plan.fine[Axes[d]].max
    /\ pc = "chosen" => {r.at : r \in ToSet(results)}
                          = {at \in [1 .. 5 -> 0 .. Max(ToSet(grid)) - 1] :
                                \A d \in 1 .. 5 : at[d] < grid[d]}

\* Does not hold: the values of robx are in the order x, x - d, x + d, x - 2d,
\* x + 2d (line 241), and the neighbours of a set are found by its place: "the
\* trough must be surrounded on six sides" (line 1654), but x - d and x + d
\* count as neighbours, and x and x + d do not.
NeighboursAreNear ==
    pc = "scan" => \A d \in DOMAIN axes : \A i \in 2 .. Len(axes[d]) : \A v \in ToSet(axes[d]) :
        ~ \/ axes[d][i - 1] < v /\ v < axes[d][i]
          \/ axes[d][i - 1] > v /\ v > axes[d][i]

\* Does not hold: a fine scan that starts at its lower limit has steps beside
\* the value that the coarse scan chose (min_dev 0.06, line 285).
ChosenScannedAgain ==
    pc = "scan" /\ results = <<>> /\ scan = 1 =>
        \A d \in DOMAIN axes : parms[d] \in ToSet(axes[d])

\* Does not hold: when no parameter set is on target, what is before the
\* sorted results is taken for the best (line 1278); when no ham scores
\* above SPAM_CUTOFF and there are too few for the other rates, the score
\* before the first is recommended (line 1375).
NothingReadOutside == pc # "outside"

\* Does not hold: when all of the spam is below the recommended cutoff, none
\* of it is expected to be missed (line 1379).
ExpectedMissesTrue == pc = "end" => advice.fn = Below(sp, advice.cutoff)
=============================================================================
