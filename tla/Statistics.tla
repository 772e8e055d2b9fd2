----------------------------- MODULE Statistics -----------------------------
(***************************************************************************)
(* What bogoutil tells of a wordlist: the counts of words (-w, -p), a      *)
(* histogram of the probabilities of its tokens (-H, bogohist.c), and      *)
(* Robinson's x, which is printed (-r) or written to the wordlist (-R,     *)
(* robx.c).  The wordlist is walked in a transaction.  A walk that fails    *)
(* gives no x: the loop in compute_robinson_x that would begin it again is *)
(* for a result of db_foreach that no store returns.                       *)
(***************************************************************************)
EXTENDS Integers, Sequences, SequencesExt, FiniteSets

CONSTANTS
    Order,      \* the tokens, in the order of the wordlist
    Meta,       \* those whose names begin with a dot
    MsgCount, Robx,
    Absent,
    Intervals,  \* of the histogram: INTERVALS
    MinCount,   \* how often a token must occur to count for x
    Scale,      \* of the integer that x is written as
    Modulus,    \* of a 32-bit count
    Works       \* command, wordlist, words, verbosity, and what others make of the list

StatisticsAssumption ==
    /\ {MsgCount, Robx} \subseteq Meta /\ Meta \subseteq ToSet(Order)
    /\ Intervals \in Nat \ {0} /\ Scale \in Nat \ {0} /\ Modulus \in Nat \ {0}

VARIABLES
    pc,
    work,       \* cmd, list, words, verbose, later
    list,       \* the wordlist on disk
    pos,        \* of the walk, or of the next word
    msgs,       \* the message counts
    sum, count,     \* of compute_robinson_x
    hist, ones,     \* the histogram; ham_only, ham_hapax, spam_only, spam_hapax
    shown,
    rc

vars == <<pc, work, list, pos, msgs, sum, count, hist, ones, shown, rc>>

Zero == [spam |-> 0, good |-> 0]
NoOnes == [ham_only |-> 0, ham_hapax |-> 0, spam_only |-> 0, spam_hapax |-> 0]

Init == /\ pc = "open" /\ work \in Works /\ list = work.list
        /\ pos = 1 /\ msgs = Zero /\ sum = 0 /\ count = 0
        /\ hist = [i \in 0 .. Intervals - 1 |-> 0] /\ ones = NoOnes
        /\ shown = <<>> /\ rc = "ok"

IsRobx == work.cmd \in {"-r", "-R"}

\* The list is opened and its message counts are read.  x needs both kinds of mail.
Open ==
    /\ pc = "open"
    /\ msgs' = IF list[MsgCount] = Absent THEN Zero ELSE list[MsgCount]
    /\ pc' = CASE IsRobx /\ (msgs'.spam = 0 \/ msgs'.good = 0) -> "exit"
               [] work.cmd \in {"-w", "-p"} -> "words"
               [] OTHER -> "walk"
    /\ rc' = IF pc' = "exit" THEN "error" ELSE rc
    /\ UNCHANGED <<work, list, pos, sum, count, hist, ones, shown>>

-----------------------------------------------------------------------------
(* -w and -p: display_words                                                *)

\* A line that does not end in a newline is no word, and ends the input (get_token).
Ended == pos \in DOMAIN work.words => (work.stdin /\ ~work.words[pos].newline)

DisplayWord ==
    /\ pc = "words" /\ ~Ended
    /\ LET t == work.words[pos].text
       IN shown' = IF list[t] = Absent THEN shown ELSE Append(shown, t)
    /\ pos' = pos + 1
    /\ UNCHANGED <<pc, work, list, msgs, sum, count, hist, ones, rc>>

\* A read that fails ends it all.
ReadFails ==
    /\ pc = "words" /\ ~Ended
    /\ pc' = "done" /\ rc' = "error"
    /\ UNCHANGED <<work, list, pos, msgs, sum, count, hist, ones, shown>>

EndOfWords ==
    /\ pc = "words" /\ Ended /\ pc' = "done"
    /\ UNCHANGED <<work, list, pos, msgs, sum, count, hist, ones, shown, rc>>

-----------------------------------------------------------------------------
(* The walk                                                                *)

\* calc_prob where robs and robx are 0, as an index into the histogram; a quotient
\* of nothing by nothing is in the last interval.
Index(v) ==
    LET bad == v.spam * msgs.good  all == bad + v.good * msgs.spam
    IN CASE v.spam + v.good = 0 -> 0
         [] v.spam + v.good # 0 /\ all = 0 -> Intervals - 1
         [] v.spam + v.good # 0 /\ all # 0 ->
              IF bad = all THEN Intervals - 1 ELSE (Intervals * bad) \div all

OneIf(condition) == IF condition THEN 1 ELSE 0

\* ds_histogram_hook
CountInHistogram(v) ==
    /\ hist' = [hist EXCEPT ![Index(v)] = @ + 1]
    /\ ones' = [ham_only   |-> ones.ham_only + OneIf(v.spam = 0),
                ham_hapax  |-> ones.ham_hapax + OneIf(v.spam = 0 /\ v.good = 1),
                spam_only  |-> ones.spam_only + OneIf(v.good = 0),
                spam_hapax |-> ones.spam_hapax + OneIf(v.good = 0 /\ v.spam = 1)]
    /\ UNCHANGED <<sum, count>>

\* robx_accum
Prob(v) == (Scale * v.spam * msgs.good) \div (v.good * msgs.spam + v.spam * msgs.good)

RobxAccum(v) ==
    /\ IF v.good + v.spam >= MinCount
       THEN sum' = sum + Prob(v) /\ count' = count + 1
       ELSE UNCHANGED <<sum, count>>
    /\ UNCHANGED <<hist, ones>>

WalkStep ==
    /\ pc = "walk" /\ pos <= Len(Order)
    /\ LET t == Order[pos]
       IN IF t \in Meta \/ list[t] = Absent THEN UNCHANGED <<sum, count, hist, ones>>
          ELSE IF IsRobx THEN RobxAccum(list[t]) ELSE CountInHistogram(list[t])
    /\ pos' = pos + 1
    /\ UNCHANGED <<pc, work, list, msgs, shown, rc>>

\* The cursor fails: there is no x, but the histogram is printed as far as it is.
WalkFails ==
    /\ pc = "walk" /\ pos <= Len(Order)
    /\ pc' = IF IsRobx THEN "exit" ELSE "histogram"
    /\ rc' = "error"
    /\ UNCHANGED <<work, list, pos, msgs, sum, count, hist, ones, shown>>

EndOfWalk ==
    /\ pc = "walk" /\ pos > Len(Order)
    /\ pc' = CASE ~IsRobx -> "histogram"
               [] IsRobx /\ count = 0 -> "exit"
               [] work.cmd = "-r" /\ count # 0 -> "done"
               [] work.cmd = "-R" /\ count # 0 -> "closed"
    /\ rc' = IF pc' = "exit" THEN "error" ELSE rc
    /\ UNCHANGED <<work, list, pos, msgs, sum, count, hist, ones, shown>>

\* print_histogram: -v leaves the hapaxes out, -vv what is ham or spam only.
Without(ham, spam) ==
    [i \in DOMAIN hist |->
        (hist[i] + (IF i = 0 THEN Modulus - ham ELSE 0)
                 + (IF i = Intervals - 1 THEN Modulus - spam ELSE 0)) % Modulus]

Histogram ==
    /\ pc = "histogram" /\ pc' = "done"
    /\ hist' = CASE work.verbose = 1 -> Without(ones.ham_hapax, ones.spam_hapax)
                 [] work.verbose = 2 -> Without(ones.ham_only, ones.spam_only)
                 [] OTHER -> hist
    /\ UNCHANGED <<work, list, pos, msgs, sum, count, ones, shown, rc>>

\* The transaction of the walk cannot be committed: no histogram is printed.
CommitFails ==
    /\ pc = "histogram" /\ pc' = "exit" /\ rc' = "error"
    /\ UNCHANGED <<work, list, pos, msgs, sum, count, hist, ones, shown>>

-----------------------------------------------------------------------------
(* -R: the list is closed, and opened again for writing (get_robx).        *)

\* Meanwhile others may use it.
OthersRegister ==
    /\ pc = "closed" /\ list = work.list
    /\ list' = work.later
    /\ UNCHANGED <<pc, work, pos, msgs, sum, count, hist, ones, shown, rc>>

RobxValue == sum \div count

\* Written, after any number of aborts, or not; that the commit may fail is not
\* looked at.
WriteRobx ==
    /\ pc = "closed" /\ pc' = "done"
    /\ \/ list' = [list EXCEPT ![Robx] = [spam |-> RobxValue, good |-> 0]] /\ UNCHANGED rc
       \/ rc' \in {"ok", "error"} /\ UNCHANGED list
    /\ UNCHANGED <<work, pos, msgs, sum, count, hist, ones, shown>>

Next == \/ Open \/ DisplayWord \/ ReadFails \/ EndOfWords
        \/ WalkStep \/ WalkFails \/ EndOfWalk \/ Histogram \/ CommitFails
        \/ OthersRegister \/ WriteRobx

Spec == Init /\ [][Next]_vars

-----------------------------------------------------------------------------
(* Properties                                                              *)

TypeOK == /\ pc \in {"open", "words", "walk", "histogram", "closed", "done", "exit"}
          /\ pos \in 1 .. Len(Order) + Len(work.words) + 1
          /\ sum \in Nat /\ count \in Nat
          /\ rc \in {"ok", "error"}

Listed == {t \in ToSet(Order) \ Meta : work.list[t] # Absent}
Frequent == {t \in Listed : work.list[t].spam + work.list[t].good >= MinCount}
SumOf(f(_), S) == FoldLeft(LAMBDA total, t : total + f(t), 0, SetToSeq(S))

\* An x that is printed or written is the mean over all the tokens that occur often
\* enough, and each of them counts once: it never comes from a walk cut short.
RobxIsMean ==
    IsRobx /\ pc \in {"closed", "done"} =>
        /\ count = Cardinality(Frequent)
        /\ sum = SumOf(LAMBDA t : Prob(work.list[t]), Frequent)

\* What others have registered between the walk and the write is not lost.
OnlyRobxWritten ==
    \/ \A t \in ToSet(Order) \ {Robx} : list[t] = work.list[t]
    \/ \A t \in ToSet(Order) \ {Robx} : list[t] = work.later[t]

\* The histogram has every token once that the verbosity does not leave out.
LeftOut(v) == \/ work.verbose = 1 /\ v.spam + v.good = 1
              \/ work.verbose = 2 /\ (v.spam = 0 \/ v.good = 0)
HistogramWhole ==
    \A i \in DOMAIN hist :
        hist[i] = Cardinality({t \in Listed : /\ Index(work.list[t]) = i
                                              /\ ~LeftOut(work.list[t])})
BothKinds == msgs.spam # 0 /\ msgs.good # 0
NoEmptyToken == \A t \in Listed : work.list[t] # Zero
HistogramTrue ==
    work.cmd = "-H" /\ pc = "done" /\ rc = "ok" /\ BothKinds /\ NoEmptyToken => HistogramWhole

\* The same for every wordlist.  It fails: a token that was unregistered everywhere
\* is taken off the last interval, and without mail of one kind a hapax off the first,
\* and a count below 0 is a very large one (bogohist.c:83, :89).
HistogramTrueAlways == work.cmd = "-H" /\ pc = "done" /\ rc = "ok" => HistogramWhole

\* A histogram that a failed walk has cut short is not shown.  It fails: the result of the
\* walk is looked at after the histogram is printed (bogohist.c:157).
HistogramNotCut == work.cmd = "-H" /\ pc = "done" => rc = "ok"

\* Every word that is asked for and known is shown.  It fails for a last line without
\* a newline (bogoutil.c:296).
Known == {t \in ToSet(Order) : work.list[t] # Absent}
WordsShown ==
    work.cmd \in {"-w", "-p"} /\ pc = "done" /\ rc = "ok" =>
        LET asked == IF work.stdin THEN SelectSeq(work.words, LAMBDA l : l.newline) ELSE work.words
        IN shown = SelectSeq([i \in DOMAIN asked |-> asked[i].text], LAMBDA t : t \in Known)
AllWordsShown ==
    work.cmd \in {"-w", "-p"} /\ pc = "done" /\ rc = "ok" =>
        Len(shown) = Cardinality({i \in DOMAIN work.words : work.words[i].text \in Known})
=============================================================================
