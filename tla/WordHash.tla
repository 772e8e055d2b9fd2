------------------------------ MODULE WordHash ------------------------------
(***************************************************************************)
(* The token tables of one message and of all messages (wordhash.c): bins  *)
(* for the search, a list in the order of insertion for the walk, which    *)
(* wordhash_sort sorts in place by merging ever longer runs (listsort.c).  *)
(* Nodes are numbered as nmalloc hands them out; 0 is NULL.  What `count'  *)
(* and `size' say of a table is in MessageLoop.                            *)
(***************************************************************************)
EXTENDS Naturals, Sequences, SequencesExt, FiniteSets

CONSTANTS
    Word,           \* tokens, numbers in the order of word_cmp
    Hash(_),        \* the bin of a token
    MaxTokens,      \* bound on the tokens of all messages together
    MaxMessages     \* bound on the messages

WordHashAssumption ==
    /\ Word \subseteq Nat /\ MaxTokens \in Nat /\ MaxMessages \in Nat
    /\ \A t \in Word : Hash(t) \in Nat

VARIABLES
    pc,
    w,          \* the table of the current message
    words,      \* the table of all messages, for one registration
    sort,       \* the local variables of listsort
    link,       \* the iter_next of the nodes while listsort changes them
    given       \* history: the tokens of each message

vars == <<pc, w, words, sort, link, given>>

Bins == {Hash(t) : t \in Word}

\* wordhash_init
Empty == [node |-> <<>>, bin |-> [b \in Bins |-> 0], iter_head |-> 0, iter_tail |-> 0]

-----------------------------------------------------------------------------
(* Search and insertion                                                    *)

\* wordhash_search: along the chain of the bin from node n.
RECURSIVE SearchFrom(_, _, _)
SearchFrom(wh, t, n) ==
    IF n = 0 \/ wh.node[n].key = t THEN n ELSE SearchFrom(wh, t, wh.node[n].next)

Search(wh, t) == SearchFrom(wh, t, wh.bin[Hash(t)])

\* Mutant: the new node is put last into its bin by replacing the first.
NewNodeDropsChain(wh, t) ==
    LET hn == Len(wh.node) + 1
        linked == IF wh.iter_head = 0 THEN wh.node
                  ELSE [wh.node EXCEPT ![wh.iter_tail].iter_next = hn]
    IN [node |-> Append(linked, [key |-> t, next |-> 0, iter_next |-> 0, freq |-> 0]),
        bin |-> [wh.bin EXCEPT ![Hash(t)] = hn],
        iter_head |-> IF wh.iter_head = 0 THEN hn ELSE wh.iter_head,
        iter_tail |-> hn]

\* wordhash_standard_insert of a token that is not there.
NewNode(wh, t) ==
    LET hn == Len(wh.node) + 1
        linked == IF wh.iter_head = 0 THEN wh.node
                  ELSE [wh.node EXCEPT ![wh.iter_tail].iter_next = hn]
    IN [node |-> Append(linked, [key |-> t, next |-> wh.bin[Hash(t)],
                                 iter_next |-> 0, freq |-> 0]),
        bin |-> [wh.bin EXCEPT ![Hash(t)] = hn],
        iter_head |-> IF wh.iter_head = 0 THEN hn ELSE wh.iter_head,
        iter_tail |-> hn]

\* wordhash_insert
Insert(wh, t) == IF Search(wh, t) # 0 THEN wh ELSE NewNode(wh, t)

SetFreq(wh, t, f) == [wh EXCEPT !.node[Search(wh, t)].freq = f]

\* wordhash_first, wordhash_next: the nodes in the order of the list.
RECURSIVE WalkFrom(_, _)
WalkFrom(wh, n) ==
    IF n = 0 THEN <<>> ELSE <<wh.node[n]>> \o WalkFrom(wh, wh.node[n].iter_next)

Walk(wh) == WalkFrom(wh, wh.iter_head)

\* wordhash_add
Added(dest, src) ==
    FoldLeft(LAMBDA d, s :
                LET i == Insert(d, s.key)
                IN SetFreq(i, s.key, i.node[Search(i, s.key)].freq + s.freq),
             dest, Walk(src))

-----------------------------------------------------------------------------
(* listsort, one step of its inner loops at a time.  p and q are the two   *)
(* runs that are merged, list and tail the list that is built.             *)

Key(n) == (IF pc = "sort w" THEN w ELSE words).node[n].key

NoSort == [list |-> 0, tail |-> 0, p |-> 0, q |-> 0, psize |-> 0, qsize |-> 0,
           insize |-> 0, nmerges |-> 0]

BeginSort(wh) ==
    /\ link' = [n \in DOMAIN wh.node |-> wh.node[n].iter_next]
    /\ sort' = [NoSort EXCEPT !.p = wh.iter_head, !.insize = 1]

Merging == sort.psize > 0 \/ (sort.qsize > 0 /\ sort.q # 0)

\* q steps insize places along from p, or to the end; psize counts them.
RECURSIVE StepAlong(_, _, _)
StepAlong(q, psize, left) ==
    IF left = 0 \/ q = 0 THEN <<q, psize>> ELSE StepAlong(link[q], psize + 1, left - 1)

SplitRuns ==
    /\ ~Merging /\ sort.p # 0
    /\ LET s == StepAlong(sort.p, 0, sort.insize)
       IN sort' = [sort EXCEPT !.q = s[1], !.psize = s[2], !.qsize = sort.insize,
                               !.nmerges = @ + 1]
    /\ UNCHANGED link

TakeFromP == \/ sort.qsize = 0 \/ sort.q = 0
             \/ sort.psize > 0 /\ Key(sort.p) <= Key(sort.q)

\* The element that is taken keeps its link until the next one is taken.
MergeOne ==
    /\ Merging
    /\ LET fromP == sort.psize > 0 /\ TakeFromP
           e == IF fromP THEN sort.p ELSE sort.q
           taken == IF fromP
                    THEN [sort EXCEPT !.p = link[e], !.psize = @ - 1]
                    ELSE [sort EXCEPT !.q = link[e], !.qsize = @ - 1]
           more == \/ taken.psize > 0
                   \/ taken.qsize > 0 /\ taken.q # 0
       IN /\ link' = IF sort.tail = 0 THEN link ELSE [link EXCEPT ![sort.tail] = e]
          /\ sort' = [taken EXCEPT !.list = IF sort.tail = 0 THEN e ELSE @, !.tail = e,
                                   !.p = IF more THEN @ ELSE taken.q]

PassEnds == ~Merging /\ sort.p = 0 /\ sort.insize > 0

\* The list that the pass has built is closed.
Closed == IF sort.tail = 0 THEN link ELSE [link EXCEPT ![sort.tail] = 0]

NextPass ==
    /\ PassEnds /\ sort.nmerges > 1
    /\ link' = Closed
    /\ sort' = [NoSort EXCEPT !.p = sort.list, !.insize = 2 * sort.insize]

\* wordhash_sort: only iter_head is changed, iter_tail is not.
Sorted(wh) == [wh EXCEPT !.node = [n \in DOMAIN @ |-> [@[n] EXCEPT !.iter_next = Closed[n]]],
                         !.iter_head = sort.list]

SortReturns(next) ==
    /\ PassEnds /\ sort.nmerges <= 1
    /\ sort' = NoSort /\ link' = <<>>
    /\ IF pc = "sort w" THEN w' = Sorted(w) /\ UNCHANGED words
                        ELSE words' = Sorted(words) /\ UNCHANGED w
    /\ pc' = next

-----------------------------------------------------------------------------
(* The loop of bogofilter: a message is collected, sorted and added.       *)

Init == /\ pc = "more" /\ w = Empty /\ words = Empty
        /\ sort = NoSort /\ link = <<>> /\ given = <<>>

ReadMessage ==
    /\ pc = "more" /\ Len(given) < MaxMessages
    /\ given' = Append(given, <<>>) /\ w' = Empty /\ pc' = "collect"
    /\ UNCHANGED <<words, sort, link>>

\* collect_words: the freq of a token of one message is 1.
Collect ==
    /\ pc = "collect"
    /\ Len(FlattenSeq(given)) < MaxTokens
    /\ \E t \in Word :
        /\ w' = SetFreq(Insert(w, t), t, 1)
        /\ given' = [given EXCEPT ![Len(given)] = Append(@, t)]
    /\ UNCHANGED <<pc, words, sort, link>>

EndOfMessage ==
    /\ pc = "collect" /\ BeginSort(w) /\ pc' = "sort w"
    /\ UNCHANGED <<w, words, given>>

SortStep ==
    /\ pc \in {"sort w", "sort words"}
    /\ \/ (SplitRuns \/ MergeOne \/ NextPass) /\ UNCHANGED <<pc, w, words>>
       \/ SortReturns(IF pc = "sort w" THEN "sorted" ELSE "end")
    /\ UNCHANGED given

\* wordhash_add(words, w)
Add ==
    /\ pc = "sorted" /\ words' = Added(words, w) /\ pc' = "more"
    /\ UNCHANGED <<w, sort, link, given>>

EndOfInput ==
    /\ pc = "more" /\ BeginSort(words) /\ pc' = "sort words"
    /\ UNCHANGED <<w, words, given>>

Next == ReadMessage \/ Collect \/ EndOfMessage \/ SortStep \/ Add \/ EndOfInput

Spec == Init /\ [][Next]_vars

-----------------------------------------------------------------------------
(* Properties                                                              *)

TypeOK ==
    /\ pc \in {"more", "collect", "sort w", "sorted", "sort words", "end"}
    /\ sort.p \in 0 .. Len(link) /\ sort.q \in 0 .. Len(link)

Tokens(i) == ToSet(given[i])
AllTokens == UNION {Tokens(i) : i \in DOMAIN given}

\* The walk of a table meets each of the tokens once, in ascending order.
WalksOver(wh, tokens) ==
    [n \in DOMAIN Walk(wh) |-> Walk(wh)[n].key] = SetToSortSeq(tokens, <)

\* Sorting by links neither loses nor repeats a token, and a token is found
\* by search and by walk alike: a message is classified and registered over
\* all of its tokens in the order of the wordlist, and the sum counts in how
\* many messages a token was (wordhash.c, listsort.c).
SortedWhole ==
    /\ pc = "sorted" => WalksOver(w, Tokens(Len(given)))
    /\ pc = "end" =>
        /\ WalksOver(words, AllTokens)
        /\ \A t \in AllTokens : words.node[Search(words, t)].freq
                                  = Cardinality({i \in DOMAIN given : t \in Tokens(i)})
    /\ pc \notin {"sort w", "sort words"} =>
        \A t \in Word : Search(words, t) # 0 <=> t \in {n.key : n \in ToSet(Walk(words))}

\* Of a list that is being sorted, the nodes already merged and those of the
\* runs still to come are all the nodes.
RECURSIVE Reach(_, _)
Reach(n, last) == IF n = 0 THEN {} ELSE {n} \cup
                  (IF n = last THEN {} ELSE Reach(link[n], last))
RECURSIVE Run(_, _)
Run(n, size) == IF n = 0 \/ size = 0 THEN {} ELSE {n} \cup Run(link[n], size - 1)

\* While listsort relinks the nodes it still reads the links of, each node is
\* either in the merged list or in what is left of the list: at no time is a
\* node unreachable (listsort.c).
NoNodeLost ==
    pc \in {"sort w", "sort words"} =>
        DOMAIN link = (IF sort.tail = 0 THEN {} ELSE Reach(sort.list, sort.tail))
                      \cup (IF Merging THEN Run(sort.p, sort.psize) \cup Reach(sort.q, 0)
                            ELSE Reach(sort.p, 0))
=============================================================================
