------------------------------- MODULE Lookup -------------------------------
(***************************************************************************)
(* The wordlists of a process (wordlists_base.c) and the lookup of the     *)
(* tokens of a message in all of them (score.c).                           *)
(*                                                                         *)
(* lookup treats the spam and the good counts alike: one number stands for *)
(* both. The lists are open; what they hold changes only while the process *)
(* has no transaction on them, after an abort.                             *)
(***************************************************************************)
EXTENDS Integers, Sequences, SequencesExt, FiniteSetsExt

CONSTANTS
    File,           \* the files of the wordlists
    WordSeq,        \* the tokens of the message, in the order of its wordhash
    ConfigLines,    \* the wordlist lines of the configuration
    MaxLists,       \* bound on the configuration lines
    MaxMsgs,        \* bound on the messages of a list
    MaxRetries      \* bound on the aborts of a transaction

Token == ToSet(WordSeq)

ASSUME ConfigLinesAssumption ==
    ConfigLines \subseteq [file : File, type : {"regular", "ignore"},
                           override : Int]
\* A wordhash has every token once.
ASSUME WordSeqAssumption ==
    /\ WordSeq \in Seq(Token)
    /\ \A i, j \in DOMAIN WordSeq : WordSeq[i] = WordSeq[j] => i = j
ASSUME MaxListsAssumption == MaxLists \in Nat \ {0}
ASSUME MaxMsgsAssumption == MaxMsgs \in Nat
ASSUME MaxRetriesAssumption == MaxRetries \in Nat

\* What a file holds: the number of its messages, and the counts, perhaps 0,
\* of the tokens that it has.
Content ==
    {c \in [msgs : 0 .. MaxMsgs,
            count : UNION {[S -> 0 .. MaxMsgs] : S \in SUBSET Token}] :
        \A t \in DOMAIN c.count : c.count[t] <= c.msgs}

VARIABLES
    config,     \* the lines of the configuration still to be read
    word_lists, \* the lists, the first is asked first
    content,    \* what each file holds for this process
    todo,       \* the tokens that are still to be looked up
    cursor,     \* the list lookup is at
    override,
    cnts,       \* the counts of each token of the message
    msgs,       \* its msgs_good or msgs_bad
    retries     \* how often a transaction was aborted

vars == <<config, word_lists, content, todo, cursor, override, cnts, msgs,
          retries>>

Init ==
    /\ config \in UNION {[1 .. n -> ConfigLines] : n \in 1 .. MaxLists}
    /\ word_lists = <<>>
    /\ content \in [File -> Content]
    /\ todo = WordSeq
    /\ cursor = 1
    /\ override = 0
    /\ cnts = [t \in Token |-> 0]
    /\ msgs = [t \in Token |-> 0]
    /\ retries = 0

-----------------------------------------------------------------------------
(* Reading the configuration *)

\* The place of a new list: after those whose precedence is not higher.
Place(list) ==
    1 + Cardinality({i \in DOMAIN word_lists :
                        word_lists[i].override <= list.override})

\* Mutant: the list goes to the end.
InitWordlistAppends ==
    /\ config # <<>>
    /\ config' = Tail(config)
    /\ word_lists' = IF Head(config) \in ToSet(word_lists)
                        THEN word_lists ELSE Append(word_lists, Head(config))
    /\ UNCHANGED <<content, todo, cursor, override, cnts, msgs, retries>>

\* init_wordlist: duplicates are dropped.
InitWordlist ==
    /\ config # <<>>
    /\ config' = Tail(config)
    /\ LET list == Head(config)
       IN  word_lists' = IF list \in ToSet(word_lists)
                            THEN word_lists
                            ELSE InsertAt(word_lists, Place(list), list)
    /\ UNCHANGED <<content, todo, cursor, override, cnts, msgs, retries>>

-----------------------------------------------------------------------------
(* Looking the tokens up *)

LookingUp == config = <<>> /\ todo # <<>>
List == word_lists[cursor]

HasToken(list, t) == t \in DOMAIN content[list.file].count

CountOf(list, t) == IF HasToken(list, t) THEN content[list.file].count[t] ELSE 0

\* lookup sets the message counts of the token to 0 when it begins.
MsgsSoFar(t) == IF cursor = 1 THEN 0 ELSE msgs[t]

\* lookup returns: the next token, from the first list.
NextToken ==
    /\ todo' = Tail(todo)
    /\ cursor' = 1
    /\ override' = 0

\* Mutant: what other lists hold of an ignored token is kept.
FoundIgnoredKeeps(t) ==
    /\ List.type = "ignore"
    /\ HasToken(List, t)
    /\ msgs' = [msgs EXCEPT ![t] = MsgsSoFar(t)]
    /\ UNCHANGED cnts
    /\ NextToken

\* The token is on an ignore list, which ends its lookup.
FoundIgnored(t) ==
    /\ List.type = "ignore"
    /\ HasToken(List, t)
    /\ cnts' = [cnts EXCEPT ![t] = 0]
    /\ msgs' = [msgs EXCEPT ![t] = MsgsSoFar(t)]
    /\ NextToken

\* Mutant: the counts of the last list replace those of the ones before.
AddCountsReplaces(t) ==
    /\ List.type = "regular" \/ ~HasToken(List, t)
    /\ cnts' = [cnts EXCEPT ![t] = CountOf(List, t)]
    /\ msgs' = [msgs EXCEPT ![t] = MsgsSoFar(t) + content[List.file].msgs]
    /\ IF cursor < Len(word_lists)
          THEN cursor' = cursor + 1 /\ override' = List.override
               /\ UNCHANGED todo
          ELSE NextToken

\* The counts of the list are added, and its message counts even if it does
\* not have the token.
AddCounts(t) ==
    /\ List.type = "regular" \/ ~HasToken(List, t)
    /\ cnts' = [cnts EXCEPT ![t] = @ + CountOf(List, t)]
    /\ msgs' = [msgs EXCEPT ![t] = MsgsSoFar(t) + content[List.file].msgs]
    /\ IF cursor < Len(word_lists)
          THEN cursor' = cursor + 1 /\ override' = List.override
               /\ UNCHANGED todo
          ELSE NextToken

\* A list is asked for the token, unless it comes after one of a higher
\* precedence, or before any with a precedence below 0.
ReadList ==
    /\ LookingUp
    /\ LET t == Head(todo)
       IN  \/ /\ override <= List.override
              /\ FoundIgnored(t) \/ AddCounts(t)
           \/ /\ override > List.override
              /\ msgs' = [msgs EXCEPT ![t] = MsgsSoFar(t)]
              /\ UNCHANGED cnts
              /\ NextToken
    /\ UNCHANGED <<config, word_lists, content, retries>>

\* lookup_words starts at the first token. Before begin_wordlist is through
\* another process may have written to the list.
Restart(c) ==
    /\ todo' = WordSeq
    /\ cursor' = 1
    /\ override' = 0
    /\ content' = [content EXCEPT ![List.file] = c]

\* ds_read finds that its transaction has been aborted.
Aborted ==
    /\ LookingUp
    /\ override <= List.override
    /\ retries < MaxRetries
    /\ retries' = retries + 1
    /\ \E c \in Content : Restart(c)
    /\ UNCHANGED <<config, word_lists, cnts, msgs>>

Next == InitWordlist \/ ReadList \/ Aborted

Spec == Init /\ [][Next]_vars

-----------------------------------------------------------------------------
(* Properties *)
Done == config = <<>> /\ todo = <<>>

\* The lists, by their place, that ignore a token; those read for it.
IgnoredBy(t) ==
    {i \in DOMAIN word_lists :
        word_lists[i].type = "ignore" /\ HasToken(word_lists[i], t)}
ReadFor(t) == {i \in DOMAIN word_lists : \A j \in IgnoredBy(t) : i < j}

\* Precedences are "an integer like 1, 2, 3" (bogofilter-faq.html).
Documented == \A i \in DOMAIN word_lists : word_lists[i].override >= 0

\* The types of the variables.
TypeOK ==
    /\ config \in Seq(ConfigLines)
    /\ word_lists \in Seq(ConfigLines)
    /\ content \in [File -> Content]
    /\ \E n \in 1 .. Len(WordSeq) + 1 : todo = SubSeq(WordSeq, n, Len(WordSeq))
    /\ cursor \in 1 .. MaxLists
    /\ override \in Int
    /\ cnts \in [Token -> Nat]
    /\ msgs \in [Token -> Nat]
    /\ retries \in 0 .. MaxRetries

\* The lists are in the order of their precedence and of the configuration,
\* and no list is there twice, in whatever order the lines come.
ListsOrdered ==
    \A i, j \in DOMAIN word_lists :
        i < j => /\ word_lists[i].override <= word_lists[j].override
                 /\ word_lists[i] # word_lists[j]

\* The counts of a token are those that its lists have for it.
SumOfLists(t) ==
    cnts[t] = MapThenSumSet(LAMBDA i : CountOf(word_lists[i], t),
                            DOMAIN word_lists)

\* The counts of a token that is not ignored are the sums over all lists, in
\* whatever order the lists come.
CountsAreSums ==
    Done /\ Documented /\ retries = 0 =>
        \A t \in Token : IgnoredBy(t) = {} => SumOfLists(t)

\* score.c, of an abort: "start all over, the message counts may have
\* changed": the counts are those of the last attempt.
RestartsAllOver ==
    Done /\ Documented =>
        \A t \in Token : IgnoredBy(t) = {} => SumOfLists(t)

\* The message counts of a token are those of the lists it was looked up in,
\* as they are when the lookup ends, whatever was aborted on the way.
MessagesAreSums ==
    Done /\ Documented =>
        \A t \in Token :
            msgs[t] = MapThenSumSet(LAMBDA i : content[word_lists[i].file].msgs,
                                    ReadFor(t))

\* The counts of a token and the message counts that go with it are the sums
\* over the lists, as they are when the lookup ends.
CountsSummed == CountsAreSums /\ MessagesAreSums

\* A token on an ignore list has no influence, whatever its precedence and
\* however often its lookup was started again.
IgnoredCountsNothing ==
    Done /\ Documented => \A t \in Token : IgnoredBy(t) # {} => cnts[t] = 0

\* bogofilter-faq.html, of a token that was found: "Lists with higher
\* precedence numbers will not be checked".
PrecedenceEndsLookup ==
    Done =>
        \A t \in Token, i \in DOMAIN word_lists :
            HasToken(word_lists[i], t) =>
                msgs[t] <= MapThenSumSet(
                    LAMBDA j : content[word_lists[j].file].msgs,
                    {j \in DOMAIN word_lists :
                        word_lists[j].override <= word_lists[i].override})
=============================================================================
