------------------------------- MODULE MCInput -------------------------------
(***************************************************************************)
(* What happens to the input, in six components that a TLC run takes one   *)
(* at a time: the mails of a file and their text (MailText), directories   *)
(* (Maildir), the parts of a mail (Mime), its lines as they are decoded    *)
(* (Decoding) and reach the scanner (DecodedLine), and the tokens          *)
(* (TokenStream).  A seventh is a token to decode (TextDecode), which      *)
(* takes no step.                                                          *)
(***************************************************************************)
EXTENDS MailText
CONSTANTS MailId, Contents, MUA, \* files, what they are, what other programs do to them
          Boundary,             \* the boundary strings of a mail
          MaxDepth,             \* of its parts
          TokenOptions, Tags, MaxTokens, MaxRuns, MaxMessages, AddressOctets,
          SavedKinds,           \* of TokenStream
          m1, m2, Unset
VARIABLES component,
          dtype, kind, dirs, dpc, subs, sub, listed, steady, entry, known, first, renamed, got,
          stack, mheader, ahead, part, where,
          topt, theader, parent, attached, tpc, tok_count, init_token, ring, token_prefix,
          save_class, ipsave, saved, place,
          cpc, job, line, from, to, size, count,
          lpc, lopt, linput, buff, given, lmail,
          token, wopt   \* a token for TextDecode, which takes no step

\* A mail, and a file that may be another.
MCMailId == {m1, m2}
MCContents == {[m \in MCMailId |-> IF m = m2 THEN k ELSE "mail"] :
                   k \in {"mail", "private", "barred"}}

D == INSTANCE Maildir WITH Other <- MUA, type <- dtype, pc <- dpc
E == INSTANCE Mime WITH msg_header <- mheader

MCTokenOptions ==
    {[multi_token_count |-> m, markup |-> b, subnets |-> s] :
        m \in {2, 3}, b \in BOOLEAN, s \in BOOLEAN}
    \cup {[multi_token_count |-> 1, markup |-> TRUE, subnets |-> TRUE]}

MCTags == {"head", "mime", "subj"}

T == INSTANCE TokenStream WITH
        Options <- TokenOptions, Octets <- AddressOctets, Kinds <- SavedKinds,
        opt <- topt, header <- theader, pc <- tpc

\* Lines of three octets: the ones that matter to a coding, and others.
C == INSTANCE Decoding WITH
        Plain <- {0, 32, 61, 65, 95, 255}, Octets <- 3, Foreign <- 200,
        MoreTexts <- {}, pc <- cpc, text <- line, s <- from, d <- to

\* Lines of up to two buffers, with a long run of token characters in front of
\* and behind something else.
MCRun(n) == [i \in 1 .. n |-> "token"]
MCTexts ==
    {MCRun(k) \o mid \o MCRun(j) \o end \o rest :
        k \in 0 .. 9, j \in {0, 3, 5}, mid \in {<<>>, <<"blank">>, <<"alien">>},
        end \in {<<>>, <<"LF">>, <<"CR", "LF">>},
        rest \in {<<>>, <<"alien">>, <<"token", "blank", "CR", "LF", "token">>}}
MCSettings ==
    [unicode : BOOLEAN, replace_nonascii : BOOLEAN, charset_known : {TRUE},
     max_token_len : {1, 2}]
\* One or two encoded words of up to two characters behind something else.
MCChar == [k |-> "char"]
MCBlank == [k |-> "blank"]
MCWords(i) ==
    {[k |-> "word", leng |-> n, valid |-> v, known |-> c, number |-> i] :
        n \in 0 .. 2, v \in BOOLEAN, c \in BOOLEAN}
MCTokens ==
    {front \o <<word>> \o more :
        front \in {<<>>, <<MCChar>>, <<MCChar, MCChar>>}, word \in MCWords(1),
        more \in {<<>>} \cup {gap \o <<last>> :
            gap \in {<<>>, <<MCBlank>>, <<MCBlank, MCBlank>>, <<MCBlank, MCChar>>},
            last \in MCWords(2)}}

MCTokenSettings == [unicode : BOOLEAN, default_known : {TRUE}]

L == INSTANCE DecodedLine WITH
        Mails <- MCTexts, Settings <- MCSettings, MAX_TOKEN_LEN <- 2, BufferSize <- 8,
        pc <- lpc, opt <- lopt, input <- linput, mail <- lmail

ASSUME InputAssumption ==
    /\ D!MaildirAssumption /\ Contents # {} /\ E!MimeAssumption /\ T!TokenStreamAssumption
    /\ TokenOptions # {}
ASSUME C!DecodingAssumption /\ L!DecodedLineAssumption

dirVars == <<dtype, kind, dirs, dpc, subs, sub, listed, steady, entry, known, first, renamed, got>>
mimeVars == <<stack, mheader, ahead, part, where>>
tokenVars == <<topt, theader, parent, attached, tpc, tok_count, init_token, ring, token_prefix,
               save_class, ipsave, saved, place>>
decodingVars == <<cpc, job, line, from, to, size, count>>
lineVars == <<lpc, lopt, linput, buff, given, lmail>>
wordVars == <<token, wopt>>
allVars == <<component, vars, dirVars, mimeVars, tokenVars, decodingVars, lineVars,
             wordVars>>

\* The other components stay in one of their initial states.
DecodingInit ==
    IF component = "decoding" THEN C!Init
    ELSE cpc = "off" /\ job = Unset /\ line = <<>> /\ from = 0 /\ to = 0 /\ size = 0 /\ count = 0

LineInit ==
    IF component = "line" THEN L!Init
    ELSE /\ lpc = "off" /\ lopt = Unset /\ lmail = <<>> /\ linput = <<>> /\ buff = <<>>
         /\ given = <<>>

WordInit ==
    IF component = "word" THEN token \in MCTokens /\ wopt \in MCTokenSettings
    ELSE token = <<>> /\ wopt = Unset

InputInit ==
    /\ component \in {"text", "dir", "mime", "token", "decoding", "line", "word"}
    /\ Init /\ D!Init /\ E!Init /\ T!Init
    /\ component # "text" => opt = CHOOSE c \in Cases : TRUE
    /\ component # "dir" => dtype = "mh" /\ known = {} /\ kind = CHOOSE c \in Contents : TRUE
    /\ component # "token" => topt = CHOOSE c \in TokenOptions : TRUE
    /\ DecodingInit /\ LineInit /\ WordInit

Text == Next /\ UNCHANGED <<dirVars, mimeVars, tokenVars, decodingVars, lineVars>>
Dir == D!Next /\ UNCHANGED <<vars, mimeVars, tokenVars, decodingVars, lineVars>>
Parts == E!Next /\ UNCHANGED <<vars, dirVars, tokenVars, decodingVars, lineVars>>
Tokens == T!Next /\ UNCHANGED <<vars, dirVars, mimeVars, decodingVars, lineVars>>
Decode == C!Next /\ UNCHANGED <<vars, dirVars, mimeVars, tokenVars, lineVars>>
Scan == L!Next /\ UNCHANGED <<vars, dirVars, mimeVars, tokenVars, decodingVars>>

InputNext ==
    /\ UNCHANGED <<component, wordVars>>
    /\ \/ component = "text" /\ Text
       \/ component = "dir" /\ Dir
       \/ component = "mime" /\ Parts
       \/ component = "token" /\ Tokens
       \/ component = "decoding" /\ Decode
       \/ component = "line" /\ Scan

InputSpec == InputInit /\ [][InputNext]_allVars /\ (component = "text" => WF_vars(Next))

-----------------------------------------------------------------------------
(* Properties of the components.                                           *)

\* The lines of a file reach the mails it is cut into, whole and at the right
\* places (MailText).
MailsKept == LinesKept /\ MailsSplit

\* A mail written with -p is the mail that was read, with the header lines
\* bogofilter adds in its header (MailText).
MailWritten == PassedThrough /\ StatusInHeader

\* Every input is read to its end (MailText).
TextEnds == component = "text" => InputEnds

\* No mail of a directory is missed but those that are renamed in a directory while
\* it is read, as flags are in cur (Maildir).
OnlyRenamedAreMissed == D!OnlyRenamedAreMissed

\* Every line is decoded as its own part declares, but for the first behind a header
\* that ends in an encoded word (Mime).
DecodedAsDeclared == E!DecodedAsDeclared

\* Tokens are combined with their neighbours only, and what is logged of a message is
\* its own (TokenStream).
CombinesARun == T!CombinesARun /\ T!SavedIsOwn

\* The decoders write no byte of a line before they have read it, and give back
\* what was encoded (Decoding).
LinesDecoded == component = "decoding" => C!UnreadKept /\ C!LineDecoded

\* The characters of a text reach the scanner, whatever the size of its buffer
\* and of the lines; encoded words are joined where nothing but blanks is between
\* them (DecodedLine).
TextReachesScanner ==
    /\ component = "line" => L!TextReachesScanner /\ L!BufferKept
    /\ component = "word" => L!WordsJoined(token, wopt)

\* The counterexamples: see the comments in the components.
ReadOnce == D!ReadOnce
NoMailMissed == D!NoMailMissed
EpilogueIsBody == E!EpilogueIsBody
FirstLineDecoded == E!FirstLineDecoded
MessagesApart == T!MessagesApart
OnlyAddressesAreTaggedSo == T!OnlyAddressesAreTaggedSo

-----------------------------------------------------------------------------
(* The files.                                                              *)

MCLine(k, c, n) == [k |-> k, c |-> c, n |-> n, nl |-> TRUE]
MCSep(k) == MCLine(k, k, 0)
MCPlain(k) == MCLine(k, None, 0)
MCRmail(n) == MCLine("rmail", "rmail", n)

\* The files of at most n lines; the last may be cut short.
MCCut(f) == IF f = <<>> \/ f[Len(f)].k = "blank" THEN {f}
            ELSE {f, [f EXCEPT ![Len(f)].nl = FALSE]}
MCFiles(lines, n) ==
    UNION {UNION {MCCut(f) : f \in [1 .. l -> lines]} : l \in 0 .. n}

\* Text lines that begin with the first byte of a separator are among them.
MCMboxLines == {MCSep("From"), MCLine("text", "From", 0), MCPlain("blank"),
                MCPlain("text")}
MCT == MCPlain("text")
MCRmailFiles == {<<MCRmail(2), MCT, MCSep("rmail"), MCRmail(0), MCRmail(1), MCT>>,
                 <<MCRmail(1), MCRmail(1)>>,
                 <<MCRmail(2), MCPlain("spam"), MCPlain("fold"), MCRmail(1), MCT>>}
MCAnt == MCSep("ant")
MCAntFiles == {<<MCAnt, MCT, MCPlain("dot"), MCAnt, MCAnt, MCPlain("dot")>>,
               <<MCAnt, MCPlain("dot")>>}
MCOddFiles == {<<MCLine("text", "ant", 0), MCPlain("blank"), MCSep("From")>>}

MCMailLines == {MCPlain(k) : k \in {"spam", "fold", "subject", "place", "text",
                                    "blank", "space"}}

MCCase(m, p, t, l, s, input) ==
    [mbox_mode |-> m, passthrough |-> p, tag |-> t, placed |-> l, stores |-> s,
     input |-> input]

MCCases == {MCCase(TRUE, FALSE, FALSE, FALSE, 3, "stores"),
            MCCase(FALSE, FALSE, FALSE, FALSE, 2, "plain"),
            MCCase(FALSE, TRUE, TRUE, TRUE, 1, "mail"),
            MCCase(FALSE, TRUE, FALSE, FALSE, 1, "short"),
            MCCase(TRUE, TRUE, FALSE, FALSE, 1, "mbox")}

MCPlainFiles == MCFiles(MCMboxLines, 3)
MCStoreFiles == MCPlainFiles \cup MCRmailFiles \cup MCAntFiles \cup MCOddFiles
MCMailFiles == MCFiles(MCMailLines, 4)
MCShortFiles == MCFiles(MCMailLines, 3)
MCMboxFiles == MCFiles({MCSep("From"), MCPlain("spam"), MCPlain("fold"),
                        MCPlain("blank")}, 4)

\* A batch cut short in its second mail, a batch read without mbox_mode, a
\* header cut short.
MCCutCases == {MCCase(TRUE, FALSE, FALSE, FALSE, 1, "cut")}
MCBatchCases == {MCCase(FALSE, FALSE, FALSE, FALSE, 1, "batch")}
MCShortCases == {MCCase(FALSE, TRUE, TRUE, FALSE, 1, "short")}

MCFilesOf(c) == CASE c.input = "stores" -> MCStoreFiles
                  [] c.input = "plain"  -> MCPlainFiles
                  [] c.input = "mail"   -> MCMailFiles
                  [] c.input = "short"  -> MCShortFiles
                  [] c.input = "mbox"   -> MCMboxFiles
                  [] c.input = "batch"  -> MCRmailFiles
                  [] c.input = "cut"    -> {<<MCRmail(0), MCRmail(2), MCT>>}

\* These files are whole.
ASSUME \A c \in MCCases : \A f \in MCFilesOf(c) : WholeFile(c, f)

\* Boundaries; one that begins with another, in MCNested.
MCBoundaries == {<<"a">>, <<"b">>, <<"c", "d">>}
MCNested == {<<"a">>, <<"a", "b", "c">>}
=============================================================================
