---------------------------- MODULE DecodedLine ----------------------------
(***************************************************************************)
(* The text that the scanner gets (lexer.c, iconvert.c): lines are read,   *)
(* converted to utf-8, their ends made "\n", and the middle of a token that *)
(* is too long for the scanner's buffer is thrown away.  A token of a      *)
(* header line in which the scanner finds encoded words is decoded.        *)
(*                                                                         *)
(* A character is its class: part of a token, a blank, the two characters  *)
(* of a line end, one that the charset does not have, and a shift sequence *)
(* that makes no character of its own.  What mime_decode does to a line is *)
(* in Decoding.                                                            *)
(***************************************************************************)
EXTENDS Integers, Sequences, SequencesExt

CONSTANTS
    Mails,          \* texts
    Settings,       \* options, and whether iconv knows the charset
    MAX_TOKEN_LEN,  \* the default of the option max_token_len
    BufferSize      \* the size of the scanner's buffer

Classes == {"token", "blank", "CR", "LF", "alien", "shift", "?"}

DecodedLineAssumption ==
    /\ Mails \subseteq Seq(Classes)
    /\ Settings \subseteq [unicode : BOOLEAN, replace_nonascii : BOOLEAN,
                           charset_known : BOOLEAN, max_token_len : Nat]
    /\ MAX_TOKEN_LEN \in Nat /\ BufferSize \in Nat

VARIABLES
    pc,
    opt,        \* the settings
    input,      \* what is left of the mail
    buff,       \* the buffer of this call of yyinput
    given,      \* history: what the scanner has got, and the mail
    mail

vars == <<pc, opt, input, buff, given, mail>>

Init == /\ pc = "lexer" /\ opt \in Settings /\ mail \in Mails
        /\ input = mail /\ buff = <<>> /\ given = <<>>

\* reader_getline: up to the end of the line, or what there is room for. Unicode
\* lines are read into a buffer that leaves room for their conversion.
Room == IF opt.unicode THEN BufferSize \div 2 ELSE BufferSize - Len(buff)
LineLength(text, room) ==
    CHOOSE n \in 1 .. Len(text) :
        /\ n <= room /\ \A i \in 1 .. n - 1 : text[i] # "LF"
        /\ text[n] = "LF" \/ n = Len(text) \/ n = room

\* convert: what iconv does not take is copied, or replaced; iconv takes nothing
\* at all where it could not be opened (iconvert tests for NULL).
Converted(c) == IF c = "shift" THEN <<>>
                ELSE IF c = "alien" /\ opt.replace_nonascii THEN <<"?">> ELSE <<c>>
iconvert(line) == IF opt.charset_known THEN FlattenSeq([i \in DOMAIN line |-> Converted(line[i])])
                  ELSE <<>>

\* Mutant: the line takes the place of what was kept of the line before.
AppendedAnew(line) == IF opt.unicode THEN iconvert(line) ELSE buff \o line

Appended(line) == IF opt.unicode THEN buff \o iconvert(line) ELSE buff \o line

\* The count of get_decoded_line: that of the buffer in unicode, and -2 for an
\* empty one; that of the line in raw.
CountOf(line) == IF ~opt.unicode THEN Len(line)
                 ELSE IF Appended(line) = <<>> THEN -2 ELSE Len(Appended(line))

\* CRLF -> NL at `count'.
EndsMade(text, count) ==
    IF count >= 2 /\ SubSeq(text, count - 1, count) = <<"CR", "LF">>
    THEN SubSeq(text, 1, count - 2) \o <<"LF">> ELSE text

LongToken(text) == \A i \in DOMAIN text : text[i] \in {"token", "alien"}

\* get_decoded_line and the loop of yyinput around it: a buffer that is one long
\* token is cut to its end, and the next line added.
GetDecodedLine ==
    /\ pc \in {"lexer", "yyinput"} /\ input # <<>>
    /\ \E n \in {LineLength(input, Room)} :
       LET line == SubSeq(input, 1, n)
           cnt == CountOf(line)
           text == EndsMade(Appended(line), cnt)
       IN /\ input' = SubSeq(input, n + 1, Len(input))
          /\ IF cnt > 0 /\ Len(text) >= MAX_TOKEN_LEN * 2 /\ LongToken(text)
             THEN IF Len(text) < opt.max_token_len
                  \* buff_shift asserts that it is asked for no more than there is.
                  THEN pc' = "failed" /\ UNCHANGED <<buff, given>>
                  ELSE /\ pc' = "yyinput" /\ UNCHANGED given
                       /\ buff' = SubSeq(text, Len(text) - opt.max_token_len + 1, Len(text))
             ELSE /\ given' = given \o text /\ buff' = <<>>
                  \* Nothing to give: the scanner takes it for the end.
                  /\ pc' = IF text = <<>> THEN "end" ELSE "lexer"
    /\ UNCHANGED <<opt, mail>>

\* get_decoded_line returns 0.
EndOfText ==
    /\ pc \in {"lexer", "yyinput"} /\ input = <<>>
    /\ pc' = (IF buff = <<>> THEN "end" ELSE "lexer")
    /\ given' = given \o buff /\ buff' = <<>>
    /\ UNCHANGED <<opt, input, mail>>

Next == GetDecodedLine \/ EndOfText

Spec == Init /\ [][Next]_vars

-----------------------------------------------------------------------------
(* text_decode: the items of a token are characters, blanks and encoded    *)
(* words; a word has the number of characters it stands for, whether its   *)
(* encoding is correct, whether iconv knows its charset, and its number;   *)
(* the last item is a word.  They become one text, in the token's own place *)
(* (raw) or in a buffer (unicode).  The settings: unicode, default_known   *)
(* (whether iconv knows charset_default).                                  *)

\* The decoded word, or the encoded text where the encoding is not correct.
Piece(w, i) == [k |-> "text", of |-> w.number, at |-> i]
Text(w) == IF w.valid THEN [i \in 1 .. w.leng |-> Piece(w, i)] ELSE <<Piece(w, 0)>>

\* bf_iconv_open: where the charset is not known the default is tried.
Opened(w, set) == w.known \/ set.default_known

\* iconvert_cd: copy writes to the front of the buffer.
Collected(result, w, set) ==
    IF set.unicode /\ ~Opened(w, set) THEN Text(w) ELSE result \o Text(w)

\* Only blanks between an item and the words on both its sides.
Adjacent(token, i) ==
    \E j \in 1 .. i - 1, m \in i + 1 .. Len(token) :
        /\ token[j].k = "word" /\ token[m].k = "word"
        /\ \A n \in j + 1 .. m - 1 : token[n].k = "blank"

\* What the decoded text is made of: items and where they come from.
TextDecode(token, set) ==
    LET result[i \in 0 .. Len(token)] ==
            IF i = 0 THEN <<>>
            ELSE IF token[i].k = "word" THEN Collected(result[i - 1], token[i], set)
            ELSE IF Adjacent(token, i) THEN result[i - 1]
            ELSE Append(result[i - 1], token[i])
    IN result[Len(token)]

-----------------------------------------------------------------------------
(* Properties                                                              *)

TypeOK == /\ pc \in {"lexer", "yyinput", "end", "failed"} /\ opt \in Settings
          /\ mail \in Mails /\ {input, buff, given} \subseteq Seq(Classes)

\* The text as it should be, but for the characters of its tokens.
IsToken(c) == c \in {"token", "alien", "?"}
Others(text) == SelectSeq(text, LAMBDA c : ~IsToken(c) /\ c \notin {"CR", "shift"})

\* The length of the token in front of the i-th of the other characters, or of
\* the end of the text.
TokenLength(text, i) ==
    LET clean == SelectSeq(text, LAMBDA c : c \notin {"CR", "shift"})
        ends == SelectSeq([k \in DOMAIN clean |-> k], LAMBDA k : ~IsToken(clean[k]))
        end == IF i > Len(ends) THEN Len(clean) + 1 ELSE ends[i]
    IN end - (IF i = 1 THEN 0 ELSE ends[i - 1]) - 1

\* The scanner gets the whole text, in order; only of a token that is twice as
\* long as any that counts may the beginning be missing, and the rest is at least
\* as long as one that counts.  It fails where iconv does not know the charset, or
\* what is read at once is all shift sequences: the -2 that get_decoded_line
\* returns to avoid "a message truncation" (lexer.c:237) leaves yyinput's count at
\* 0, which is the end of the text for the scanner.
TextReachesScanner ==
    pc = "end" =>
        /\ Others(given) = Others(mail)
        /\ \A i \in 1 .. Len(Others(mail)) + 1 :
            \/ TokenLength(given, i) = TokenLength(mail, i)
            \/ /\ TokenLength(mail, i) >= MAX_TOKEN_LEN * 2
               /\ TokenLength(given, i) \in opt.max_token_len .. TokenLength(mail, i)

\* The buffer of the scanner is never overrun, nor read in front of its start. It
\* fails where max_token_len is more than twice its default (lexer.c:332).
BufferKept == /\ Len(buff) <= BufferSize
              /\ pc # "failed"

\* A line end is "\n" for the scanner.  It fails in raw behind a long token, where
\* the count of the line is taken for that of the buffer (lexer.c:257).
NoCarriageReturns == \A i \in 1 .. Len(given) - 1 :
    ~(given[i] = "CR" /\ given[i + 1] = "LF")

\* The decoded token is what is in front of the first word, then the text of each
\* word and of what is between them, but for blanks alone; no word is lost.  It
\* fails where iconv does not know charset_default: copy puts a word over those in
\* front of it (iconvert.c:190).
WordsJoined(token, set) ==
    LET words == SelectSeq([i \in DOMAIN token |-> i], LAMBDA i : token[i].k = "word")
        gap(n) == SubSeq(token, words[n] + 1, words[n + 1] - 1)
        shown(n) == IF n < Len(words) /\ \E i \in DOMAIN gap(n) : gap(n)[i].k # "blank"
                    THEN gap(n) ELSE <<>>
    IN TextDecode(token, set) =
           SubSeq(token, 1, words[1] - 1)
           \o FlattenSeq([n \in DOMAIN words |-> Text(token[words[n]]) \o shown(n)])
=============================================================================
