------------------------------ MODULE Decoding ------------------------------
(***************************************************************************)
(* The line decoders (base64.c, qp.c, uudecode.c) as mime_decode and       *)
(* get_decoded_line call them. Each decodes a line in place: what it has   *)
(* decoded grows from the left into the bytes that it has read.            *)
(*                                                                         *)
(* A byte is its number. The lines are those that a mail program writes.   *)
(***************************************************************************)
EXTENDS Integers, Sequences, SequencesExt, Functions

CONSTANTS
    Plain,      \* the octets of the texts that are encoded
    Octets,     \* bound on their number in a line
    Foreign,    \* a byte that is not of the alphabets
    MoreTexts   \* texts beside those of 1 to Octets octets

DecodingAssumption == /\ Plain \subseteq 0 .. 255 /\ Octets \in Nat
                      /\ Foreign \in 128 .. 255 /\ MoreTexts \subseteq Seq(0 .. 255)

VARIABLES
    pc,
    job,        \* the coding, the text that was encoded, the line as it was read
    text,       \* the bytes of the line
    s,          \* bytes read
    d,          \* bytes written
    size,       \* base64: bytes that are left to read
    count       \* the length that get_decoded_line gives the line

vars == <<pc, job, text, s, d, size, count>>

LF == 10
CR == 13
SP == 32
Equals == 61

-----------------------------------------------------------------------------
(* What the writer does: lines with the text they encode.                  *)

\* base64_charset
Alphabet(v) == CASE v \in 0 .. 25  -> v + 65
                 [] v \in 26 .. 51 -> v + 71
                 [] v \in 52 .. 61 -> v - 4
                 [] v = 62 -> 43
                 [] v = 63 -> 47

\* Three octets, the missing ones 0, as four numbers of six bits.
Sixes(t) == LET o == t \o <<0, 0, 0>>
                n == o[1] * 65536 + o[2] * 256 + o[3]
            IN <<n \div 262144, n \div 4096 % 64, n \div 64 % 64, n % 64>>

Quartet64(t) == [i \in 1 .. 4 |-> IF i > Len(t) + 1 THEN Equals ELSE Alphabet(Sixes(t)[i])]
QuartetUU(t) == [i \in 1 .. 4 |-> IF Sixes(t)[i] = 0 THEN 96 ELSE Sixes(t)[i] + SP]

Triples(t) == [i \in 1 .. ((Len(t) + 2) \div 3) |->
                  SubSeq(t, 3 * i - 2, IF 3 * i > Len(t) THEN Len(t) ELSE 3 * i)]
Encoded(t, Quartet(_)) == FlattenSeq([i \in DOMAIN Triples(t) |-> Quartet(Triples(t)[i])])

Hex(v) == IF v < 10 THEN v + 48 ELSE v + 55
Escaped(b) == <<Equals, Hex(b \div 16), Hex(b % 16)>>
IsLiteral(b, coding) ==
    /\ b \in 33 .. 126 /\ b # Equals
    /\ coding = "rfc2047" => b \notin {63, 95}
Quoted(t, coding) == FlattenSeq([i \in DOMAIN t |->
    IF coding = "rfc2047" /\ t[i] = SP THEN <<95>>
    ELSE IF IsLiteral(t[i], coding) THEN <<t[i]>> ELSE Escaped(t[i])])

LineEnds == {<<LF>>, <<CR, LF>>}
Texts == UNION {[1 .. n -> Plain] : n \in 1 .. Octets} \cup MoreTexts
Job(c, t, l) == [coding |-> c, plain |-> t, line |-> l]

\* A line of a base64 part; a foreign byte makes it a line of something else.
Base64Jobs == {Job("base64", t, Encoded(t, Quartet64) \o e) : t \in Texts, e \in LineEnds}
              \cup {Job("base64", <<Foreign>> \o Encoded(t, Quartet64),
                        <<Foreign>> \o Encoded(t, Quartet64)) : t \in Texts}
\* A line of a quoted-printable part, ended, or continued in the next.
QuotedJobs == {Job("rfc2045", t \o e, Quoted(t, "rfc2045") \o e) : t \in Texts, e \in LineEnds}
              \cup {Job("rfc2045", t, Quoted(t, "rfc2045") \o <<Equals>> \o e) :
                        t \in Texts, e \in LineEnds}
\* An encoded word of a header line.
WordJobs == {Job("rfc2047", t, Quoted(t, "rfc2047")) : t \in Texts}
            \cup {Job("word64", t, Encoded(t, Quartet64)) : t \in Texts}
\* A line of a uuencoded file, or its last line.
EndLine == <<101, 110, 100, LF>>
UUJobs == {Job("uuencode", t, <<Len(t) + SP>> \o Encoded(t, QuartetUU) \o e) :
                t \in Texts, e \in LineEnds}
          \cup {Job("uuencode", EndLine, EndLine)}

Jobs == Base64Jobs \cup QuotedJobs \cup WordJobs \cup UUJobs

-----------------------------------------------------------------------------
Init == /\ pc = "start" /\ job \in Jobs
        /\ text = job.line /\ s = 0 /\ d = 0 /\ size = Len(job.line) /\ count = 0

\* The byte behind the last one read; the byte n behind that.
At(n) == text[s + n]

\* What a decoder leaves in the text, and how much of it.
Write(bytes) == /\ text' = SubSeq(text, 1, d) \o bytes
                           \o SubSeq(text, d + Len(bytes) + 1, Len(text))
                /\ d' = d + Len(bytes)

\* base64_xlate; "=" is base64_invalid, and anything foreign is 0 as "A" is.
Xlate(b) == CASE b \in 65 .. 90  -> b - 65
              [] b \in 97 .. 122 -> b - 71
              [] b \in 48 .. 57  -> b + 4
              [] b = 43 -> 62
              [] b = 47 -> 63
              [] b = Equals -> 127
              [] OTHER -> 0

\* base64_validate
Valid64 == \A i \in DOMAIN text :
    Xlate(text[i]) = 0 => text[i] \in {65, LF, CR}

\* qp_validate of an encoded word
ValidWord == \A i \in DOMAIN text : text[i] \in 33 .. 126 /\ text[i] # 63

\* The length that a line has when a decoder has given back n: a decoder that
\* finds nothing, or nothing to do, leaves the line as it is.
LengthOf(n) == IF n # 0 /\ n < Len(text) THEN n ELSE Len(text)

Return(n) == pc' = "done" /\ count' = LengthOf(n) /\ UNCHANGED <<job, s, size>>

\* "begin " and "end", in small letters or large ones: not data.
Folded(b) == IF b \in 65 .. 90 THEN b + 32 ELSE b
BeginsWith(word) == /\ Len(text) >= Len(word)
                    /\ \A i \in DOMAIN word : Folded(text[i]) = word[i]
IsMarker == BeginsWith(<<98, 101, 103, 105, 110, SP>>) \/ BeginsWith(<<101, 110, 100>>)

\* The decoder that the coding calls for, and what it does not touch: a base64
\* line of up to four bytes, a line that is not what it should be.
Untouched == CASE job.coding = "base64"   -> Len(text) <= 4 \/ ~Valid64
               [] job.coding = "word64"   -> ~Valid64
               [] job.coding = "rfc2047"  -> ~ValidWord
               [] job.coding = "uuencode" -> text[1] % 128 < SP \/ IsMarker
               [] OTHER -> FALSE

Start ==
    /\ pc = "start"
    /\ IF Untouched THEN Return(Len(text)) /\ UNCHANGED <<text, d>>
       ELSE /\ pc' = (CASE job.coding \in {"base64", "word64"} -> "base64"
                        [] job.coding \in {"rfc2045", "rfc2047"} -> "qp"
                        [] OTHER -> "uu")
            /\ s' = (IF job.coding = "uuencode" THEN 1 ELSE 0)
            /\ UNCHANGED <<job, text, d, size, count>>

-----------------------------------------------------------------------------
(* base64_decode                                                           *)

LineBreaks == CHOOSE n \in 0 .. size :
    /\ \A i \in 1 .. n : At(i) \in {CR, LF}
    /\ n < size => At(n + 1) \notin {CR, LF}

\* The numbers before the first "=" of the next four, and the octets they make.
Digits(n) == SelectInSeq([i \in 1 .. 4 |-> Xlate(At(n + i))], LAMBDA v : v = 127)
Number(n, k) == LET v[i \in 0 .. k] == IF i = 0 THEN 0 ELSE v[i - 1] * 64 + Xlate(At(n + i))
                IN v[k]
OctetsOf(v) == <<v \div 65536 % 256, v \div 256 % 256, v % 256>>

Missing(n) == IF Digits(n) = 0 THEN 0 ELSE 5 - Digits(n)

\* Mutant: the bits that pad the number are not taken off.
PaddedNumber(n) == Number(n, 4 - Missing(n))

\* The number that the digits make, two bits less for each one that is missing.
QuartetNumber(n) == Number(n, 4 - Missing(n)) \div (4 ^ Missing(n))

\* Four bytes, behind n of a line break; with the first "=" the loop ends, and
\* a second one is skipped.
DecodeQuartet ==
    LET n == LineBreaks
        shorten == Missing(n)
    IN /\ Write(SubSeq(OctetsOf(QuartetNumber(n)), 1 + shorten, 3))
       /\ s' = s + n + (IF shorten = 0 THEN 4
                        ELSE 5 - shorten + (IF shorten = 2 THEN 1 ELSE 0))
       /\ size' = size - n - 4

\* The NUL is written where the next octet would be.
Base64Step ==
    /\ pc = "base64"
    /\ IF size - LineBreaks < 4
       THEN /\ text' = [text EXCEPT ![d + 1] = 0] /\ UNCHANGED d
            /\ Return(d)
       ELSE DecodeQuartet /\ UNCHANGED <<pc, job, count>>

-----------------------------------------------------------------------------
(* qp_decode                                                               *)

HexToBin(b) == CASE b \in 48 .. 57 -> b - 48
                 [] b \in 65 .. 70 -> b - 55
                 [] b \in 97 .. 102 -> b - 87
                 [] OTHER -> -1

\* qp_eol_check behind the "=" that is next
EolCheck == IF s + 2 <= Len(text) /\ At(2) = LF THEN 1
            ELSE IF s + 3 <= Len(text) /\ At(2) = CR /\ At(3) = LF THEN 2 ELSE 0

IsEscape == /\ At(1) = Equals /\ s + 3 <= Len(text)
            /\ HexToBin(At(2)) >= 0 /\ HexToBin(At(3)) >= 0

\* A continuation, an encoded character, or a character.
StepQuoted ==
    IF At(1) = Equals /\ job.coding = "rfc2045" /\ EolCheck > 0
    THEN s' = s + 1 + EolCheck /\ UNCHANGED <<text, d>>
    ELSE IF IsEscape THEN Write(<<HexToBin(At(2)) * 16 + HexToBin(At(3))>>) /\ s' = s + 3
    ELSE /\ Write(<<IF At(1) = 95 /\ job.coding = "rfc2047" THEN SP ELSE At(1)>>)
         /\ s' = s + 1

QuotedStep ==
    /\ pc = "qp"
    /\ IF s = Len(text) THEN Return(d) /\ UNCHANGED <<text, d>>
       ELSE StepQuoted /\ UNCHANGED <<pc, job, size, count>>

-----------------------------------------------------------------------------
(* uudecode                                                                *)

UUDigit(b) == (b - SP) % 64
UUNumber == ((UUDigit(At(1)) * 64 + UUDigit(At(2))) * 64 + UUDigit(At(3))) * 64 + UUDigit(At(4))

\* The quartets in front of the line end, then the line end as it is; the count
\* at the front of the line is not used.
UUStep ==
    /\ pc = "uu"
    /\ IF s < Len(text) - 4
       THEN Write(OctetsOf(UUNumber)) /\ s' = s + 4 /\ UNCHANGED <<pc, job, size, count>>
       ELSE IF s < Len(text)
       THEN Write(<<At(1)>>) /\ s' = s + 1 /\ UNCHANGED <<pc, job, size, count>>
       ELSE Return(d) /\ UNCHANGED <<text, d>>

Next == Start \/ Base64Step \/ QuotedStep \/ UUStep

Spec == Init /\ [][Next]_vars

-----------------------------------------------------------------------------
(* Properties                                                              *)

TypeOK == /\ pc \in {"start", "base64", "qp", "uu", "done"} /\ job \in Jobs
          /\ text \in Seq(0 .. 255) /\ s \in Nat /\ d \in Nat /\ size \in Int /\ count \in Nat

\* What a decoder writes never reaches a byte that it has not read yet: the
\* decoders overwrite the line they read.
UnreadKept ==
    pc # "done" => /\ d <= s
                   /\ SubSeq(text, s + 1, Len(text)) = SubSeq(job.line, s + 1, Len(text))

\* A decoded line is the text that was encoded, for every way a line can end.
\* What uudecode leaves behind the text are the octets that fill a triple and
\* the line end.  It fails for a line that encodes nothing, as a continuation that
\* stands alone does, which get_decoded_line leaves encoded because nothing was
\* decoded (lexer.c:219; MoreTexts = {<<>>}), and for 37 octets whose encoding begins with ND: with its
\* count, "E", the line is taken for the end line (uudecode.c:31).
LineDecoded ==
    pc = "done" =>
        IF job.coding = "uuencode"
        THEN SubSeq(text, 1, Len(job.plain)) = job.plain /\ count >= Len(job.plain)
        ELSE SubSeq(text, 1, count) = job.plain
=============================================================================
