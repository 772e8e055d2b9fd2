----------------------------- MODULE TokenStream -----------------------------
(***************************************************************************)
(* get_token (token.c): every token the lexer finds goes into a ring, and  *)
(* between two of them the combinations that end with the newest are       *)
(* given out, the pair first.  A tag of the header line is put in front.   *)
(* With block_on_subnets an address comes again without its last octet.    *)
(*                                                                         *)
(* The ring, the count and the tag are static: a new message clears them   *)
(* only as far as set_tag does.                                            *)
(***************************************************************************)
EXTENDS Naturals, Sequences, FiniteSets

CONSTANTS
    Options,        \* option combinations
    Tags,           \* what set_tag puts in front; "head" and "mime" are
                    \* among them
    MaxTokens,      \* bound on the tokens of a message
    MaxRuns,        \* bound on the lines of a message, those of a tag together
    MaxMessages,    \* bound on the messages
    Octets,         \* octets of an address (4 in the code)
    Kinds,          \* of what is kept of a message for its log line: "id",
                    \* "queue", "addr"
    None

TokenStreamAssumption ==
    /\ {MaxTokens, MaxRuns, MaxMessages} \subseteq Nat /\ Octets \in Nat \ {0}
    /\ {"head", "mime"} \subseteq Tags /\ None \notin Tags /\ None # "address"
    /\ Options \subseteq [multi_token_count : Nat \ {0}, markup : BOOLEAN,
                          subnets : BOOLEAN]

VARIABLES
    opt,
    header,         \* the lexer is in a header
    parent,         \* the type of msg_state->parent
    attached,       \* there has been an attached message
    pc,             \* in get_token's caller, in parse_new_token, or at the end
    tok_count, init_token,
    ring,           \* w_token_array
    token_prefix,
    save_class,     \* IPADDR is kept
    ipsave,         \* octets left of the address kept
    saved,          \* the message that msg_id, queue_id and msg_addr are of; 0
                    \* when they are empty
    place           \* history: the message, the run of tokens and the token

statics == <<tok_count, init_token, ring, token_prefix, save_class, ipsave, saved>>
mime == <<parent, attached>>
vars == <<opt, header, mime, pc, statics, place>>

\* A token, named by where it is; the end of a message is one too.
NoToken == [msg |-> 0, run |-> 0, tok |-> 0]
Wrap(n) == n % opt.multi_token_count
Beginning(msg) == [msg |-> msg, run |-> 1, tok |-> 0]

Init == /\ opt \in Options
        /\ pc = "lexer_init" /\ header = TRUE /\ parent = "none" /\ attached = FALSE
        /\ tok_count = 0 /\ init_token = 1
        /\ ring = [i \in 0 .. opt.multi_token_count - 1 |-> NoToken]
        /\ token_prefix = None /\ save_class = None /\ ipsave = 0
        /\ saved = [k \in Kinds |-> 0]
        /\ place = Beginning(1)

-----------------------------------------------------------------------------
(* set_tag, clr_tag                                                        *)

NextRun == place' = [place EXCEPT !.run = @ + 1]

\* Mutant: the tokens stay when the tag is taken away.
ClrTagKeeping == /\ token_prefix' = None /\ tok_count' = tok_count

ClrTag == /\ token_prefix' = None /\ tok_count' = 0

\* clr_tag and, for a header, yy_set_state_initial in an entity with parent par.
Retagged(initial, par) ==
    /\ tok_count' = 0
    /\ token_prefix' = IF ~initial \/ ~opt.markup \/ par = "message" THEN None
                       ELSE IF par = "none" THEN "head" ELSE "mime"

\* The header of a part has its own tag, and a part of an attached message has
\* none.  The tokens go when one tag follows another, not when the first comes.
SetTag(tag) ==
    IF ~opt.markup THEN UNCHANGED <<token_prefix, tok_count>>
    ELSE IF parent' = "message" THEN ClrTag
    ELSE /\ token_prefix' = IF tag = "head" /\ parent' # "none" THEN "mime" ELSE tag
         /\ tok_count' = IF token_prefix \notin {None, token_prefix'} THEN 0 ELSE tok_count

token_clear == saved' = [k \in Kinds |-> 0]

\* The first time everything is allocated, and empty as well.
token_init == token_clear

\* lexer_init of collect_words: mime_reset, token_init, and yy_set_state_initial sets the tag
\* of a header.
LexerInit == /\ pc = "lexer_init"
             /\ parent' = "none" /\ attached' = FALSE
             /\ token_init
             /\ SetTag("head")
             /\ pc' = "call" /\ header' = TRUE
             /\ UNCHANGED <<opt, init_token, ring, save_class, ipsave, place>>

InALine == pc = "parse" /\ save_class = None /\ place.run < MaxRuns

\* The lexer sees the name of a header: To, From, Subject ...
HeaderLine(tag) ==
    /\ InALine /\ header
    /\ UNCHANGED mime
    /\ SetTag(tag)
    /\ IF token_prefix' # token_prefix \/ (opt.markup /\ token_prefix' = None)
       THEN NextRun ELSE UNCHANGED place
    /\ UNCHANGED <<opt, header, pc, init_token, ring, save_class, ipsave, saved>>

\* The empty line.  The header of an attached message follows that of its part;
\* its entity is pushed when its tag has been set.
EndOfHeader ==
    /\ InALine /\ header
    /\ \E message \in BOOLEAN :
        /\ Retagged(message, parent)
        /\ header' = message
        /\ IF message THEN parent' = "message" /\ attached' = TRUE ELSE UNCHANGED mime
    /\ NextRun
    /\ UNCHANGED <<opt, pc, init_token, ring, save_class, ipsave, saved>>

EndOfLine == /\ InALine /\ ~header
             /\ ClrTag /\ NextRun
             /\ UNCHANGED <<opt, header, mime, pc, init_token, ring, save_class, ipsave, saved>>

\* A boundary, a line of the body, begins the header of the next part, in the
\* part it is in itself or in one further out.
NextPart == /\ InALine /\ ~header
            /\ parent' \in {"none", "multipart"} \cup (IF attached THEN {"message"} ELSE {})
            /\ UNCHANGED attached
            /\ Retagged(TRUE, parent')
            /\ NextRun
            /\ header' = TRUE
            /\ UNCHANGED <<opt, pc, init_token, ring, save_class, ipsave, saved>>

-----------------------------------------------------------------------------
(* get_token                                                               *)

\* fSingle
IsSingle == \/ tok_count < 2 \/ tok_count <= init_token
            \/ opt.multi_token_count <= init_token

AddToArray(t) ==
    IF opt.multi_token_count > 1
       THEN /\ ring' = [ring EXCEPT ![Wrap(tok_count)] = t]
            /\ tok_count' = tok_count + 1 /\ init_token' = 1
       ELSE UNCHANGED <<ring, tok_count, init_token>>

Call == /\ pc = "call" /\ IsSingle
        /\ pc' = "parse"
        /\ UNCHANGED <<opt, header, mime, statics, place>>

BuildToken == /\ pc = "call" /\ ~IsSingle
              /\ init_token' = init_token + 1
              /\ UNCHANGED <<opt, header, mime, pc, tok_count, ring, token_prefix,
                             save_class, ipsave, saved, place>>

\* What build_token_from_array has joined: the last tokens, oldest first.
Combined == [i \in 1 .. init_token |-> ring[Wrap(tok_count - 1 - (init_token - i))]]

\* An address gets its own tag, and so does all that is given before the next
\* token is parsed.
Prefix == IF token_prefix = None THEN None
          ELSE IF save_class = "address" THEN "ip" ELSE token_prefix

\* The address kept by block_on_subnets, without its last octet.
NextSubnet == /\ pc = "parse" /\ save_class = "address" /\ ipsave > 1
              /\ ipsave' = ipsave - 1
              /\ AddToArray(place)
              /\ pc' = "call"
              /\ UNCHANGED <<opt, header, mime, token_prefix, save_class, saved, place>>

NoMoreSubnets == /\ pc = "parse" /\ save_class = "address" /\ ipsave = 1
                 /\ save_class' = None
                 /\ UNCHANGED <<opt, header, mime, pc, tok_count, init_token, ring,
                                token_prefix, ipsave, saved, place>>

\* A token of the lexer.  One that its tag makes too long is in the ring too;
\* it is not given, and get_token goes on to the combinations.
KeepAddress(c) ==
    IF c = "address" /\ opt.subnets
    THEN save_class' = "address" /\ ipsave' = Octets
    ELSE UNCHANGED <<save_class, ipsave>>

NewToken(c) ==
    /\ pc = "parse" /\ save_class = None /\ place.tok < MaxTokens
    /\ place' = [place EXCEPT !.tok = @ + 1]
    /\ KeepAddress(c)
    /\ AddToArray(place')
    /\ pc' = "call"
    /\ UNCHANGED <<opt, header, mime, token_prefix, saved>>

\* What is kept of a message and is no token itself: its id; the first queue id;
\* the first address of a Received line of the message itself.  (They come before
\* its first token here.)
SaveId(k) ==
    /\ InALine /\ header /\ place.tok = 0
    /\ k # "id" => saved[k] = 0
    /\ k = "addr" => token_prefix = "rcvd" /\ parent = "none"
    /\ saved' = [saved EXCEPT ![k] = place.msg]
    /\ UNCHANGED <<opt, header, mime, pc, tok_count, init_token, ring, token_prefix,
                   save_class, ipsave, place>>

\* The first line of a message count file: its tokens are no mail's, and come
\* without tags and combinations.  Nothing sets the options back.
MsgCountLine ==
    /\ pc = "parse" /\ place = Beginning(place.msg) /\ save_class = None
    /\ opt' = [opt EXCEPT !.multi_token_count = 1, !.markup = FALSE]
    /\ token_prefix' = None
    /\ pc' = "counts"
    /\ UNCHANGED <<header, mime, tok_count, init_token, ring, save_class, ipsave, saved, place>>

\* NONE, with its empty token, which goes into the ring.
EndOfMessage ==
    /\ pc \in {"parse", "counts"} /\ save_class = None
    /\ AddToArray(NoToken)
    /\ IF place.msg < MaxMessages
          THEN pc' = "lexer_init" /\ place' = Beginning(place.msg + 1)
          ELSE pc' = "end" /\ UNCHANGED place
    /\ UNCHANGED <<opt, header, mime, token_prefix, save_class, ipsave, saved>>

Next == \/ LexerInit \/ Call \/ BuildToken \/ NextSubnet \/ NoMoreSubnets
        \/ EndOfHeader \/ EndOfLine \/ NextPart \/ EndOfMessage
        \/ \E tag \in Tags \ {"mime"} : HeaderLine(tag)
        \/ \E c \in {"word", "address"} : NewToken(c)
        \/ \E k \in Kinds : SaveId(k)
        \/ MsgCountLine

Spec == Init /\ [][Next]_vars

-----------------------------------------------------------------------------
(* Properties                                                              *)

\* Every variable keeps its type.
TypeOK == /\ header \in BOOLEAN
          /\ attached \in BOOLEAN /\ parent \in {"none", "multipart", "message"}
          /\ pc \in {"lexer_init", "call", "parse", "counts", "end"}
          /\ tok_count \in Nat /\ init_token \in Nat \ {0}
          /\ opt.multi_token_count \in 1 .. Cardinality(DOMAIN ring)
          /\ token_prefix \in Tags \cup {None}
          /\ save_class \in {None, "address"} /\ ipsave \in 0 .. Octets
          /\ saved \in [Kinds -> 0 .. MaxMessages]

\* The tokens that make up what get_token has given last, while it is used.
Given == IF pc = "call" /\ tok_count >= init_token /\ opt.multi_token_count > 1
            THEN Combined ELSE <<>>
Own == {i \in DOMAIN Given : Given[i].msg = place.msg}

\* What is given is made of tokens that followed each other in one run, a line
\* of the body or the headers of one tag, and ends with the newest one; what an
\* earlier message left can only stand before them (fSingle, WRAP, clr_tag,
\* set_tag).
CombinesARun ==
    Own # {} =>
        /\ Given[Len(Given)] = place
        /\ \A i, j \in Own : i < j => /\ Given[i].run = Given[j].run
                                     /\ Given[i].tok <= Given[j].tok
                                     /\ Given[j].tok - Given[i].tok <= j - i
        /\ \A i \in DOMAIN Given \ Own, j \in Own : i < j

\* The id, the queue id and the address that are logged with a message are its own
\* (token_init, token_clear).
SavedIsOwn ==
    pc \in {"call", "parse"} => \A k \in Kinds : saved[k] \in {0, place.msg}

\* Does not hold: after a message count file the mails that bogotune reads have no
\* tags and no combinations either (line 414).
OptionsKept == [][opt' = opt]_vars

\* Does not hold: a message is combined with the empty token that ended the one
\* before, and with the last line of that one when it had no newline.
MessagesApart == \A i \in DOMAIN Given : Given[i].msg = place.msg

\* Does not hold: what is combined with an address is tagged as an address.
OnlyAddressesAreTaggedSo == Len(Given) > 1 => Prefix # "ip"

\* Does not hold: "don't tag if inside message/rfc822" (line 615), but the entity of
\* an attached message is pushed after the tag of its header has been set
\* (line 228), which then stays until a token begins a line.
NoTagInAttached == pc = "parse" /\ parent = "message" => token_prefix = None
=============================================================================
