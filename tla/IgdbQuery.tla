------------------------------ MODULE IgdbQuery ------------------------------
(***************************************************************************)
(* What SearchGames asks IGDB for: the handler's checks, and the term that *)
(* is quoted into the text of the query.  Text is a sequence of the kinds  *)
(* of character that are treated differently; of the query only the term   *)
(* is text here, because only there does what a client typed meet syntax.  *)
(***************************************************************************)
EXTENDS Integers, Sequences, SequencesExt

CONSTANTS
    SearchMinRunes, SearchMaxRunes, SearchDefaultLimit, SearchMaxLimit,
    MaxTerm,    \* bound on the length of the terms the properties try
    NoLimit,    \* ?limit= is absent
    NotANumber  \* it is not an integer

ASSUME QueryAssumption ==
    /\ {SearchMinRunes, SearchMaxRunes, SearchMaxLimit, MaxTerm} \subseteq Nat
    /\ 0 < SearchMinRunes /\ SearchMinRunes <= SearchMaxRunes
    /\ SearchDefaultLimit \in 1 .. SearchMaxLimit
    /\ NoLimit \notin Int /\ NotANumber \notin Int

Char == {"letter", "quote", "backslash", "space", "newline", "control"}

-----------------------------------------------------------------------------
(* The term.                                                               *)

\* What the term is to IGDB: line breaks and tabs separate words, other
\* control characters have no business in it.
Meant(char) == CASE char = "newline" -> <<"space">>
                 [] char = "control" -> <<>>
                 [] OTHER -> <<char>>

\* Mutant of EscapeChar: backslashes are left as they are.
EscapeQuoteOnly(char) == IF char = "quote" THEN <<"backslash", char>> ELSE Meant(char)

EscapeChar(char) ==
    IF char \in {"quote", "backslash"} THEN <<"backslash", char>> ELSE Meant(char)

EachChar(Op(_), term) == FlattenSeq([i \in DOMAIN term |-> Op(term[i])])

EscapeSearchTerm(term) == EachChar(EscapeChar, term)

\* External: how a string literal of Apicalypse is read, from its opening
\* quote on.  A backslash takes the next character with it.
Escapes(text) ==
    LET escapes[i \in 0 .. Len(text)] ==
            IF i = 0 THEN FALSE ELSE text[i] = "backslash" /\ ~escapes[i - 1]
    IN  escapes

\* External: the quotes that may close the literal.
Closing(text) == {i \in DOMAIN text : text[i] = "quote" /\ ~Escapes(text)[i - 1]}

\* External: what the literal that ends at i says.
Value(text, i) ==
    EachChar(LAMBDA k : IF Escapes(text)[k] THEN <<>> ELSE <<text[k]>>,
             [k \in 1 .. i - 1 |-> k])

-----------------------------------------------------------------------------
(* GET /games/search.                                                      *)

\* strings.TrimSpace.
IsSpace(char) == char \in {"space", "newline"}
TrimSpace(q) ==
    LET kept == {i \in DOMAIN q : ~IsSpace(q[i])} IN
    IF kept = {} THEN <<>>
    ELSE SubSeq(q, CHOOSE i \in kept : \A j \in kept : i <= j,
                   CHOOSE i \in kept : \A j \in kept : j <= i)

\* Limit of a request whose limit is absent or positive.
Limit(raw) ==
    IF raw = NoLimit THEN SearchDefaultLimit
    ELSE IF raw > SearchMaxLimit THEN SearchMaxLimit ELSE raw

\* The answer 400.
BadRequest == [text |-> <<>>, limit |-> 0]

\* Search: `search "<term>"; ... limit n;`, from the opening quote on.
Search(term, limit) ==
    [text |-> EscapeSearchTerm(term) \o <<"quote">>, limit |-> limit]

\* The query a request comes to.
SearchGames(q, raw) ==
    IF \/ Len(TrimSpace(q)) \notin SearchMinRunes .. SearchMaxRunes
       \/ raw = NotANumber
       \/ raw # NoLimit /\ raw < 1
    THEN BadRequest
    ELSE Search(TrimSpace(q), Limit(raw))

-----------------------------------------------------------------------------
(* What TermStaysInItsLiteral says of every request.                       *)

Terms == UNION {[1 .. n -> Char] : n \in 0 .. MaxTerm}

Limits == {NoLimit, NotANumber} \cup 0 .. SearchMaxLimit + 1

\* The literal has one closing quote, the last character, and reads as the term
\* that was typed; what is asked for is bounded.
EveryTermIsQuoted ==
    \A q \in Terms, raw \in Limits :
        LET query == SearchGames(q, raw) IN
        query # BadRequest =>
            /\ Closing(query.text) = {Len(query.text)}
            /\ Value(query.text, Len(query.text)) = EachChar(Meant, TrimSpace(q))
            /\ query.limit \in 1 .. SearchMaxLimit
=============================================================================
