------------------------------ MODULE UrlQuery ------------------------------
(***************************************************************************)
(* Parameters of a query: find_var_value, url_decode and what sb_get_var   *)
(* makes of a query with them (src/src/sandbird/sandbird.c).  Characters   *)
(* are their codes.                                                        *)
(***************************************************************************)
EXTENDS Naturals, Sequences

Percent == 37
Amp     == 38
Plus    == 43
Equals  == 61
Space   == 32

Blanks  == {Space, 9, 10, 13}
Stops   == Blanks \cup {Amp, 63}    \* what ends a value, "?" too

\* hex_to_int of a hexadecimal digit
HexToInt(c) == IF c \in 48..57 THEN c - 48
               ELSE IF c \in 65..70 THEN c - 55 ELSE c - 87

\* Mutated form: the digits are swapped.
LowFirst(high, low) == HexToInt(low) * 16 + HexToInt(high)

Byte(high, low) == HexToInt(high) * 16 + HexToInt(low)

\* One turn of url_decode at place p: what ends it, the character it writes and
\* where it goes on.
Ends(str, p)    == p > Len(str) \/ str[p] \in Stops
Escaped(str, p) == str[p] = Percent /\ p + 2 <= Len(str)
CharAt(str, p)  == IF Escaped(str, p) THEN Byte(str[p + 1], str[p + 2])
                   ELSE IF str[p] = Plus THEN Space ELSE str[p]
After(str, p)   == IF Escaped(str, p) THEN p + 3 ELSE p + 1

\* The texts that it writes from each place with room for all.
DecodeFrom(str) ==
    LET from[p \in 1..Len(str) + 1] ==
            IF Ends(str, p) THEN <<>>
            ELSE <<CharAt(str, p)>> \o from[After(str, p)]
    IN  from

\* url_decode from place p of str into len bytes, one of them for the 0 behind
\* the text: a text that needs all of them counts as truncated.
UrlDecode(str, p, len) ==
    LET all == DecodeFrom(str)[p] IN
    IF Len(all) < len - 1 THEN [text |-> all, truncated |-> FALSE]
    ELSE [text |-> SubSeq(all, 1, len - 1), truncated |-> TRUE]

NotFound == 0

\* name, followed by "="
Named(str, p, name) ==
    /\ p + Len(name) <= Len(str)
    /\ SubSeq(str, p, p + Len(name) - 1) = name
    /\ str[p + Len(name)] = Equals

\* Mutated form: every place may begin a parameter.
NextPlace(str, p) == IF p >= Len(str) THEN NotFound ELSE p + 1

\* The place behind the next "&", if one comes before a blank.
NextParameter(str, p) ==
    LET stops == {q \in p..Len(str) : str[q] \in Blanks \cup {Amp}} IN
    IF stops = {} THEN NotFound
    ELSE LET q == CHOOSE q \in stops : \A r \in stops : q <= r IN
         IF str[q] = Amp THEN q + 1 ELSE NotFound

\* find_var_value: the place of the value, from each place where it may search.
FindFrom(str, name) ==
    LET from[p \in 0..Len(str) + 1] ==
            IF p = NotFound THEN NotFound
            ELSE IF Named(str, p, name) THEN p + Len(name) + 1
            ELSE from[NextParameter(str, p)]
    IN  from

FindVar(str, name) == FindFrom(str, name)[1]

\* sb_get_var on a query.
GetVar(str, name, len) ==
    LET p == FindVar(str, name) IN
    IF p = NotFound THEN [found |-> FALSE, text |-> <<>>, truncated |-> FALSE]
    ELSE LET value == UrlDecode(str, p, len) IN
         [found |-> TRUE, text |-> value.text, truncated |-> value.truncated]

-----------------------------------------------------------------------------
(* What sb_get_var promises of the query that a browser sends.             *)

\* The characters of a request, those that a name is made of, and parameters.
Chars     == 1..255
NameChars == Chars \ (Blanks \cup {Amp, Equals})
Params    == [name : Seq(NameChars), text : Seq(Chars)]

HexDigit(n) == IF n < 10 THEN 48 + n ELSE 87 + n

\* Any character may be escaped; letters are not.
Escape(c) == IF c \in 97..122 THEN <<c>>
             ELSE <<Percent, HexDigit(c \div 16), HexDigit(c % 16)>>
EscapeAll(text) ==
    LET upto[n \in 0..Len(text)] ==
            IF n = 0 THEN <<>> ELSE upto[n - 1] \o Escape(text[n])
    IN  upto[Len(text)]

\* The parameters with "&" between them, and what follows in the request.
Parameter(param) == param.name \o <<Equals>> \o EscapeAll(param.text)
Query(params) ==
    LET upto[n \in 0..Len(params)] ==
            IF n = 0 THEN <<>>
            ELSE upto[n - 1] \o ((IF n > 1 THEN <<Amp>> ELSE <<>>) \o Parameter(params[n]))
    IN  upto[Len(params)] \o <<Space, 97>>

\* A buffer of len bytes gets the text of the first parameter with this very name,
\* or its beginning, and then it is said.
ReadsQuery(params, name, len) ==
    LET named == {i \in 1..Len(params) : params[i].name = name}
        got   == GetVar(Query(params), name, len)
    IN  IF named = {} THEN ~got.found
        ELSE LET text == params[CHOOSE i \in named : \A j \in named : i <= j].text IN
             /\ got.found
             /\ got.truncated <=> Len(text) >= len - 1
             /\ got.text = IF got.truncated THEN SubSeq(text, 1, len - 1) ELSE text
=============================================================================
