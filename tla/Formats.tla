------------------------------- MODULE Formats -------------------------------
(***************************************************************************)
(* What the library promises of the formats it reads and writes, of an     *)
(* input of any kind: key files, the values that make one, the chunks of   *)
(* two answers, the parameters of a query.                                 *)
(***************************************************************************)
EXTENDS KVEntries, HttpBody, UrlQuery

CONSTANTS
    Names,          \* names that sb_get_var is asked for
    BufLens         \* lengths of the buffer it fills

ASSUME NamesAssumption   == Names \subseteq Seq(NameChars)
ASSUME BufLensAssumption == BufLens \subseteq Nat \ {0}

VARIABLES
    kind,           \* what the input is
    input           \* its pieces

\* What put_value and set_value wrote is what get_values delivers: all values,
\* in order, or the first ones when the callback stops.
RoundTrip == kind = "values" => ReadsBack(input)

\* A file that get_values accepts is exactly the encoding of what it delivers,
\* whoever wrote it, and its last value is never empty.
AcceptedIsCanonical == kind = "file" => Canonical(input)

\* The body of an answer is the whole of its chunks and lies within the memory
\* allocated for it, although sizes wrap around and another answer, whose body
\* was moved away or not, came before; a request is given up only when its size
\* comes near the largest size_t (http_response_body_write_callback).
BodyFits ==
    kind = "bodies" =>
        \A n \in 0..Len(input) :
          HoldsAgain(SubSeq(input, 1, n), SubSeq(input, n + 1, Len(input)))

\* What a browser escaped is what sb_get_var returns: the text of the first
\* parameter with this very name, or its beginning, and then it says so
\* (find_var_value and url_decode).
QueryRoundTrip ==
    kind = "query" => \A len \in BufLens, name \in Names : ReadsQuery(input, name, len)
=============================================================================
