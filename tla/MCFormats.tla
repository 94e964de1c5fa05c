----------------------------- MODULE MCFormats ------------------------------
(* The formats the library reads and writes, on every input up to a bound, *)
(* which grows piece by piece.                                             *)
EXTENDS Formats

CONSTANTS
    Bytes,          \* the bytes a key file is built from
    ChunkLens,      \* the lengths of the chunks of a body
    MaxPieces       \* bound: the pieces of each kind of input

\* hive_put_value and hive_set_value accept 1..MaxValueLen bytes.
Values == UNION {[1..n -> Bytes] : n \in 1..MaxValueLen}

\* "c" and "xc"; texts with characters that a browser escapes.
ShortNames == {<<99>>, <<120, 99>>}
Texts == UNION {[1..n -> {Amp, Percent, Space, 97}] : n \in 0..2}

\* A key file byte by byte, the values of a key, the chunks of two answers, the
\* parameters of a query.
Pieces == [file   |-> Bytes,
           values |-> Values,
           bodies |-> ChunkLens,
           query  |-> [name : ShortNames, text : Texts]]

Init == kind \in DOMAIN Pieces /\ input = <<>>

Add ==
    /\ Len(input) < MaxPieces[kind]
    /\ \E piece \in Pieces[kind] : input' = Append(input, piece)
    /\ UNCHANGED kind

Spec == Init /\ [][Add]_<<kind, input>>

Bounds == [file |-> 10, values |-> 3, bodies |-> 5, query |-> 3]
=============================================================================
