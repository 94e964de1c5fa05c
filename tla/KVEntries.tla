----------------------------- MODULE KVEntries ------------------------------
(***************************************************************************)
(* The bytes of a key file (src/src/vendors/onedrive/onedrive.c): a        *)
(* sequence of entries, each a value length of four bytes in network order *)
(* and the bytes of the value.                                             *)
(***************************************************************************)
EXTENDS Naturals, Sequences

CONSTANT MaxValueLen        \* HIVE_MAX_VALUE_LEN

ASSUME MaxValueLenAssumption == MaxValueLen \in 1..32768

HeaderLen == 4              \* sizeof(KVEntry)

Byte2 == 256 * 256
Byte3 == 256 * 256 * 256

\* Mutated form: the length is stored in host order.
HostOrder(n) ==
    <<n % 256, (n \div 256) % 256, (n \div Byte2) % 256, (n \div Byte3) % 256>>

\* htonl
NetworkOrder(n) ==
    <<(n \div Byte3) % 256, (n \div Byte2) % 256, (n \div 256) % 256, n % 256>>

\* The entry that put_value appends and set_value stores.
Entry(v) == NetworkOrder(Len(v)) \o v

\* The file that holds these values.
Encode(vals) ==
    LET upto[n \in 0..Len(vals)] ==
            IF n = 0 THEN <<>> ELSE upto[n - 1] \o Entry(vals[n])
    IN  upto[Len(vals)]

\* ntohl of the header at offset p
ValLen(buf, p) ==
    Byte3 * buf[p + 1] + Byte2 * buf[p + 2] + 256 * buf[p + 3] + buf[p + 4]

\* Mutated form: what is left may be as long as a bare header.
RestFitsHeader(rest) == rest = 0 \/ rest >= HeaderLen

\* Nothing is left, or more than a bare header.
RestFits(rest) == rest = 0 \/ rest > HeaderLen

\* The end and the value of the entry at offset p, and what is wrong with it.
EndOf(buf, p)   == p + HeaderLen + ValLen(buf, p)
ValueAt(buf, p) == SubSeq(buf, p + HeaderLen + 1, EndOf(buf, p))
Malformed(buf, p) ==
    \/ ValLen(buf, p) > MaxValueLen
    \/ EndOf(buf, p) > Len(buf)
    \/ ~RestFits(Len(buf) - EndOf(buf, p))

\* The loop of get_values from each offset where a header fits, with a callback
\* that never stops: the values delivered, and whether
\* HIVEERR_BAD_PERSISTENT_DATA ends it.
EntriesFrom(buf) ==
    LET from[p \in 0..Len(buf) - HeaderLen] ==
            IF Malformed(buf, p) THEN [vals |-> <<>>, bad |-> TRUE]
            ELSE IF EndOf(buf, p) = Len(buf)
                 THEN [vals |-> <<ValueAt(buf, p)>>, bad |-> FALSE]
                 ELSE LET rest == from[EndOf(buf, p)] IN
                      [vals |-> <<ValueAt(buf, p)>> \o rest.vals, bad |-> rest.bad]
    IN  from

DeliverAll(buf) ==
    IF buf = <<>> THEN [vals |-> <<>>, bad |-> FALSE]
    ELSE IF Len(buf) <= HeaderLen THEN [vals |-> <<>>, bad |-> TRUE]
         ELSE EntriesFrom(buf)[0]

\* The same with a callback that returns false at its limit-th value: what comes
\* behind it is not looked at.
Deliver(buf, limit) ==
    LET all == DeliverAll(buf) IN
    IF Len(all.vals) >= limit THEN [vals |-> SubSeq(all.vals, 1, limit), bad |-> FALSE]
    ELSE all

Readable(buf)   == ~DeliverAll(buf).bad
ValuesIn(buf)   == DeliverAll(buf).vals

-----------------------------------------------------------------------------
(* What the format promises.                                               *)

\* These values, written one after the other, are what get_values delivers: all
\* of them, in order, or the first ones when the callback stops.
ReadsBack(vals) ==
    /\ DeliverAll(Encode(vals)) = [vals |-> vals, bad |-> FALSE]
    /\ \A n \in 1..Len(vals) :
         Deliver(Encode(vals), n) = [vals |-> SubSeq(vals, 1, n), bad |-> FALSE]

\* If get_values accepts this content, it is exactly the encoding of what it
\* delivers, and the last value is not empty.
Canonical(buf) ==
    Readable(buf) =>
        LET vals == ValuesIn(buf) IN
        /\ Encode(vals) = buf
        /\ buf # <<>> => vals[Len(vals)] # <<>>
=============================================================================
