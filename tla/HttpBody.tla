------------------------------ MODULE HttpBody ------------------------------
(***************************************************************************)
(* The buffer that collects the body of an answer                          *)
(* (src/src/http/http_client.c): libcurl hands it over in chunks, and the  *)
(* client is used again after http_client_reset.  A size_t is a number     *)
(* modulo Word.  The bytes are left out; where they land and how much      *)
(* memory there is are kept.                                               *)
(***************************************************************************)
EXTENDS Naturals, Sequences

CONSTANTS
    Word,           \* the values of a size_t: a power of two
    FirstSize       \* the first size of the buffer, 512

ASSUME WordAssumption == /\ Word \in Nat \ {0}
                         /\ FirstSize \in 1..Word - 1

\* http_client_new
NoBody == [used |-> 0, sz |-> 0, failed |-> FALSE]

\* http_client_reset keeps the memory.
Reset(body) == [used |-> 0, sz |-> body.sz, failed |-> FALSE]

\* http_client_move_response_body takes the memory away, unless it holds nothing.
Move(body) == IF body.used = 0 THEN body ELSE NoBody

\* Mutated form: one doubling is enough.
DoubledOnce(sz, length) == IF sz = 0 THEN FirstSize ELSE (2 * sz) % Word

\* Doubled until it is more than the old size and the chunk together; where that
\* wraps around, just those.
Grown(sz, length) ==
    LET settle[last \in 0..Word - 1] ==
            LET new == IF last = 0 THEN FirstSize ELSE (2 * last) % Word IN
            IF new <= last THEN sz + length
            ELSE IF new <= sz + length THEN settle[new] ELSE new
    IN  settle[sz]

\* http_response_body_write_callback: libcurl gives up when it returns 0.
Write(body, length) ==
    LET stored(sz) == [used |-> body.used + length, sz |-> sz, failed |-> FALSE]
    IN  IF body.failed THEN body
        ELSE IF body.sz - body.used >= length THEN stored(body.sz)
        ELSE IF (body.sz + length) % Word < body.sz
             THEN [used |-> 0, sz |-> body.sz, failed |-> TRUE]
             ELSE stored(Grown(body.sz, length))

\* The body after these chunks.
Received(body, chunks) ==
    LET upto[n \in 0..Len(chunks)] ==
            IF n = 0 THEN body ELSE Write(upto[n - 1], chunks[n])
    IN  upto[Len(chunks)]

-----------------------------------------------------------------------------
(* What the buffer promises.                                               *)

Total(chunks) ==
    LET upto[n \in 0..Len(chunks)] ==
            IF n = 0 THEN 0 ELSE upto[n - 1] + chunks[n]
    IN  upto[Len(chunks)]

\* An answer of these chunks, which begins with this body, is whole and lies
\* within the memory allocated for it, or the request is given up, and that only
\* if the answer fills half of what a size_t can count.
Holds(start, chunks) ==
    LET body == Received(start, chunks) IN
    /\ body.used <= body.sz /\ body.sz < Word
    /\ ~body.failed => body.used = Total(chunks)
    /\ Total(chunks) < Word \div 2 => ~body.failed

\* Also when another answer came before, whose body was moved away or not.
HoldsAgain(before, chunks) ==
    LET last == Received(NoBody, before) IN
    Holds(Reset(last), chunks) /\ Holds(Reset(Move(last)), chunks)
=============================================================================
