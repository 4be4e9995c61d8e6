------------------------------- MODULE Protocol -------------------------------
(***************************************************************************)
(* The astrologer's protocol (generic.h, generic.c), shared by the server, *)
(* the proxy and the specification of the service.  A stream is a sequence *)
(* of words; a word stands for the characters of a request type, of a sign *)
(* or of some other text, and occupies one cell of a buffer.  What is kept *)
(* of the characters is where a stream can be cut, how much of it fits in  *)
(* a buffer, and what a comparison with a request type or a sign yields.   *)
(***************************************************************************)
EXTENDS Integers, Sequences

CONSTANT Zodiac   \* zodiac_names: the signs that are known

DELIMITER == "NL"
STAR_REQUEST_TYPE == "STARS SAY"
CLIENT_REQUEST_TYPE == "HOROSCOPE"
STAR_REPLY_SUCCESS == <<"THANKS!", DELIMITER>>
STAR_REPLY_FAILURE == <<"DENIED!", DELIMITER>>
CLIENT_REPLY_FAILURE == <<"OUT OF LUCK!", DELIMITER>>

MIN(a, b) == IF a > b THEN b ELSE a

First(s, n) == SubSeq(s, 1, n)

After(s, n) == SubSeq(s, n + 1, Len(s))

\* n is the length of the first line of s, its delimiter included.
IsLine(s, n) ==
    /\ n \in 1 .. Len(s)
    /\ s[n] = DELIMITER
    /\ \A i \in 1 .. n - 1 : s[i] # DELIMITER

\* memcmp with a request type, the length test before it included.
HasType(type, line) == Len(line) > 1 /\ line[1] = type

\* find_zodiac on what follows the type: the line begins with a known sign;
\* padding may follow it.
find_zodiac(line) == Len(line) > 2 /\ line[2] \in Zodiac

LineWithRest(buf, chunk, n) ==
    IF \E i \in 1 .. Len(chunk) : chunk[i] = DELIMITER
    THEN "line"
    ELSE IF Len(buf) + Len(chunk) = n THEN "error" ELSE "more"

\* recv_line with a buffer of n cells after one more recv: nothing is kept of what
\* follows a line, so that is an error, and so is a line that does not fit.
recv_line(buf, chunk, n) ==
    IF \E i \in 1 .. Len(chunk) : chunk[i] = DELIMITER
    THEN IF IsLine(chunk, Len(chunk)) THEN "line" ELSE "error"
    ELSE IF Len(buf) + Len(chunk) = n THEN "error" ELSE "more"

=============================================================================
