----------------------------- MODULE MCUnixProxy -----------------------------
(***************************************************************************)
(* Instances of the proxy for TLC.  A buffer has four cells and a request  *)
(* three, so that a chunk can hold a line and the beginning of the next    *)
(* one, and four words without a delimiter overflow it.                    *)
(***************************************************************************)
EXTENDS UnixProxy, TLC

Ask(z) == <<CLIENT_REQUEST_TYPE, z, DELIMITER>>
Star == <<STAR_REQUEST_TYPE, "Aries", DELIMITER, "a", DELIMITER>>

Prophecies == [z \in Zodiac |-> IF z = "Aries" THEN <<"a", DELIMITER>> ELSE <<"b", DELIMITER>>]

\* A request, a request with a star's behind it, a star, an unknown sign, and
\* a line that is too long.
MixedStreams ==
    { Ask("Aries"), Ask("Aries") \o Star, Star,
      Ask("a"), <<"a", "a", "a", "a">> }

\* Requests for two signs, one after the other.
TwoSigns == {Ask("Aries"), Ask("Taurus") \o Ask("Aries")}

\* A request, and one for an unknown sign: behind the second, the first makes the
\* server hang.
OneRequest == {Ask("Aries"), Ask("a")}

ProcessSymmetry == Permutations(Client) \cup Permutations(Child)

=============================================================================
