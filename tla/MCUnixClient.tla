----------------------------- MODULE MCUnixClient -----------------------------
(***************************************************************************)
(* An instance of the Unix client for TLC.                                 *)
(***************************************************************************)
EXTENDS UnixClient

TwoSigns == <<"Aries", "Taurus">>

\* One of the replies fills the buffer.
Replies == [z \in Zodiac |-> IF z = "Aries" THEN <<"a", DELIMITER>> ELSE <<"a", "a", DELIMITER>>]

=============================================================================
