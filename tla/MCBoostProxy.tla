----------------------------- MODULE MCBoostProxy -----------------------------
(***************************************************************************)
(* Instances of the Boost.Asio proxy for TLC.                              *)
(***************************************************************************)
EXTENDS BoostProxy, TLC

Ask(z) == <<CLIENT_REQUEST_TYPE, z, DELIMITER>>
Announce == <<STAR_REQUEST_TYPE, DELIMITER>>

Prophecies == [z \in Zodiac |-> IF z = "Aries" THEN <<"a", DELIMITER>> ELSE <<"b", DELIMITER>>]

\* A star's request right behind another one, requests for two signs one after
\* the other, and a star with its prognosis.
MixedStreams ==
    {<<Ask("Aries") \o Announce>>, <<Ask("Aries"), Ask("Taurus")>>,
     <<Announce \o <<"a", DELIMITER>> >>}

=============================================================================
