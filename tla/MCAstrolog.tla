------------------------------ MODULE MCAstrolog ------------------------------
(***************************************************************************)
(* Instances of the server for TLC.  A buffer has three cells, the length  *)
(* of the shortest request, so that a request fills it exactly, the bytes  *)
(* of two lines meet in it, and three words without a delimiter fill it.   *)
(* Every stream may be cut anywhere by the network.                        *)
(***************************************************************************)
EXTENDS Astrolog, TLC

Star == <<STAR_REQUEST_TYPE, "Aries", DELIMITER>>
Human == <<CLIENT_REQUEST_TYPE, "Aries", DELIMITER>>

\* Two prognoses of different lengths for one sign, one that does not fit, a
\* request, and one without a sign.
MixedStreams ==
    { Star \o <<"a", DELIMITER>>, Star \o <<DELIMITER>>, Star \o <<"a", "a", "a", "a">>,
      Human, <<STAR_REQUEST_TYPE, DELIMITER>> }

HumanStream == {Human}

\* A request for an unknown sign, with the next request behind it.
UnknownSign == {<<CLIENT_REQUEST_TYPE, DELIMITER>> \o Human}

ConnSymmetry == Permutations(Conn)

=============================================================================
