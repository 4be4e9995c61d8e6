---------------------------- MODULE MCBoostServer ----------------------------
(***************************************************************************)
(* Instances of the Boost.Asio server for TLC.  The network cuts streams   *)
(* anywhere; a write takes at most SNDBUF words at a time.                 *)
(***************************************************************************)
EXTENDS BoostServer, TLC

Star == <<STAR_REQUEST_TYPE, "Aries", DELIMITER>>
Human == <<CLIENT_REQUEST_TYPE, "Aries", DELIMITER>>

\* A star, an ordinary client whose second line names no sign, and a line that
\* does not end.
MixedStreams ==
    { <<Star \o <<"a", DELIMITER>> >>, <<Human, <<STAR_REQUEST_TYPE, DELIMITER>> >>,
      << <<CLIENT_REQUEST_TYPE>> >> }

SingleRequest == {<<Human>>}

\* Both sets of streams are what clients say that wait for their replies.
ASSUME StreamsAssumption == ClientsWait

ConnSymmetry == Permutations(Conn)

=============================================================================
