----------------------------- MODULE MCBoostClient -----------------------------
(***************************************************************************)
(* An instance of the Boost.Asio client for TLC: one sign, and two humans  *)
(* that ask for it on two threads.                                         *)
(***************************************************************************)
EXTENDS BoostClient

CONSTANTS s1, h1, h2

Stars == {s1}
Humans == {h1, h2}
Objects == Stars \cup Humans
Signs == [c \in Conn |-> "Aries"]

=============================================================================
