------------------------------ MODULE MCPlayer ------------------------------
(***************************************************************************)
(* Small instances of the player.                                          *)
(***************************************************************************)
EXTENDS Player

CONSTANTS c1, c2

\* A match shown by both channels.
TwoSignals == <<c1, c2>>
=============================================================================
