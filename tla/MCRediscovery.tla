--------------------------- MODULE MCRediscovery ----------------------------
(* An instance of Countdown, and so of Rediscovery, for TLC: a service      *)
(* sensor, a relay and the minutes of its countdown, a select and the panel. *)
(* A sensor of the detail meets a rediscovery as the service sensor does and *)
(* an answer as the relay does, and is in the proofs only.                   *)
EXTENDS Countdown

CONSTANTS power, switch, minutes, select, panel

\* The device gains and loses everything, not in every combination; nothing is
\* what a listing gives it whose detail read failed.
SomeListings == {Keys, {minutes}, {}}
=============================================================================
