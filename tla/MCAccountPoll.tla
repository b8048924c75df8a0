--------------------------- MODULE MCAccountPoll ---------------------------
(* Instances of AccountPoll for TLC: a recorder with two channels and a       *)
(* product id, and a camera without one.                                   *)
EXTENDS AccountPoll, TLC

CONSTANTS d1, d2, d3, recorder, camera

TwoGroups == d1 :> recorder @@ d2 :> recorder @@ d3 :> camera
=============================================================================
