--------------------------- MODULE MCCapabilities ---------------------------
(* Instances of Capabilities for TLC: a type with a fallback whose first ref  *)
(* one product misreports (motion_detect of const.py), and the relay.        *)
EXTENDS Capabilities, TLC

CONSTANTS motion, relay, r14800, r108800, r11900, r131800, good, bad

SomeRefs == motion :> <<r14800, r108800>> @@ relay :> <<r11900>>
SomeAbilities == motion :> <<r14800, r108800>> @@ relay :> <<r11900>>
SomeExcepts == {<<r14800, bad>>}
=============================================================================
