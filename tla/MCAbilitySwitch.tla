-------------------------- MODULE MCAbilitySwitch ---------------------------
(* Instance of AbilitySwitch for TLC: motion_detect with its two abilities *)
(* and a switch with one, a poll, a user who writes twice and a change made*)
(* in the vendor's app.                                                    *)
EXTENDS AbilitySwitch
=============================================================================
