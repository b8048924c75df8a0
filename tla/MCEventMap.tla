----------------------------- MODULE MCEventMap -----------------------------
(* Instance of EventMap for TLC: three pushes on two products, one         *)
(* fetching, one waiting and one late, and a throttle of two ticks.        *)
EXTENDS EventMap
=============================================================================
