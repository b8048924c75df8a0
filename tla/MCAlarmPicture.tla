-------------------------- MODULE MCAlarmPicture ---------------------------
(* An instance of AlarmPicture for TLC: every kind of key, every need of a    *)
(* buffer where two keys are tried, one picture of each other kind; pushes   *)
(* of every type, and alarms with lists of every kind in two of the fields.  *)
EXTENDS AlarmPicture

CONSTANTS u1, u2

MCPictures ==
  {p \in AnyPicture :
     /\ p.data # "whole" \/ ~p.jpeg => p.jpeg = (p.data # "whole") /\ p.key = SerialAesKey
     /\ p.key = SerialAesKey \/ p.tcm => p.needs = "two"}

With(first, third) == <<first, << >>, third, << >>>>
MCPushes ==
  {[type |-> ty, hasProduct |-> hp, fields |-> With(<<Other>>, <<u1, u2>>)] :
     ty \in MsgTypes, hp \in BOOLEAN}
  \cup {[type |-> "alarm", hasProduct |-> FALSE, fields |-> f] :
     f \in {With(<<u1>>, <<u2>>), With(<<Other, u1, u2>>, <<Other>>), With(<<Other>>, << >>)}}
=============================================================================
