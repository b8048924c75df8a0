----------------------------- MODULE OptionKeys -----------------------------
(***************************************************************************)
(* What a value of the thing model is called in Home Assistant, and back:   *)
(* the options of selects and the modes of the alarm panel                  *)
(* (pyimouapi/select_option.py, alarm_mode.py).  Values are strings here;   *)
(* the code turns numbers into their digits first.                          *)
(***************************************************************************)
EXTENDS TLC

Kinds == {"device_volume", "night_vision_mode", "alarm_mode", "plain"}

VolumeKeys ==
  [raw \in {"99", "-1", "0", "1", "2"} |->
     CASE raw \in {"99", "-1"} -> "mute"
       [] raw = "0" -> "low" [] raw = "1" -> "medium" [] raw = "2" -> "high"]
NightVisionKeys ==
  "0" :> "intelligent" @@ "1" :> "fullcolor" @@ "2" :> "infrared" @@ "3" :> "off" @@ "4" :> "custom"
    @@ "lowlight" :> "lowlight" @@ "smartlowlight" :> "smartlowlight"
AlarmKeys == "0" :> "home" @@ "1" :> "away" @@ "2" :> "disarm"

KeysOf(kind) ==
  CASE kind = "device_volume" -> VolumeKeys
    [] kind = "night_vision_mode" -> NightVisionKeys
    [] kind = "alarm_mode" -> AlarmKeys
    [] kind = "plain" -> << >>

\* -1 has no name.
ToFriendly_OneMute(kind, raw) ==
  LET keys == KeysOf(kind)
  IN IF raw \in DOMAIN keys /\ raw # "-1" THEN keys[raw] ELSE raw

\* A value that is not in the table is shown as it is.
ToFriendly(kind, raw) ==
  LET keys == KeysOf(kind)
  IN IF raw \in DOMAIN keys THEN keys[raw] ELSE raw

\* What may be written; a name that is not in the table raises ValueError before
\* anything is sent.
IsOption(kind, option) ==
  kind = "plain" \/ \E raw \in DOMAIN KeysOf(kind) : KeysOf(kind)[raw] = option

\* A volume has two values that mean mute: to_raw gives 99, and async_select_option
\* makes it -1, which is what ref 15400 takes, the only one with a volume.
ToRaw(kind, option) ==
  IF kind = "plain" THEN option
  ELSE IF kind = "device_volume" /\ option = "mute" THEN "-1"
  ELSE CHOOSE raw \in DOMAIN KeysOf(kind) : KeysOf(kind)[raw] = option
=============================================================================
