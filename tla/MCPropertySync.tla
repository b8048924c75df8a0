--------------------------- MODULE MCPropertySync ---------------------------
(* Instance of PropertySync for TLC: two writers, a poll, pushes and the    *)
(* vendor's app, on the alarm mode, the night vision or the volume, one for *)
(* each kind of channel id.  Where a write is two requests it meets a       *)
(* change from elsewhere between them; at "other" two writes run into each  *)
(* other, one of them after its wait for a sleeping device.                 *)
EXTENDS PropertySync

MCKindOf ==
  "0" :> "alarm_mode" @@ "other" :> "night_vision_mode" @@ "none" :> "device_volume"
MCValuesOf ==
  "device_volume" :> {"-1", "99", "0"} @@ "night_vision_mode" :> {"1", "2"}
    @@ "alarm_mode" :> {"0", "2"} @@ "plain" :> {"1", "2"}
MCMaxWrites == "0" :> 1 @@ "other" :> 2 @@ "none" :> 1
MCMaxChanges == "0" :> 1 @@ "other" :> 0 @@ "none" :> 0
=============================================================================
