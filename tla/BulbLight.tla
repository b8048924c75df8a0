------------------------------ MODULE BulbLight ------------------------------
(***************************************************************************)
(* The color bulb: what light.turn_on writes, and how writes, polls and     *)
(* pushes are folded into the local state (pyimouapi/bulb_light.py and      *)
(* async_set_bulb_light of ha_device.py).                                   *)
(*                                                                         *)
(* The properties of a write are chosen from the state before the request   *)
(* goes out and folded in when it has been answered; readings may be folded *)
(* in between.  Hue and saturation are one value, color.  How the request   *)
(* comes to succeed or fail is PropertySync.  One call is under way at a    *)
(* time: of two that overlap, the answer that comes last is folded in last. *)
(***************************************************************************)
EXTENDS Integers

CONSTANTS
  Colors, Scenes,
  HaLevels,    \* brightness values a caller passes
  Kelvins,     \* color temperatures a caller passes or a reading has
  ReadLevels,  \* levels a reading has, in range or not
  ReadModes,   \* modes a reading has, known or not
  None         \* a property that is not there, or that _as_int cannot read

MODE_WHITE == 0
MODE_COLOR == 1
MODE_SCENE == 2
MIN_KELVIN == 2700
MAX_KELVIN == 6500

ASSUME ConstantsAssumption ==
  /\ HaLevels \cup Kelvins \cup ReadLevels \cup ReadModes \cup Scenes \subseteq Int
  /\ None \notin Int \cup Colors /\ Colors # {}

VARIABLES
  shown,     \* device.bulb_light
  request,   \* what the call under way asks for
  payload,   \* the properties it writes; Silent when there is no call
  disturbed  \* history: a reading was folded in since the call began
bulbVars == <<shown, request, payload, disturbed>>

Keys == {"on", "mode", "brightness", "value", "color_temp", "color", "scene"}
Silent == [key \in Keys |-> None]
NoRequest == [brightness |-> None, color_temp |-> None, color |-> None, effect |-> None]
Requests ==
  [brightness : HaLevels \cup {None}, color_temp : Kelvins \cup {None},
   color : Colors \cup {None}, effect : Scenes \cup {None}]

Readings(key) ==
  CASE key = "on" -> {0, 1} [] key = "mode" -> ReadModes
    [] key \in {"brightness", "value"} -> ReadLevels
    [] key = "color_temp" -> Kelvins [] key = "color" -> Colors
    [] key = "scene" -> Scenes

\* Every level is what the thing model allows, whatever was read or asked for.
BulbTypeOK ==
  /\ shown.on \in BOOLEAN /\ shown.mode \in Int /\ shown.scene \in Int
  /\ shown.brightness \in 1..100 /\ shown.value \in 0..100
  /\ shown.color_temp \in MIN_KELVIN..MAX_KELVIN /\ shown.color \in Colors
  /\ request \in Requests /\ disturbed \in BOOLEAN

BulbInit ==
  /\ \E c \in Colors :
       shown = [on |-> FALSE, mode |-> MODE_WHITE, brightness |-> 50, value |-> 100,
                color_temp |-> 3500, color |-> c, scene |-> 0]
  /\ request = NoRequest /\ payload = Silent /\ disturbed = FALSE

-----------------------------------------------------------------------------
(* Levels. *)

Clamp(low, high, n) == IF n < low THEN low ELSE IF n > high THEN high ELSE n

\* Python's round of n / d: a half goes to the even neighbour.
Round(n, d) ==
  LET down == n \div d
      rest == 2 * (n % d)
  IN IF rest > d \/ (rest = d /\ down % 2 = 1) THEN down + 1 ELSE down

PercentToBrightness(percent) ==
  Clamp(1, 255, Round(Clamp(1, 100, percent) * 255, 100))

\* int() instead of round().
BrightnessToPercent_Floor(brightness) ==
  Clamp(1, 100, (Clamp(0, 255, brightness) * 100) \div 255)

BrightnessToPercent(brightness) ==
  Clamp(1, 100, Round(Clamp(0, 255, brightness) * 100, 255))

ClampRead(key, n) ==
  CASE key = "brightness" -> Clamp(1, 100, n)
    [] key = "value"      -> Clamp(0, 100, n)
    [] key = "color_temp" -> Clamp(MIN_KELVIN, MAX_KELVIN, n)
    [] key = "on"         -> n = 1
    [] OTHER              -> n

\* Every property that is there is folded in, the others stay.
ApplyBulbProperties(values) ==
  shown' = [key \in Keys |->
              IF values[key] = None THEN shown[key] ELSE ClampRead(key, values[key])]

-----------------------------------------------------------------------------
(* Calls. *)

Write(key, n) == [Silent EXCEPT !["on"] = 1, ![key] = n]
IfGiven(level) == IF level = None THEN None ELSE BrightnessToPercent(level)

\* The color takes the brightness of the white light along.
ColorWrite_CopiesLevel(r) ==
  [Write("color", r.color) EXCEPT
     !["mode"] = MODE_COLOR,
     !["value"] = IF r.brightness = None THEN shown.brightness
                  ELSE BrightnessToPercent(r.brightness)]

ColorWrite(r) ==
  [Write("color", r.color) EXCEPT
     !["mode"] = MODE_COLOR, !["value"] = IfGiven(r.brightness)]

WhiteWrite(r) ==
  [Write("color_temp", Clamp(MIN_KELVIN, MAX_KELVIN, r.color_temp)) EXCEPT
     !["mode"] = MODE_WHITE, !["brightness"] = IfGiven(r.brightness)]

\* Brightness alone leaves the mode to the bulb.
LevelWrite_KeepsMode(level) ==
  IF shown.mode = MODE_COLOR THEN Write("value", level) ELSE Write("brightness", level)

\* Brightness alone moves the slider of the mode that is shown, and takes any
\* mode but color back to white.
LevelWrite(level) ==
  IF shown.mode = MODE_COLOR
    THEN Write("value", level)
    ELSE [Write("brightness", level) EXCEPT
            !["mode"] = IF shown.mode = MODE_WHITE THEN None ELSE MODE_WHITE]

\* An effect goes before a color, a color before a color temperature.  One that
\* has no name in the table raises before anything is sent, and is left out.
PropertiesForTurnOn(r) ==
  IF r.effect # None THEN [Write("scene", r.effect) EXCEPT !["mode"] = MODE_SCENE]
  ELSE IF r.color # None THEN ColorWrite(r)
  ELSE IF r.color_temp # None THEN WhiteWrite(r)
  ELSE IF r.brightness # None THEN LevelWrite(BrightnessToPercent(r.brightness))
  ELSE Write("on", 1)

PropertiesForTurnOff == [Silent EXCEPT !["on"] = 0]

Begin(r, properties) ==
  /\ payload = Silent
  /\ request' = r /\ payload' = properties /\ disturbed' = FALSE
  /\ UNCHANGED shown

TurnOn(r) == Begin(r, PropertiesForTurnOn(r))
TurnOff == Begin(NoRequest, PropertiesForTurnOff)

\* async_set_bulb_light: the write succeeded and is folded in.
Answered ==
  /\ payload # Silent
  /\ ApplyBulbProperties(payload)
  /\ request' = NoRequest /\ payload' = Silent /\ disturbed' = FALSE

\* It failed, and the state is left to the readings.
Fails ==
  /\ payload # Silent
  /\ request' = NoRequest /\ payload' = Silent /\ disturbed' = FALSE
  /\ UNCHANGED shown

\* A poll or a push brings a property, readable or not.
Read(key, n) ==
  /\ ApplyBulbProperties([Silent EXCEPT ![key] = n])
  /\ disturbed' = (payload # Silent)
  /\ UNCHANGED <<request, payload>>

BulbNext ==
  \/ \E r \in Requests : TurnOn(r)
  \/ TurnOff \/ Answered \/ Fails
  \/ \E key \in Keys : \E n \in Readings(key) \cup {None} : Read(key, n)

BulbSpec == BulbInit /\ [][BulbNext]_bulbVars

-----------------------------------------------------------------------------
\* The level of the mode the bulb is in.
Level(bulb) == IF bulb.mode = MODE_COLOR THEN bulb.value ELSE bulb.brightness

\* With no reading in between, an accepted turn_on shows what was asked for, in
\* the mode where it has an effect, whatever mode the bulb was in
\* (bulb_light.py:184 "so the lamp matches").
AskedIsShown ==
  [][payload["on"] = 1 /\ Answered /\ ~disturbed =>
       /\ shown'.on
       /\ request.effect # None =>
            shown'.mode = MODE_SCENE /\ shown'.scene = request.effect
       /\ request.effect = None =>
            /\ request.color # None =>
                 shown'.mode = MODE_COLOR /\ shown'.color = request.color
            /\ request.color = None /\ request.color_temp # None =>
                 /\ shown'.mode = MODE_WHITE
                 /\ request.color_temp \in MIN_KELVIN..MAX_KELVIN =>
                      shown'.color_temp = request.color_temp
            /\ request.brightness # None =>
                 /\ shown'.mode \in {MODE_WHITE, MODE_COLOR}
                 /\ Level(shown') = BrightnessToPercent(request.brightness)]_bulbVars

\* White and color keep a brightness each: a call never moves both, and none
\* when it asks for no brightness, readings in between or not (bulb_light.py:142
\* "moving color temperature does not copy the color brightness").
SlidersAreApart ==
  [][payload # Silent /\ Answered =>
       \/ shown'.brightness = shown.brightness /\ shown'.value = shown.value
       \/ /\ request.brightness # None
          /\ shown'.brightness = shown.brightness \/ shown'.value = shown.value]_bulbVars

\* A caller that sends back the brightness it was shown turns the bulb on and
\* changes nothing else: the two scales do not drift.
ResendChangesNothing ==
  [][/\ payload["on"] = 1 /\ Answered /\ ~disturbed
     /\ shown.mode \in {MODE_WHITE, MODE_COLOR} /\ Level(shown) # 0
     /\ request = [NoRequest EXCEPT !.brightness = PercentToBrightness(Level(shown))]
     => shown' = [shown EXCEPT !.on = TRUE]]_bulbVars
=============================================================================
