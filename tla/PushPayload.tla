---------------------------- MODULE PushPayload ----------------------------
(***************************************************************************)
(* What a push of the platform says (pyimouapi/push.py): is it an alarm,    *)
(* and where is its picture.  Pure operators on one payload.                *)
(***************************************************************************)
EXTENDS Naturals, Sequences, FiniteSetsExt

CONSTANTS
  Urls,   \* strings that are not empty
  NoUrl,
  Other   \* an empty string, or no string

ASSUME PayloadAssumption == {NoUrl, Other} \cap Urls = {} /\ NoUrl # Other

\* The message types that the code tells apart; "status" stands for those of
\* NON_ALARM_MSG_TYPES, "alarm" for all that are not named anywhere.
MsgTypes == {"none", "iotEvent", "iotProperty", "status", "alarm"}
NonAlarmMsgTypes == {"iotProperty", "status"}

IsAlarmMsgType(type) == type # "none" /\ type \notin NonAlarmMsgTypes

\* An IoT device sent an envelope that is ignored.
IsIotNonEvent(hasProduct, type) ==
  hasProduct /\ type \notin {"iotEvent", "iotProperty"}

\* A field is a list, or one string, here a list of one.
PicUrlStrings(field) ==
  LET kept[n \in 0..Len(field)] ==
        IF n = 0 THEN << >>
        ELSE IF field[n] \in Urls THEN Append(kept[n - 1], field[n]) ELSE kept[n - 1]
  IN kept[Len(field)]

\* Only the first field that is there is looked at.
PicUrls_FirstField(fields) ==
  LET there == {i \in DOMAIN fields : fields[i] # << >>}
  IN IF there = {} THEN << >> ELSE PicUrlStrings(fields[Min(there)])

\* thumbUrl, picUrlArray, picUrlArr, picUrl: the first that has any.
PicUrls(fields) ==
  LET populated == {i \in DOMAIN fields : PicUrlStrings(fields[i]) # << >>}
  IN IF populated = {} THEN << >> ELSE PicUrlStrings(fields[Min(populated)])

\* The second is the small one.
PreferredPicUrl(urls) ==
  IF urls = << >> THEN NoUrl ELSE IF Len(urls) > 1 THEN urls[2] ELSE urls[1]
=============================================================================
