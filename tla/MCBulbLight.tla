---------------------------- MODULE MCBulbLight ----------------------------
(* Instances of BulbLight for TLC: the levels at both ends, a half that      *)
(* round() takes up and one that it takes down, and their neighbours.       *)
EXTENDS BulbLight

\* What PercentToBrightness makes of 1, 10, 30, 99 and 100 among them.
SomeHaLevels   == {0, 3, 26, 76, 252, 255}
SomeKelvins    == {2000, 4000, 6500}
SomeReadLevels == {-1, 1, 10, 30, 99, 200}
SomeReadModes  == 0..3
=============================================================================
