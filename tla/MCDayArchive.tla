---------------------------- MODULE MCDayArchive ----------------------------
EXTENDS DayArchive

WhileSurvived == Survived
WhileNothingStops == stopped = {}

ThreeDays == 1..3
TwoDays == 1..2
OneOrTwoRows == {1, 2}
NoneOrOneRow == {0, 1}
=============================================================================
