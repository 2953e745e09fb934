---------------------------- MODULE MCDayFetches ----------------------------
EXTENDS DayFetches

\* Two recordings that share a day, and one beside them.
SharedDay == {{1, 2}, {2}}
BothSources == {"interference", "tec"}
MayShutDown == BOOLEAN
=============================================================================
