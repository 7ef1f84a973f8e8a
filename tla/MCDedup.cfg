\* Up to four listings by two providers of the flights of two airlines.  Local
\* time is one unit ahead of UTC and a day has four, so that one local day is on
\* two days of UTC.
SPECIFICATION Spec
CONSTANTS
    Providers = {1, 2}
    Codes = {GA, JT}
    Numbers = {n1}
    Timestamps = {3, 4}
    Offsets = {1}
    Amounts = {1, 2, 3}
    DayLength = 4
    MaxFlights = 4
INVARIANTS
    TypeOK
    KeepsCheapest
    InOrderOfAppearance
\* The loop ends.
CHECK_DEADLOCK FALSE
