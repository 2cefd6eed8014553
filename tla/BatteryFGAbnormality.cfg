\* One event type, three seconds and three rows: enough for a row logged in
\* the second a call read its clock, and for a second to pass between the
\* clock read and readLogbuffer.
CONSTANTS
    Events <- MCEvents
    NumMaxEvents = 8
    MaxTime = 3
    MaxRows = 3
SPECIFICATION Spec
INVARIANT EachRowReportedOnce
