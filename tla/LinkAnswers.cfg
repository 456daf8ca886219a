SPECIFICATION FairSpec
CONSTANTS
    Cmd = {"STATUS", "WRITE", "DEV_STATUS"}
    MaxPayload = 3
    Patient = TRUE
    Numbers = 4
    MaxBreaks = 2
INVARIANT LinkInv
INVARIANT GetsItsAnswer
INVARIANT NoErrorUnprovoked
PROPERTY GetsThrough
