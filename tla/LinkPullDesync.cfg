SPECIFICATION Spec
CONSTANTS
    Cmd = {"STATUS", "STDOUT_PULL"}
    MaxPayload = 3
    Patient = TRUE
    Numbers = 4
    MaxBreaks = 0
INVARIANT PullReturnsOutput
