SPECIFICATION Spec
CONSTANTS
    Conn = {c1}
    Zodiac = {"Aries"}
    Text = {"a"}
    Streams <- SingleRequest
    SNDBUF = 2
    ReadRequestTimeout = 1
    ReadPrognosisTimeout = 1
    WriteResponseTimeout = 1
    TimePasses = TRUE
    Faults = {}
    NONE = NONE
INVARIANTS ExpiryIsCurrent
