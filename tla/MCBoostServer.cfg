SPECIFICATION Spec
CONSTANTS
    Conn = {c1, c2}
    Zodiac = {"Aries"}
    Text = {"a"}
    Streams <- MixedStreams
    SNDBUF = 1
    ReadRequestTimeout = 1
    ReadPrognosisTimeout = 1
    WriteResponseTimeout = 1
    TimePasses = TRUE
    Faults = {"accept"}
    NONE = NONE
INVARIANTS TypeOK HandlersOutstanding
PROPERTIES DropsAreDeserved ImplementsService
SYMMETRY ConnSymmetry
