SPECIFICATION FairSpec
CONSTANTS
    Conn = {c1}
    Zodiac = {"Aries", "Taurus"}
    Text = {"a", "b"}
    Streams <- MixedStreams
    Horoscope <- Prophecies
    ReadRequestTimeout = 1
    WriteRequestTimeout = 1
    ReadResponseTimeout = 1
    WriteResponseTimeout = 1
    TimePasses = TRUE
    Faults = {"handleResolve", "handleConnect", "handleAccept", "server"}
    NONE = NONE
INVARIANTS TypeOK HandlersOutstanding AccessControl OwnReply
PROPERTIES OperationsEnd KeepsAccepting
