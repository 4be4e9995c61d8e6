SPECIFICATION FairSpec
CONSTANTS
    Conn = {c1, c2}
    Zodiac = {"Aries"}
    Text = {"a"}
    Streams <- HumanStream
    CLIENT_CON_NUM = 1
    CON_QUEUE_SIZE = 2
    ASTROLOG_BUF_LEN = 3
    SNDBUF = 1
    RECV_TIMEOUT = 3
    SEND_TIMEOUT = 2
    MS = 2
    TimePasses = TRUE
    Faults = {}
    NONE = NONE
INVARIANTS ErrorsAreDeserved NoOversleep
PROPERTIES RequestsServed RepliesCompleted ExpiredDropped
