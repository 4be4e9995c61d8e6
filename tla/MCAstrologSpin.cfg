SPECIFICATION FairSpec
CONSTANTS
    Conn = {c1}
    Zodiac = {"Aries"}
    Text = {"a"}
    Streams <- UnknownSign
    CLIENT_CON_NUM = 1
    CON_QUEUE_SIZE = 2
    ASTROLOG_BUF_LEN = 3
    SNDBUF = 1
    RECV_TIMEOUT = 1
    SEND_TIMEOUT = 1
    MS = 1
    TimePasses = FALSE
    Faults = {}
    NONE = NONE
PROPERTIES UpdateStateReturns
