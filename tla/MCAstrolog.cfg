SPECIFICATION Spec
CONSTANTS
    Conn = {c1, c2}
    Zodiac = {"Aries"}
    Text = {"a"}
    Streams <- MixedStreams
    CLIENT_CON_NUM = 2
    CON_QUEUE_SIZE = 2
    ASTROLOG_BUF_LEN = 3
    SNDBUF = 2
    RECV_TIMEOUT = 1
    SEND_TIMEOUT = 1
    MS = 1
    TimePasses = FALSE
    Faults = {"accept4", "malloc", "epoll_ctl", "epoll_wait"}
    NONE = NONE
INVARIANTS EventsAlive EventsStayReady BuffersFit EpollMatchesOp ParkedReaderDrained ErrorsAreDeserved
PROPERTIES ImplementsService
SYMMETRY ConnSymmetry
