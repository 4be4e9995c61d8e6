SPECIFICATION FairSpec
CONSTANTS
    Zodiac = {"Aries", "Taurus"}
    Names <- TwoSigns
    Modes = {"star", "ordinary", "harmful"}
    CLIENT_CON_NUM = 3
    RETRIES = 1
    Horoscope <- Replies
    Text = {"a"}
    Ends = {"server", "proxy"}
    ASTROLOG_BUF_LEN = 3
    Faults = {"fork", "connect", "server"}
INVARIANTS TypeOK NoOrphans
PROPERTIES RepliesInStep Terminates
