SPECIFICATION FairSpec
CONSTANTS
    Client = {c1, c2}
    Child = {k1, k2}
    Zodiac = {"Aries"}
    Text = {"a", "b"}
    Streams <- OneRequest
    Horoscope <- Prophecies
    ASTROLOG_BUF_LEN = 3
    CON_QUEUE_SIZE = 2
    Faults = {"astrolog"}
    NONE = NONE
PROPERTIES WaitersReturn DeathEndsAll
