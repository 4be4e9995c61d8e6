SPECIFICATION Spec
CONSTANTS
    Client = {c1, c2}
    Child = {k1, k2}
    Zodiac = {"Aries", "Taurus"}
    Text = {"a", "b"}
    Streams <- MixedStreams
    Horoscope <- Prophecies
    ASTROLOG_BUF_LEN = 4
    CON_QUEUE_SIZE = 2
    Faults = {"fork", "accept", "astrolog"}
    NONE = NONE
SYMMETRY ProcessSymmetry
INVARIANTS AccessControl RepliesMatchWaiters
