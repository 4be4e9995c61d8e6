SPECIFICATION FairSpec
CONSTANTS
    s1 = s1
    h1 = h1
    h2 = h2
    Zodiac = {"Aries"}
    Star <- Stars
    Human <- Humans
    Conn <- Objects
    SignOf <- Signs
    Modes = {"star", "human", "multi"}
    WriteRequestTimeout = 1
    WritePrognosisTimeout = 1
    ReadResponseTimeout = 1
    TimePasses = TRUE
    Faults = {"connect", "server", "thread", "denied", "rival"}
INVARIANTS TypeOK NoDangling VerdictIsTrue
PROPERTIES Terminates HealthySucceeds
CHECK_DEADLOCK FALSE
