CONSTANTS
    Task = {t1, t2}
    Workers = 1
    Applications = {"usage"}
SPECIFICATION FairSpec
PROPERTY ShutdownCompletes
CHECK_DEADLOCK FALSE
