CONSTANTS
    Task = {t1, t2}
    Workers = 4
    Applications = {"endpoint"}
SPECIFICATION Spec
INVARIANT ExitMeansQuiet
