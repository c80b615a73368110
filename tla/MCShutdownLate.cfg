CONSTANTS
    Task = {t1, t2}
    Workers = 4
    Applications = {"usage"}
SPECIFICATION Spec
INVARIANT GuardsAreNotified
