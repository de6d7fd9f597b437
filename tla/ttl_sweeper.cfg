\* One caller, four sweepers, every mixture of starts, stops and cancellations.
SPECIFICATION Spec
CONSTANTS
    c1 = c1
    Caller = {c1}
    MaxStarts = 4
    None = None
INVARIANTS
    TypeOK
    AtMostOne
PROPERTIES
    StopMeansStopped
    StopsAreHeeded
    SweepsRecur
