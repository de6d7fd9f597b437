\* Three threads, two savers, one database: set-up and overlapping calls.
SPECIFICATION Spec
CONSTANTS
    c1 = c1  c2 = c2  c3 = c3  s1 = s1  s2 = s2  t1 = t1  t2 = t2
    task = task  a = a  v1 = v1  v2 = v2
    Client = {c1, c2, c3}
    Saver = {s1, s2}
    SaverOf <- TwoSavers
    Free = Free
    ThreadId = {t1}
    Namespace = {""}
    CheckpointId = {1}
    TaskId = {task}
    RegularChannel = {a}
    Value = {v1, v2}
    MaxBatch = 2
    NoRow = NoRow
    None = None
    Calls <- EveryCall
    MaxCalls = 1
    MaxFailures = 1
    Reentrant = FALSE
INVARIANTS
    NoQueryBeforeSchema
PROPERTIES
    WritesLand
