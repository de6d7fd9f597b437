\* Two threads, one saver: calls end, unless a generator is re-entered.
SPECIFICATION FairSpec
CONSTANTS
    c1 = c1  c2 = c2  c3 = c3  s1 = s1  s2 = s2  t1 = t1  t2 = t2
    task = task  a = a  v1 = v1  v2 = v2
    Client = {c1, c2}
    Saver = {s1}
    SaverOf <- OneSaver
    Free = Free
    ThreadId = {t1}
    Namespace = {""}
    CheckpointId = {1}
    TaskId = {task}
    RegularChannel = {a}
    Value = {v1, v2}
    MaxBatch = 2
    NoRow = NoRow
    None = None
    Calls <- EveryCall
    MaxCalls = 2
    MaxFailures = 1
    Reentrant = TRUE
PROPERTIES
    CallsReturn
CHECK_DEADLOCK FALSE
