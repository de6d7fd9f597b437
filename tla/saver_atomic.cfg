\* One saver used by two threads: all calls, one failing query.
SPECIFICATION AtomicSpec
CONSTANTS
    c1 = c1  c2 = c2  c3 = c3  s1 = s1  s2 = s2  t1 = t1  t2 = t2
    task = task  a = a  v1 = v1  v2 = v2
    Client = {c1, c2}
    Saver = {s1}
    SaverOf <- OneSaver
    Free = Free
    ThreadId = {t1}
    Namespace = {""}
    CheckpointId = {1, 2}
    TaskId = {task}
    RegularChannel = {a}
    Value = {v1, v2}
    MaxBatch = 2
    NoRow = NoRow
    None = None
    Calls <- OneSaverCalls
    MaxCalls = 2
    MaxFailures = 1
    Reentrant = FALSE
INVARIANTS
    TypeOK
    LockDiscipline
PROPERTIES
    FirstWriteWins
    NoTornTuple
    ListSnapshot
    ImplementsStore
