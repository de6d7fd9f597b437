\* A coroutine of the loop and another thread on one saver, tasks cancelled at any await.
SPECIFICATION AsyncFairSpec
CONSTANTS
    c1 = c1  c2 = c2  c3 = c3  s1 = s1  s2 = s2  t1 = t1  t2 = t2
    task = task  a = a  v1 = v1  v2 = v2
    Client = {c1, c2}
    Saver = {s1}
    SaverOf <- OneSaver
    Free = Free
    ThreadId = {t1}
    Namespace = {""}
    CheckpointId = {1}
    TaskId = {task}
    RegularChannel = {a}
    Value = {v1, v2}
    MaxBatch = 2
    NoRow = NoRow
    None = None
    Calls <- AsyncCalls
    MaxCalls = 2
    MaxFailures = 0
    Reentrant = TRUE
    Elsewhere = {c2}
    MaxCancels = 1
    SyncOnLoop = TRUE
INVARIANTS
    AsyncTypeOK
    AsyncLockDiscipline
PROPERTIES
    AsyncFirstWriteWins
    AsyncNoTornTuple
    AsyncListSnapshot
    DeleteErasesBoth
    AsyncCallsReturn
CHECK_DEADLOCK FALSE
