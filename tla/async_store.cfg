\* Two coroutines on one store, tasks cancelled at any await.
SPECIFICATION AsyncSpec
CONSTANTS
    c1 = c1  c2 = c2  c3 = c3  s1 = s1  s2 = s2  p = p  q = q  ka = ka
    f = f  g = g  v = v  w = w
    Client = {c1, c2}
    Store = {s1}
    StoreOf <- OneStore
    Settings <- AllIndexed
    Free = Free
    Part = {p}
    Namespace <- OneNamespace
    Key = {ka}
    Field = {f}
    Value = {v}
    Duration = {1}
    NoRow = NoRow
    None = None
    Calls <- AsyncCalls
    MaxCalls = 2
    MaxFailures = 0
    MaxTime = 1
    MaxCancels = 1
INVARIANTS
    AsyncTypeOK
    LockDiscipline
    ReadyMeansInstalled
PROPERTIES
    AsyncPutsTakeEffect
    AsyncImplementsItemStore
    CancellationSpares
