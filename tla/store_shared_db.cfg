\* Two stores on one database, one of them without an index.
SPECIFICATION Spec
CONSTANTS
    c1 = c1  c2 = c2  c3 = c3  s1 = s1  s2 = s2  p = p  q = q  ka = ka
    f = f  g = g  v = v  w = w
    Client = {c1, c2, c3}
    Store = {s1, s2}
    StoreOf <- TwoStores
    Settings <- OnlyIndexed
    Free = Free
    Part = {p}
    Namespace <- OneNamespace
    Key = {ka}
    Field = {f}
    Value = {v}
    Duration = {1}
    NoRow = NoRow
    None = None
    Calls <- EveryCall
    MaxCalls = 1
    MaxFailures = 1
    MaxTime = 1
INVARIANTS
    ReadyMeansInstalled
