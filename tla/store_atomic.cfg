\* One store with an index, two threads, one failing query.
SPECIFICATION AtomicSpec
CONSTANTS
    c1 = c1  c2 = c2  c3 = c3  s1 = s1  s2 = s2  p = p  q = q  ka = ka
    f = f  g = g  v = v  w = w
    Client = {c1, c2}
    Store = {s1}
    StoreOf <- OneStore
    Settings <- AllIndexed
    Free = Free
    Part = {p, q}
    Namespace <- NestedNamespaces
    Key = {ka}
    Field = {f, g}
    Value = {v, w}
    Duration = {1}
    NoRow = NoRow
    None = None
    Calls <- OneStoreCalls
    MaxCalls = 2
    MaxFailures = 1
    MaxTime = 2
INVARIANTS
    TypeOK
    LockDiscipline
    IndexFollowsItems
    ExpiryMatchesTtl
PROPERTIES
    PutsTakeEffect
    OnlySweepsOrphan
    ImplementsItemStore
