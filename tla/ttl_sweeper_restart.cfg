\* A start that follows an impatient stop, or a cancellation.
SPECIFICATION Spec
CONSTANTS
    c1 = c1
    Caller = {c1}
    MaxStarts = 3
    None = None
INVARIANTS
    StartMeansSweeping
