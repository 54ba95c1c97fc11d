\* Each kind of item in turn; two edits at a time, beside a window of a
\* transaction or of another request.
SPECIFICATION Spec
CONSTANTS
    Requests = {r1, r2}
    Kinds = {"network", "route", "rule", "portforward", "tunnel"}
    Ids = {a, b}
    Values = {"x"}
    MaxLen = 3
    MaxEdits = 2
    MaxWindows = 1
SYMMETRY Symmetry
INVARIANTS EditsOwnCopy SoundUnlessShared
PROPERTY EditsOneItem
