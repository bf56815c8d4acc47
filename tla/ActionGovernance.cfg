SPECIFICATION Spec
CONSTANTS
    a1 = a1  a2 = a2  k1 = k1  k2 = k2  u1 = u1  maker = maker
    h1 = h1  h2 = h2  docs = docs  credit = credit  None = None
    Kind = {docs, credit}
    User = {u1, maker}
    Maker = maker
    Key = {k1, k2}
    Handler = {h1, h2}
    MaxCrashes = 1
    Action = {a1, a2}
    KindOf <- SameKind
SYMMETRY MCSymmetry
INVARIANTS
    SuccessWasWritten
    MakerNeverChecks
    KeyExecutesOneAction
    OneWritePerAction
PROPERTY
    DecisionIsFinal
