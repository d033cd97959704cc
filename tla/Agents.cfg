SPECIFICATION Spec
CONSTANTS
    Agents = {a1, a2, a3}
    Root = root
    Paths = {p1}
    RootPath = RootPath
    NoPath = NoPath
    Tasks = {o1, o2}
    MaxThreads = 2
    NoAgent = NoAgent
SYMMETRY MCSymmetry
INVARIANTS TypeOK SlotsCounted LiveBounded PathsReserved
