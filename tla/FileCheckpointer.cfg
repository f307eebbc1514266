SPECIFICATION Spec
CONSTANTS
    p1 = p1
    p2 = p2
    c1 = c1
    c2 = c2
    Paths <- TwoPaths
    Contents <- TwoContents
    Absent = Absent
    NoSnapshot = NoSnapshot
    Indices = {0, 2}
    MaxCheckpoints = 2
SYMMETRY Symmetry
INVARIANT SnapshotsCoverChanges
PROPERTIES UndoRestoresTurnStart ImplementsUndoStack
