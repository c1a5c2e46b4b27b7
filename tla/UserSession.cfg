CONSTANTS
    Groups = {g1, g2}
    NoGroup = NoGroup
    MaxChanges = 1
SPECIFICATION Spec
SYMMETRY Symmetry
INVARIANTS TypeOK OneSynchronizer SessionFollows ScreenNotice EndNoticed
CHECK_DEADLOCK FALSE
