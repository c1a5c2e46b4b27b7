CONSTANTS
    Members = {u1, u2, u3}
    Requests = {r1, r2}
    MaxWrites = 4
SPECIFICATION Spec
SYMMETRY Symmetry
INVARIANTS ListShowsMembers CountMatches
CHECK_DEADLOCK FALSE
