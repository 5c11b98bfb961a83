SPECIFICATION Spec
CONSTANTS
    Conns = {c1, c2}
    Users = {u1, u2}
    Words = {w1, w2}
    None = None
SYMMETRY Symmetry
INVARIANTS
    SessionHasAccount
