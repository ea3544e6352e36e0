CONSTANTS
    Servers = {m1, m2}
    Links = {l1, l2}
    Handles = {h1, h2}
    UserIds = {1}
    ClientTypes = {"win", "ios"}
    PC = {"win"}
    MaxQueue = 2
SYMMETRY Symmetry
SPECIFICATION Spec
INVARIANTS
    TypeOK
    TableSound
    NeverUndercounted
    PresentWhenSettled
    NoticesAgree
