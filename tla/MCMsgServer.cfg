CONSTANTS
    ann = ann
    Ann = Ann
    bob = bob
    Handles = {1, 2}
    Names <- MCNames
    UserIds = {1, 2}
    UserOf <- MCUserOf
    ClientTypes = {"mac", "ios"}
    Mobile = {"ios"}
    MaxRequests = 1
    MaxWaiting = 3
SPECIFICATION Spec
SYMMETRY Symmetry
INVARIANTS
    TypeOK
    UserTables
    AnnouncedOnce
PROPERTIES
    ImplementsSessions
    OpensAsAsked
CHECK_DEADLOCK FALSE
