\* One room of four seats and one booth, three users.
SPECIFICATION Spec
CONSTANTS
    Users = {u1, u2, u3}
    MAX_ROOM_ID = 1
    ROOM_SLOT_COUNT = 4
    ROOM_OBSERVER_COUNT = 1
    None = None
SYMMETRY UsersInterchangeable
INVARIANTS DirectoryAgrees SeatsConsistent MasterLives RanksArePermutation
PROPERTIES RosterOnlyShrinks
CHECK_DEADLOCK FALSE
