SPECIFICATION Spec
CONSTANTS
    ann = ann
    bob = bob
    cid = cid
    Users = {ann, bob, cid}
    May <- Habits
    None = None
    Infos <- AllInfos
    Profiles <- StoredInfos
    Slots = 1
    Capacity = 3
    GenMax = 3
INVARIANT LoginAdvancesOfflineOwner
CHECK_DEADLOCK FALSE
