SPECIFICATION FairSpec
CONSTANTS
    Container = {c1, n1}
    Fresh = {n1}
    Cleaner = {k1}
    Refresher = {r1}
    Dates = {2, 3}
    Extension = {1, 2}
    MaxTime = 3
INVARIANTS
    TypeOK
    VictimsExpiredUnlessRewritten
    BareIsNeverVictim
PROPERTIES
    AddedNodeOutlives
    ExpiredIsReclaimed
