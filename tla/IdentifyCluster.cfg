SPECIFICATION FairSpec
CONSTANTS
    Deployer = {docker, cloud, local}
    Cluster = {c1, c2}
CHECK_DEADLOCK FALSE
INVARIANTS
    TypeOK
    NoSendAfterClose
PROPERTIES
    ResolvesIfAnswered
    RefinesSearch
