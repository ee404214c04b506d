SPECIFICATION MCSpec
CONSTANTS
    n1 = n1
    n2 = n2
    n3 = n3
    Node = {n1, n2, n3}
    S3Mock = s3mock
    Nginx = nginx
    Haproxy = haproxy
    DefSeq <- MCDefSeq
    Defs <- MCDefs
INVARIANTS
    TypeOK
    AscendingDefinitionKeepsGroups
    SuccessDeploysEveryNode
    LeftoverIsStraggler
PROPERTIES
    Terminates
    RefinesContract
