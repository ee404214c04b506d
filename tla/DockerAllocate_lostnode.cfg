SPECIFICATION Spec
CONSTANTS
    n1 = n1
    n2 = n2
    n3 = n3
    Node = {n1, n2, n3}
    S3Mock = s3mock
    Nginx = nginx
    Haproxy = haproxy
    DefSeq <- MCDefSeq
    Defs <- MCDefsPlain
INVARIANTS
    EveryNodeJoins
