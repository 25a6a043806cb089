SPECIFICATION Spec
CONSTANTS
    Ports = {1}
    Contested <- MCContested
    Configs <- MCConfigs
INVARIANTS
    JobMatchesDisk
    ServerStops
    UpSettles
PROPERTIES
    MarkerIsProof
    RecoverSpares
