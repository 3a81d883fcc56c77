\* Two processes of a deployment, three failed calls.
SPECIFICATION FairSpec
CONSTANTS
    m1 = m1
    m2 = m2
    Migrators = {m1, m2}
    Domains = {"shop", "billing"}
    WorkflowTypes = {"order-v1", "order-v2"}
    ActivityTypes = {"charge"}
    Streams = {"states"}
    domain <- MCDomain
    toDeprecate <- MCDeprecate
    toRegister <- MCRegister
    Initially <- Deployed
    MaxFaults = 3
INVARIANTS
    TypeOK
    DoneIsMigrated
PROPERTIES
    MigratedStays
    MigrationConverges
CHECK_DEADLOCK FALSE
