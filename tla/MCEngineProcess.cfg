SPECIFICATION FairSpec
CONSTANTS
    Null = Null
    MaxStringFieldLen = 3
    Instants <- MCInstants
    Format <- MCFormat
    LogIdents = {"engine", "loader", "root"}
    EnvConfigs <- MCEnvConfigs
    Environments <- MCEnvironments
    Components <- MCComponents
    Versions <- MCVersions
    EntitiesOf <- MCEntitiesOf
    Requests = {q1, q2}
    Inputs <- MCInputs
    RecordRunners = {"record"}
    CatalogKinds = {"set.row_count_positive"}
    RegisteredKinds = {"set.row_count_positive", "record.schema_conformance"}
    DrainTicks = 1
    WaitTicks = 2
    MaxBoots = 2
CONSTRAINT VarietyApart
INVARIANTS
    NoInternalError
    AcceptedTriggersRun
    IdentityInjective
    TablesBeforeWriters
    NoHandlerCut
    LongestPrefixWins
PROPERTY
    EngineStops
CHECK_DEADLOCK FALSE
