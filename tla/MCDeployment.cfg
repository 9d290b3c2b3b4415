SPECIFICATION FairSpec
CONSTANTS
    Migrator = {m1}
    Process = {p1}
    Config <- MCConfig
    NoConfig = NoConfig
INVARIANTS
    TypeOK
    SchemaMatchesRevision
    ScriptsApply
    DriftExplained
    UsableSettings
PROPERTIES
    ServesAgain
