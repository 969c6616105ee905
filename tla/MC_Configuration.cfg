CONSTANTS
    EnvPort <- MCEnvPort
    EnvMetricsPort <- MCEnvMetricsPort
    EnvCacheSize <- MCEnvCacheSize
    EnvMetrics <- MCEnvMetrics
    EnvProxies <- MCEnvProxies
    FlagPort <- MCFlagPort
    Absent = Absent
    ParseError = ParseError
    Panic = Panic
SPECIFICATION Spec
INVARIANTS
    TypeOK
    ServesConfiguredPort
    PanicsOnlyOnInvalidSetting
PROPERTIES
    ServesWhenConfigValid
CHECK_DEADLOCK FALSE
