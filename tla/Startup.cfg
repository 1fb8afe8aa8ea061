SPECIFICATION Spec
CONSTANTS
    CommandLines <- MCCommandLines
    ConfigFiles <- MCConfigFiles
    MaxStarts = 3
    MaxFaults = 2
    MaxTouches = 2
    NULL = NULL
INVARIANTS FeaturesAsConfigured
PROPERTIES TlsOffHasCause GoodPairStays MissingIsRepaired
