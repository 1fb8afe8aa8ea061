SPECIFICATION Spec
CONSTANTS
    CommandLines <- MCCommandLines
    ConfigFiles <- MCConfigFiles
    MaxStarts = 1
    MaxFaults = 1
    MaxTouches = 1
    NULL = NULL
INVARIANTS CommandLineWins
