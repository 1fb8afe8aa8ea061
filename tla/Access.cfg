SPECIFICATION Spec
CONSTANTS
    OutputSize = 9
    FieldSize = 4
    MaxLost = 1
    DefaultUser <- MCDefaultUser
    Chars = {"a", "b", "*", "?"}
    Cases <- MCCases
INVARIANTS MatchInvariant DecodedRight AdmittedRight
PROPERTIES Decided
