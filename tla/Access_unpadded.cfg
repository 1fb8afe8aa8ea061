SPECIFICATION Spec
CONSTANTS
    OutputSize = 9
    FieldSize = 4
    MaxLost = 0
    DefaultUser <- MCDefaultUser
    Chars = {"a", "b", "*", "?"}
    Cases <- AuthCases
INVARIANTS AccountsAdmitted
