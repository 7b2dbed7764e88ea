SPECIFICATION Spec
CONSTANTS
  Lines <- MCLines
  Unknown <- MCUnknown
  Bare <- MCBare
  Numeral <- MCNumeral
  UintRange = 65536
INVARIANTS SetupSafe FlagsAsGiven DscpReported
CHECK_DEADLOCK FALSE
