SPECIFICATION BaSpec
CONSTANTS
  Selections <- MCSelections
  Databases <- MCDatabases
  Unreliable <- MCUnreliable
  MaxMishaps = 2
INVARIANTS
  BuildAllDownloadsKexts
