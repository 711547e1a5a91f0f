CONSTANTS
  Names = {"a", "b"}
  Sheets <- MCSheets
  MaxConversions = 2
SPECIFICATION Spec
INVARIANTS
  TypeOK
  ValidConverts
  NoRowLost
  AllIsLast
  StrictVersusDeployment
