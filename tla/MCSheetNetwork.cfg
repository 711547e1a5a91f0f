CONSTANTS
  Names = {"a", "b"}
  Sheets <- MCSheets
  MaxConversions = 2
SPECIFICATION Spec
INVARIANT
  SheetNetworkChecked
