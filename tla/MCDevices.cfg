CONSTANTS
  Clients = {c1, c2, c3}
  Batches <- MCBatches
  Slots = {0, 1, 2}
  Networks = {"lan", "dmz"}
  Isos = {"win", "linux"}
  MaxAdapters = 2
  Machines <- MCMachines
SPECIFICATION Spec
SYMMETRY Symmetry
INVARIANTS
  TypeOK
  ExtendMeansGrown
  AddMeansAdded
PROPERTIES
  OnlyTheNamedChanges
  MediumSticks
CHECK_DEADLOCK FALSE
