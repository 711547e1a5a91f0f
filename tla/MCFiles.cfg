CONSTANTS
  Processes = {p1, p2}
  Entries = {e1, e2}
  Secrets = {s1, s2}
  MaxSize = 2
SPECIFICATION Spec
SYMMETRY Symmetry
INVARIANTS
  TypeOK
  LastSaveIsThere
  KeepsCredentials
PROPERTIES
  TemplateSparesTheSeen
