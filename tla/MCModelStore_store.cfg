SPECIFICATION Spec
CONSTANTS
  Names = {a, b}
  Jobs = {j1, j2}
  MaxId = 3
SYMMETRY Sym
INVARIANTS StoreTypeOK RowsAreWhole SetupStored
PROPERTY RowOutlivesFile
