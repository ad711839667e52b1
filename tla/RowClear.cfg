\* Every board of this size: rows filled next to each other, apart, at the
\* top and at the bottom.
CONSTANTS
  W = 2
  H = 5
SPECIFICATION Spec
INVARIANTS TypeOK HeapOK RowsNotStale ClearsAsStated
PROPERTIES Terminates
