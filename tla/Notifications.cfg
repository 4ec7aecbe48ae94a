\* One task and its channels; a store error. Three requests, two of them at a time, or
\* an event and two requests beside it.
CONSTANTS
  None = None
  Secrets = {k1}
  Connections = {x1}
  Storages = {y1}
  Tasks = {t1}
  Names = {a, b}
  MaxChannel = 2
  Clients = {c1, c2}
  Events = {e1}
  Loads <- EitherLoad
  MaxRequests = 3
  MaxFaults = 1
SPECIFICATION Spec
INVARIANTS NoTaskLeftBehind RowsAreUsable WantedIsAccounted
SYMMETRY Interchangeable
CHECK_DEADLOCK FALSE
