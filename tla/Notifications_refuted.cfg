\* What comments say and the code does not do: a row created with a mask; a credential lost
\* to an edit that could not read it; a channel renamed between the copy of the task and the
\* list; a list that cannot be read; a test that takes too long. Each is violated; the
\* one to be shown is to stand without its comment mark.
CONSTANTS
  None = None
  Secrets = {k1}
  Connections = {x1}
  Storages = {y1}
  Tasks = {t1}
  Names = {a, b}
  MaxChannel = 2
  Clients = {c1}
  Events = {e1}
  Loads <- EventBeside
  MaxRequests = 2
  MaxFaults = 1
SPECIFICATION Spec
INVARIANT NoMaskIsStored
\* PROPERTY CredentialSurvivesEdit
\* INVARIANT RenamedIsTold
\* INVARIANT SystemEventLeavesTrace
\* INVARIANT TestLeavesTrace
SYMMETRY Interchangeable
CHECK_DEADLOCK FALSE
