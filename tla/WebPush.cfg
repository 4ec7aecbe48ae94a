\* Two accounts, two browsers, two daemons of two master keys, one request at a time.
CONSTANTS
  None = None
  Users = {a, v}
  Admins = {a}
  Endpoints = {p, q}
  Daemons = {d1, d2}
  Masters = {m1, m2}
  Sends = {b1}
  concurrency = 1
  MaxStarts = 3
  MaxSends = 1
SPECIFICATION Spec
INVARIANTS EveryDaemonSigns LiveBrowserKept
PROPERTIES DeliveryEnds
CHECK_DEADLOCK FALSE
