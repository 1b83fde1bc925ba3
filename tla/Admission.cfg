\* A phone and a trunk that fail, in every order of requests and changes.
SPECIFICATION Spec
CONSTANTS
  Epoch = 2
  MaxTime = 5
  IPs = {t}
  MaxFailures = 2
  Window = 2
  BanTime = 1
  MaxBanTime = 2
  Users = {u}
  Numbers = {n}
  TrunkIPs = {t}
  CacheTTL = 1
  UnknownTTL = 1
  Timeout = 1
  Handlers = {h1, h2}
  Own = {}
  RegisterTime = 2
  MaxPassword = 2
  MaxEdits = 1
SYMMETRY Symmetry
INVARIANTS TypeOK
PROPERTIES KeepsPolicy RightPasswordSoonWorks NewNumberSoonWorks KnownTrunkStaysExempt
