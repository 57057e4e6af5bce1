SPECIFICATION MemorySpec
CONSTANTS
  Tenants = {n1, n2}
  Threads = {h1, h2}
  on = on
  off = off
  default = default
  Config = {on, default}
  Enabled = {on}
  ModeOf <- ModesOfThree
  EnvConfig = default
  NoTenant = NoTenant
  NoConfig = NoConfig
  NoFile = NoFile
  Torn = Torn
SYMMETRY ThreadSymmetry
INVARIANTS MemoryTypeOK DeletedStaysDeleted
PROPERTIES ConfigIsOwn
