SPECIFICATION FilesSpec
CONSTANTS
  host = host
  contact = contact
  small = small
  big = big
  bad = bad
  Type = {host, contact}
  Config = {small, big, bad}
  Pieces <- Sizes
  MaxFd = 3
  NONE = NONE
INVARIANTS
  NagiosCurrent
  TailStays
