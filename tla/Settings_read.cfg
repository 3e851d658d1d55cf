SPECIFICATION ReadSpec
CONSTANTS
  file = file
  verbose = verbose
  f = f
  vb = vb
  other = other
  x = x
  y = y
  web = web
  Web = Web
  db = db
  host = host
  d = d
  Name = {file, f, verbose, vb, other}
  OptStr <- OptStrs
  Arg <- Args
  Var = {file, verbose}
  FileVar = file
  MaxArgs = 3
  MaxCalls = 2
  Line <- FileLines
  Fold <- FoldCase
  Quote <- Q
  Escape <- B
  MaxLines = 4
  NONE = NONE
  Unnamed = NONE
INVARIANTS
  ParsedAsMeant
  NestedAsWritten
\* After a crash nothing more happens.
CHECK_DEADLOCK FALSE
