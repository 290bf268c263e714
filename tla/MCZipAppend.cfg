SPECIFICATION Spec
CONSTANTS
  Names = {n1, n2}
  Escaped = {}
  Contents = {10, 200}
  NoContent = NoContent
  BUFF_SIZE = 40960
  ZIP64_LIMIT = 1000000000
  UrnLength = 43
  MaxSessions = 2
  MaxFile = 12
  Crashes = FALSE
  SharedReader = FALSE
INVARIANT ReadBack
