\* Three sessions on two names, one of which needs an escape; members that leave
\* the end record in the window and that push it out, a directory below and past
\* the 32 bit limit (lowered, as the header of the library foresees), a second
\* object that reads, and death at any write.
CONSTANTS
  Names = {n1, n2}
  Escaped = {n2}
  Contents = {10, 40782}
  NoContent = NoContent
  BUFF_SIZE = 40960
  ZIP64_LIMIT = 60000
  UrnLength = 43
  MaxSessions = 3
  MaxFile = 5
  Crashes = TRUE
  SharedReader = TRUE
SPECIFICATION Spec
INVARIANTS MembersPointAtRecords Listed FreshReadBack UrnKept
