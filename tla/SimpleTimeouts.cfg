\* Three processes, three sends to one or two of them; timeouts may go wrong, and
\* what is then taken for a timestamp may be the least or almost the greatest.
CONSTANTS
  a = a
  b = b
  c = c
  a1 = a1
  a2 = a2
  b1 = b1
  c1 = c1
  default = default
  crash = crash
  Process = {a, b, c}
  Thread = {a1, a2, b1, c1}
  Tag = {default, crash}
  Home <- Homes
  SendTag <- SendTags
  RecvTag <- RecvTags
  Patient = {c1}
  Faults <- AllFaults
  NoTag = noTag
  AnyTag = anyTag
  NoThread = noThread
  ULONG_MAX = 15
  Unwritten = {0, 14, 15}
  MAX_SENDS <- OnceEach
SPECIFICATION Spec
INVARIANTS TypeOK AstrayOnlyAfterTimeout MessagesAreWhole IndInv TimestampsDiffer
PROPERTIES ImplementsLogicalClock
