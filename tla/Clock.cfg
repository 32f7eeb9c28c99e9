\* Two processes, four threads: both main threads send once, the input thread twice.
CONSTANTS
  c = c
  m = m
  cMain = cMain
  cInput = cInput
  mMain = mMain
  mCrash = mCrash
  default = default
  crash = crash
  Process <- Processes
  Thread <- Threads
  Tag <- Tags
  Home <- Homes
  SendTag <- SendTags
  RecvTag <- RecvTags
  NoTag = noTag
  NoThread = noThread
  MAX_SENDS <- InputTwice
  KEEP_LOG = FALSE
SPECIFICATION Spec
INVARIANTS TypeOK PacketsAreStamped ProbedIsThere IndInv TimestampsDiffer
PROPERTIES ImplementsLogicalClock CallsReturn
