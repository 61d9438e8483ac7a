\* Two threads, one inside a call while the other calls, enters or returns,
\* and three handle values, over every public call of the header: enough
\* for the other thread to close its handles, acquire two values and have a
\* value reused while the first is blocked.
CONSTANTS
  Threads = {t1, t2}
  HandleValues = {h1, h2, h3}
  HandleInvalid = HandleInvalid
  NoThread = NoThread
  Idle = Idle
  Calls <- SplitCalls
SPECIFICATION SplitSpec
PROPERTY AtomicCallsRefined
\* The process may end: once every thread has made a __NO_RETURN call
\* nothing is left to run.
CHECK_DEADLOCK FALSE
