\* Every public call of the header, the four with an untagged out handle
\* included: the bookkeeping may lose a handle, but a held handle is always
\* open and the process still implements ZxHoldings.
CONSTANTS
  Threads = {t1, t2, t3}
  HandleValues = {h1, h2, h3, h4}
  HandleInvalid = HandleInvalid
  NoThread = NoThread
  Calls <- HeaderCalls
SPECIFICATION Spec
INVARIANT HeldOpen
PROPERTY HoldingsRefined
\* The process may end: once every thread has made a __NO_RETURN call
\* nothing is left to run.
CHECK_DEADLOCK FALSE
