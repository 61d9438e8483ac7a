\* Three threads and four handle values over the consistently tagged calls:
\* enough for two threads to hold handles while a third acquires two,
\* for a consumed value to be handed out again, and for a full table.
CONSTANTS
  Threads = {t1, t2, t3}
  HandleValues = {h1, h2, h3, h4}
  HandleInvalid = HandleInvalid
  NoThread = NoThread
  Calls <- TaggedCalls
SPECIFICATION Spec
INVARIANT TypeOK OwnershipExact
\* The process may end: once every thread has made a __NO_RETURN call
\* nothing is left to run.
CHECK_DEADLOCK FALSE
