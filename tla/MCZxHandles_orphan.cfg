\* zx_futex_wake_handle_close_thread_exit consumes its handle only on
\* success (handle_release) but never returns: a failed call strands it.
CONSTANTS
  Threads = {t1, t2, t3}
  HandleValues = {h1, h2, h3, h4}
  HandleInvalid = HandleInvalid
  NoThread = NoThread
  Calls <- TaggedCalls
SPECIFICATION Spec
INVARIANT NoOrphan
CHECK_DEADLOCK FALSE
