\* Every public call of the header, the four whose out handle carries no
\* handle_acquire tag included: the tag-driven bookkeeping loses a handle.
CONSTANTS
  Threads = {t1, t2, t3}
  HandleValues = {h1, h2, h3, h4}
  HandleInvalid = HandleInvalid
  NoThread = NoThread
  Calls <- HeaderCalls
SPECIFICATION Spec
INVARIANT OwnershipExact
CHECK_DEADLOCK FALSE
