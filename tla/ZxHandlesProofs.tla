--------------------------- MODULE ZxHandlesProofs ---------------------------
(***************************************************************************)
(* Proofs about ZxHandles for every set of threads, handle values and      *)
(* contracts: the type invariant, and that the tag-driven bookkeeping      *)
(* agrees with the kernel's handle table whenever every call's             *)
(* handle_acquire tags cover the handles it writes back.                   *)
(***************************************************************************)
EXTENDS ZxHandles, TLAPS

(* The hypothesis under which the bookkeeping is exact: no call writes back *)
(* a handle without a handle_acquire tag.                                   *)
AcquireTagsComplete == \A c \in Calls : c.acquire = c.outs

(* The shape of a contract's fields. *)
LEMMA ContractFields ==
  ASSUME NEW c \in Calls
  PROVE  /\ c.use \in Nat /\ c.releaseAlways \in Nat /\ c.release \in Nat
         /\ c.acquire \in Nat /\ c.outs \in Nat /\ c.noReturn \in BOOLEAN
BY ConstantsAssumption DEF ContractType

(* What the caller's bookkeeping gives a handle value on return: the       *)
(* calling thread for a tagged out value, no one for a dropped one, and    *)
(* the old holder otherwise.                                               *)
LEMMA RecordedAt ==
  ASSUME NEW t, NEW c, NEW out, NEW dropped, NEW h \in HandleValues
  PROVE  /\ (\E i \in 1..c.acquire : out[i] = h) =>
              Recorded(t, c, out, dropped)[h] = t
         /\ ~(\E i \in 1..c.acquire : out[i] = h) /\ h \in dropped =>
              Recorded(t, c, out, dropped)[h] = NoThread
         /\ ~(\E i \in 1..c.acquire : out[i] = h) /\ h \notin dropped =>
              Recorded(t, c, out, dropped)[h] = owner[h]
BY DEF Recorded

-----------------------------------------------------------------------------
(* A call of any contract, by any thread, succeeding or failing, keeps   *)
(* the state well typed.                                                  *)
LEMMA TypeStep == TypeOK /\ [Next]_vars => TypeOK'
<1> SUFFICES ASSUME TypeOK, [Next]_vars PROVE TypeOK'
  OBVIOUS
<1>1. ASSUME NEW t \in Threads, NEW c \in Calls, Succeed(t, c)
      PROVE  TypeOK'
  <2>1. PICK ua \in [1..c.use -> ArgChoices(t)],
             ra \in [1..c.releaseAlways -> ArgChoices(t)],
             rl \in [1..c.release -> ArgChoices(t)] :
          /\ \E out \in Injection(1..c.outs, FreeAfter(Range(ra) \cup Range(rl))) :
               /\ valid' = (valid \ (Range(ra) \cup Range(rl))) \cup Range(out)
               /\ owner' = Recorded(t, c, out, ClientDropsOnSuccess(ra, rl))
          /\ alive' = AliveAfter(t, c)
    BY <1>1 DEF Succeed
  <2>2. PICK out \in Injection(1..c.outs, FreeAfter(Range(ra) \cup Range(rl))) :
               /\ valid' = (valid \ (Range(ra) \cup Range(rl))) \cup Range(out)
               /\ owner' = Recorded(t, c, out, ClientDropsOnSuccess(ra, rl))
    BY <2>1
  <2>3. Range(out) \subseteq HandleValues
    BY <2>2 DEF Injection, FreeAfter, Range
  <2>4. alive' \subseteq Threads
    BY <2>1 DEF AliveAfter, TypeOK
  <2>5. owner' \in [HandleValues -> Threads \cup {NoThread}]
    BY <2>2 DEF Recorded, TypeOK
  <2>6. QED
    BY <2>2, <2>3, <2>4, <2>5 DEF TypeOK
<1>2. ASSUME NEW t \in Threads, NEW c \in Calls, Fail(t, c)
      PROVE  TypeOK'
  BY <1>2 DEF Fail, TypeOK, AliveAfter, KernelClosedAlways
<1>3. CASE UNCHANGED vars
  BY <1>3 DEF vars, TypeOK
<1>4. QED
  BY <1>1, <1>2, <1>3 DEF Next

(* Every state of the specification is well typed: the kernel's table      *)
(* holds only handle values, the bookkeeping names a thread or no one.     *)
THEOREM TypeCorrect == Spec => []TypeOK
<1>1. Init => TypeOK
  BY DEF Init, TypeOK
<1>2. QED
  BY <1>1, TypeStep, PTL DEF Spec

-----------------------------------------------------------------------------
(* The inductive invariant: OwnershipExact is preserved only in well-typed *)
(* states, since a step reasons about owner[h] for every handle value.     *)
IInv == TypeOK /\ OwnershipExact

(* When every call's handle_acquire tags cover the handles it writes back, *)
(* the caller's tag-driven bookkeeping and the kernel's handle table agree *)
(* in every state, whatever threads interleave and whichever calls fail:   *)
(* handle_release_always, handle_release and handle_acquire are consistent *)
(* with each other.                                                        *)
THEOREM BookkeepingExact ==
  ASSUME AcquireTagsComplete
  PROVE  Spec => []OwnershipExact
<1>1. Init => IInv
  BY DEF Init, IInv, TypeOK, OwnershipExact
<1>2. IInv /\ [Next]_vars => IInv'
  <2> SUFFICES ASSUME IInv, [Next]_vars PROVE IInv'
    OBVIOUS
  <2>0. TypeOK'
    BY TypeStep DEF IInv
  <2>1. ASSUME NEW t \in Threads, NEW c \in Calls, Succeed(t, c)
        PROVE  OwnershipExact'
    <3>1. PICK ua \in [1..c.use -> ArgChoices(t)],
               ra \in [1..c.releaseAlways -> ArgChoices(t)],
               rl \in [1..c.release -> ArgChoices(t)] :
            \E out \in Injection(1..c.outs, FreeAfter(Range(ra) \cup Range(rl))) :
              /\ valid' = (valid \ (Range(ra) \cup Range(rl))) \cup Range(out)
              /\ owner' = Recorded(t, c, out, ClientDropsOnSuccess(ra, rl))
      BY <2>1 DEF Succeed
    <3>2. PICK out \in Injection(1..c.outs, FreeAfter(Range(ra) \cup Range(rl))) :
              /\ valid' = (valid \ (Range(ra) \cup Range(rl))) \cup Range(out)
              /\ owner' = Recorded(t, c, out, ClientDropsOnSuccess(ra, rl))
      BY <3>1
    <3>3. c.acquire = c.outs /\ c.outs \in Nat
      BY ContractFields DEF AcquireTagsComplete
    <3>4. out \in [1..c.outs -> HandleValues]
      BY <3>2 DEF Injection, FreeAfter
    <3>5. ASSUME NEW h \in HandleValues PROVE (h \in valid' <=> owner'[h] # NoThread)
      <4>1. CASE h \in Range(out)
        BY <4>1, <3>2, <3>3, <3>4, ConstantsAssumption, RecordedAt DEF Range
      <4>2. CASE h \notin Range(out) /\ h \in Range(ra) \cup Range(rl)
        BY <4>2, <3>2, <3>3, <3>4, RecordedAt DEF Range, ClientDropsOnSuccess
      <4>3. CASE h \notin Range(out) /\ h \notin Range(ra) \cup Range(rl)
        BY <4>3, <3>2, <3>3, <3>4, RecordedAt DEF Range, ClientDropsOnSuccess,
           IInv, OwnershipExact
      <4>4. QED
        BY <4>1, <4>2, <4>3
    <3>6. QED
      BY <3>5 DEF OwnershipExact
  <2>2. ASSUME NEW t \in Threads, NEW c \in Calls, Fail(t, c)
        PROVE  OwnershipExact'
    BY <2>2 DEF Fail, ClientDropsOnFailure, KernelClosedAlways, IInv, TypeOK,
       OwnershipExact
  <2>3. CASE UNCHANGED vars
    BY <2>0, <2>3 DEF vars, IInv, OwnershipExact
  <2>4. QED
    BY <2>0, <2>1, <2>2, <2>3 DEF Next, IInv
<1>3. QED
  BY <1>1, <1>2, PTL DEF Spec, IInv

-----------------------------------------------------------------------------
(* A handle some thread holds is open, for every call of the header: a      *)
(* held handle becomes closed only as an argument the call consumes, and    *)
(* the caller drops exactly those (handle_release_always always,            *)
(* handle_release on success).  No tag hypothesis is needed: an untagged    *)
(* out handle is open and held by no one.                                   *)
LEMMA HeldOpenStep == TypeOK /\ HeldOpen /\ [Next]_vars => HeldOpen'
<1> SUFFICES ASSUME TypeOK, HeldOpen, [Next]_vars PROVE HeldOpen'
  OBVIOUS
<1>1. ASSUME NEW t \in Threads, NEW c \in Calls, Succeed(t, c)
      PROVE  HeldOpen'
  <2>1. PICK ua \in [1..c.use -> ArgChoices(t)],
             ra \in [1..c.releaseAlways -> ArgChoices(t)],
             rl \in [1..c.release -> ArgChoices(t)] :
          \E out \in Injection(1..c.outs, FreeAfter(Range(ra) \cup Range(rl))) :
            /\ valid' = (valid \ (Range(ra) \cup Range(rl))) \cup Range(out)
            /\ owner' = Recorded(t, c, out, ClientDropsOnSuccess(ra, rl))
    BY <1>1 DEF Succeed
  <2>2. PICK out \in Injection(1..c.outs, FreeAfter(Range(ra) \cup Range(rl))) :
            /\ valid' = (valid \ (Range(ra) \cup Range(rl))) \cup Range(out)
            /\ owner' = Recorded(t, c, out, ClientDropsOnSuccess(ra, rl))
    BY <2>1
  <2>3. c.acquire <= c.outs /\ c.acquire \in Nat /\ c.outs \in Nat
    BY ContractFields, ConstantsAssumption
  <2>4. out \in [1..c.outs -> HandleValues]
    BY <2>2 DEF Injection, FreeAfter
  <2>5. ASSUME NEW h \in HandleValues, owner'[h] # NoThread PROVE h \in valid'
    <3>1. CASE \E i \in 1..c.acquire : out[i] = h
      BY <3>1, <2>2, <2>3, <2>4 DEF Range
    <3>2. CASE ~\E i \in 1..c.acquire : out[i] = h
      <4>1. h \notin Range(ra) \cup Range(rl) /\ owner[h] # NoThread
        BY <3>2, <2>2, <2>5, RecordedAt DEF ClientDropsOnSuccess
      <4>2. QED
        BY <4>1, <2>2 DEF HeldOpen
    <3>3. QED
      BY <3>1, <3>2
  <2>6. QED
    BY <2>5 DEF HeldOpen
<1>2. ASSUME NEW t \in Threads, NEW c \in Calls, Fail(t, c)
      PROVE  HeldOpen'
  BY <1>2 DEF Fail, ClientDropsOnFailure, KernelClosedAlways, HeldOpen
<1>3. CASE UNCHANGED vars
  BY <1>3 DEF vars, HeldOpen
<1>4. QED
  BY <1>1, <1>2, <1>3 DEF Next

(* Every handle a thread holds is open, whichever calls of the header the  *)
(* threads make and however they fail: the bookkeeping may miss a handle   *)
(* (an untagged out parameter) but never keeps one the kernel closed.      *)
THEOREM HeldHandlesOpen == Spec => []HeldOpen
<1>1. Init => HeldOpen
  BY DEF Init, HeldOpen
<1>2. QED
  BY <1>1, HeldOpenStep, TypeCorrect, PTL DEF Spec

-----------------------------------------------------------------------------
(* A call by t changes no other thread's holdings: it drops only handles   *)
(* t passed, which are t's, and the values it writes back are closed or    *)
(* were consumed by the call, so, held handles being open, they were no     *)
(* other thread's.                                                          *)
LEMMA OthersUnchanged ==
  ASSUME TypeOK, HeldOpen, NEW t \in Threads, NEW c \in Calls,
         Succeed(t, c) \/ Fail(t, c),
         NEW u \in Threads \ {t}, NEW h \in HandleValues
  PROVE  owner'[h] = u <=> owner[h] = u
<1>1. CASE Succeed(t, c)
  <2>1. PICK ua \in [1..c.use -> ArgChoices(t)],
             ra \in [1..c.releaseAlways -> ArgChoices(t)],
             rl \in [1..c.release -> ArgChoices(t)] :
          \E out \in Injection(1..c.outs, FreeAfter(Range(ra) \cup Range(rl))) :
            owner' = Recorded(t, c, out, ClientDropsOnSuccess(ra, rl))
    BY <1>1 DEF Succeed
  <2>2. PICK out \in Injection(1..c.outs, FreeAfter(Range(ra) \cup Range(rl))) :
            owner' = Recorded(t, c, out, ClientDropsOnSuccess(ra, rl))
    BY <2>1
  <2>3. c.acquire <= c.outs /\ c.acquire \in Nat /\ c.outs \in Nat
    BY ContractFields, ConstantsAssumption
  <2>4. out \in [1..c.outs -> HandleValues \ (valid \ (Range(ra) \cup Range(rl)))]
    BY <2>2 DEF Injection, FreeAfter
  <2>5. h \in Range(ra) \cup Range(rl) => owner[h] = t
    BY ConstantsAssumption DEF Range, ArgChoices, Owned
  <2>6. CASE \E i \in 1..c.acquire : out[i] = h
    <3>1. h \notin valid \/ h \in Range(ra) \cup Range(rl)
      BY <2>6, <2>3, <2>4
    <3>2. owner[h] # u
      BY <3>1, <2>5, ConstantsAssumption DEF HeldOpen, TypeOK
    <3>3. QED
      BY <2>6, <2>2, <3>2, RecordedAt
  <2>7. CASE ~\E i \in 1..c.acquire : out[i] = h
    BY <2>7, <2>2, <2>5, ConstantsAssumption, RecordedAt DEF ClientDropsOnSuccess
  <2>8. QED
    BY <2>6, <2>7
<1>2. CASE Fail(t, c)
  <2>1. PICK ua \in [1..c.use -> ArgChoices(t)],
             ra \in [1..c.releaseAlways -> ArgChoices(t)],
             rl \in [1..c.release -> ArgChoices(t)] :
          owner' = [g \in HandleValues |->
                      IF g \in ClientDropsOnFailure(ra, rl) THEN NoThread
                      ELSE owner[g]]
    BY <1>2 DEF Fail
  <2>2. h \in Range(ra) => owner[h] = t
    BY ConstantsAssumption DEF Range, ArgChoices, Owned
  <2>3. QED
    BY <2>1, <2>2, ConstantsAssumption DEF ClientDropsOnFailure
<1>3. QED
  BY <1>1, <1>2

(* The refinement step: every call is a ZxHoldings call of the same       *)
(* thread, the holdings it ends with being new; any other step stutters.  *)
LEMMA HoldingsStep ==
  TypeOK /\ HeldOpen /\ [Next]_vars => [H!Next]_(H!hvars)
<1> SUFFICES ASSUME TypeOK, HeldOpen, [Next]_vars PROVE [H!Next]_(H!hvars)
  OBVIOUS
<1>1. ASSUME NEW t \in Threads, NEW c \in Calls, Succeed(t, c) \/ Fail(t, c)
      PROVE  H!Call(t)
  <2>1. t \in alive /\ alive' \in {alive, alive \ {t}}
    BY <1>1 DEF Succeed, Fail, AliveAfter
  <2>2. \A u \in Threads \ {t} : Owned(u)' = Owned(u)
    BY <1>1, OthersUnchanged DEF Owned
  <2>3. owner' \in [HandleValues -> Threads \cup {NoThread}]
    BY <1>1, TypeStep DEF Next, TypeOK
  <2>4. Owned(t)' \subseteq HandleValues \ UNION {Owned(u) : u \in Threads \ {t}}
    BY <2>2, <2>3 DEF Owned
  <2>5. [u \in Threads |-> Owned(u)]' =
          [[u \in Threads |-> Owned(u)] EXCEPT ![t] = {} \cup Owned(t)']
    BY <2>2
  <2>6. H!HeldByOthers(t) = UNION {Owned(u) : u \in Threads \ {t}}
    BY DEF H!HeldByOthers
  <2>7. /\ {} \in SUBSET [u \in Threads |-> Owned(u)][t]
        /\ Owned(t)' \in SUBSET (HandleValues \ H!HeldByOthers(t))
    BY <2>4, <2>6
  <2>8. QED
    BY <2>1, <2>5, <2>7 DEF H!Call
<1>2. CASE UNCHANGED vars
  BY <1>2 DEF vars, H!hvars, Owned
<1>3. QED
  BY <1>1, <1>2 DEF Next, H!Next

(* ZxHandles implements ZxHoldings, for every call of the header and      *)
(* every set of threads and handle values: a call changes only the caller's *)
(* holdings, and what it gains no other thread holds.                      *)
THEOREM HoldingsRefinement == Spec => HoldingsRefined
<1>1. Init => H!Init
  BY DEF Init, H!Init, H!HeldByOthers, Owned
<1>2. QED
  BY <1>1, HoldingsStep, TypeCorrect, HeldHandlesOpen, PTL
     DEF Spec, HoldingsRefined, H!Spec

=============================================================================
