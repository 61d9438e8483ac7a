-------------------------- MODULE ZxCallSplitProofs --------------------------
(***************************************************************************)
(* Proofs about ZxCallSplit for every set of threads, handle values and    *)
(* contracts: the split process implements the atomic one, and so what    *)
(* is proved of ZxHandles holds of it.                                     *)
(***************************************************************************)
EXTENDS ZxCallSplit, ZxHandlesProofs

(* What stays true of a call in progress: the thread still runs, its      *)
(* arguments are still handles it holds or ZX_HANDLE_INVALID, a            *)
(* __NO_RETURN call still consumes everything it holds, and the handles    *)
(* resolved at entry are still open.                                       *)
PendingOK(t) ==
  /\ t \in alive
  /\ pending[t].ua \in [1..pending[t].c.use -> ArgChoices(t)]
  /\ pending[t].ra \in [1..pending[t].c.releaseAlways -> ArgChoices(t)]
  /\ pending[t].rl \in [1..pending[t].c.release -> ArgChoices(t)]
  /\ ExitsClean(t, pending[t].c, pending[t].ra, pending[t].rl)
  /\ pending[t].ok => LookedUp(pending[t].ua, pending[t].ra, pending[t].rl)

(* The inductive invariant.  PendingOK is preserved by another thread's    *)
(* return only because that return leaves the blocked thread's holdings    *)
(* alone (OthersUnchanged), which needs held handles to be open.           *)
SplitIInv ==
  /\ SplitTypeOK
  /\ HeldOpen
  /\ \A t \in Threads : pending[t] # Idle => PendingOK(t)

(* An argument that resolved to an open handle is not ZX_HANDLE_INVALID, *)
(* so it is one the thread holds.                                         *)
LEMMA ResolvedAreOwned ==
  ASSUME TypeOK, NEW u \in Threads, NEW f, Range(f) \subseteq valid,
         Range(f) \subseteq ArgChoices(u)
  PROVE  Range(f) \subseteq Owned(u)
BY ConstantsAssumption DEF TypeOK, ArgChoices

(* The arguments a call records range over what the thread may pass. *)
LEMMA RangeOfArgs ==
  ASSUME NEW S, NEW n \in Nat, NEW f \in [1..n -> S]
  PROVE  Range(f) \subseteq S
BY DEF Range

-----------------------------------------------------------------------------
(* A successful return is the atomic Succeed of the contract and arguments *)
(* recorded at entry.                                                      *)
LEMMA ReturnOkIsSucceed ==
  ASSUME SplitIInv, NEW t \in Threads, ReturnOk(t)
  PROVE  Succeed(t, pending[t].c)
<1>1. pending[t] \in PendingType /\ PendingOK(t)
  BY DEF ReturnOk, SplitIInv, SplitTypeOK
<1>2. pending[t].ok
  BY DEF ReturnOk, EntryChecked
<1>3. LookedUp(pending[t].ua, pending[t].ra, pending[t].rl)
  BY <1>1, <1>2 DEF PendingOK
<1>4. QED
  BY <1>1, <1>3 DEF ReturnOk, Succeed, PendingOK, LookedUp

(* A failed return is the atomic Fail of the same call. *)
LEMMA ReturnFailIsFail ==
  ASSUME SplitIInv, NEW t \in Threads, ReturnFail(t)
  PROVE  Fail(t, pending[t].c)
<1>1. pending[t] \in PendingType /\ PendingOK(t)
  BY DEF ReturnFail, SplitIInv, SplitTypeOK
<1>2. QED
  BY <1>1 DEF ReturnFail, Fail, PendingOK

(* Every split step is a step of ZxHandles or leaves its state alone. *)
LEMMA SplitStepIsAtomic ==
  ASSUME SplitIInv, [SplitNext]_svars
  PROVE  [Next]_vars
<1>1. ASSUME NEW t \in Threads, NEW c \in Calls, Enter(t, c)
      PROVE  UNCHANGED vars
  BY <1>1 DEF Enter, vars
<1>2. ASSUME NEW t \in Threads, ReturnOk(t) PROVE Next
  <2>1. pending[t].c \in Calls
    BY <1>2 DEF ReturnOk, SplitIInv, SplitTypeOK, PendingType
  <2>2. QED
    BY <1>2, <2>1, ReturnOkIsSucceed DEF Next
<1>3. ASSUME NEW t \in Threads, ReturnFail(t) PROVE Next
  <2>1. pending[t].c \in Calls
    BY <1>3 DEF ReturnFail, SplitIInv, SplitTypeOK, PendingType
  <2>2. QED
    BY <1>3, <2>1, ReturnFailIsFail DEF Next
<1>4. CASE UNCHANGED svars
  BY <1>4 DEF svars, vars
<1>5. QED
  BY <1>1, <1>2, <1>3, <1>4 DEF SplitNext

-----------------------------------------------------------------------------
(* Another thread's return leaves a blocked thread's call in order: its    *)
(* holdings are unchanged, so its arguments are still its own, and held    *)
(* handles being open, those resolved at entry are still open.             *)
LEMMA OtherReturnKeepsPending ==
  ASSUME SplitIInv, HeldOpen', NEW t \in Threads, ReturnOk(t) \/ ReturnFail(t),
         NEW u \in Threads \ {t}, pending[u] # Idle
  PROVE  PendingOK(u)'
<1>1. pending[t].c \in Calls
  BY DEF ReturnOk, ReturnFail, SplitIInv, SplitTypeOK, PendingType
<1>2. Succeed(t, pending[t].c) \/ Fail(t, pending[t].c)
  BY ReturnOkIsSucceed, ReturnFailIsFail
<1>3. Owned(u)' = Owned(u)
  BY <1>1, <1>2, OthersUnchanged DEF Owned, SplitIInv, SplitTypeOK
<1>4. ArgChoices(u)' = ArgChoices(u)
  BY <1>3 DEF ArgChoices
<1>5. pending'[u] = pending[u]
  BY DEF ReturnOk, ReturnFail, SplitIInv, SplitTypeOK
<1>6. u \in alive'
  BY DEF ReturnOk, ReturnFail, AliveAfter, SplitIInv, PendingOK
<1>7. pending[u].ok => LookedUp(pending[u].ua, pending[u].ra, pending[u].rl)'
  <2>1. SUFFICES ASSUME pending[u].ok
                 PROVE  LookedUp(pending[u].ua, pending[u].ra, pending[u].rl)'
    OBVIOUS
  <2>2. /\ Range(pending[u].ua) \subseteq Owned(u)
        /\ Range(pending[u].ra) \subseteq Owned(u)
        /\ Range(pending[u].rl) \subseteq Owned(u)
    <3>1. pending[u] \in PendingType /\ PendingOK(u) /\ TypeOK
      BY DEF SplitIInv, SplitTypeOK
    <3>2. pending[u].c \in Calls
      BY <3>1 DEF PendingType
    <3>3. /\ pending[u].c.use \in Nat /\ pending[u].c.releaseAlways \in Nat
          /\ pending[u].c.release \in Nat
      BY <3>2, ContractFields
    <3>4. /\ Range(pending[u].ua) \subseteq ArgChoices(u)
          /\ Range(pending[u].ra) \subseteq ArgChoices(u)
          /\ Range(pending[u].rl) \subseteq ArgChoices(u)
      BY <3>1, <3>3, RangeOfArgs DEF PendingOK
    <3>5. /\ Range(pending[u].ua) \subseteq valid
          /\ Range(pending[u].ra) \subseteq valid
          /\ Range(pending[u].rl) \subseteq valid
      BY <3>1, <2>1 DEF PendingOK, LookedUp, UsedOpen, ReleasedOpen
    <3>6. QED
      BY <3>1, <3>4, <3>5, ResolvedAreOwned
  <2>3. Owned(u)' \subseteq valid'
    BY ConstantsAssumption DEF HeldOpen, Owned
  <2>4. QED
    BY <2>2, <2>3, <1>3, <1>5 DEF LookedUp, UsedOpen, ReleasedOpen
<1>8. QED
  BY <1>3, <1>4, <1>5, <1>6, <1>7 DEF PendingOK, ExitsClean, SplitIInv

(* Entry, returns and stutters preserve the inductive invariant. *)
LEMMA SplitIInvStep == SplitIInv /\ [SplitNext]_svars => SplitIInv'
<1> SUFFICES ASSUME SplitIInv, [SplitNext]_svars PROVE SplitIInv'
  OBVIOUS
<1>1. [Next]_vars
  BY SplitStepIsAtomic
<1>2. TypeOK' /\ HeldOpen'
  BY <1>1, TypeStep, HeldOpenStep DEF SplitIInv, SplitTypeOK
<1>3. ASSUME NEW t \in Threads, NEW c \in Calls, Enter(t, c) PROVE SplitIInv'
  <2>1. PICK ua \in [1..c.use -> ArgChoices(t)],
             ra \in [1..c.releaseAlways -> ArgChoices(t)],
             rl \in [1..c.release -> ArgChoices(t)] :
          /\ ExitsClean(t, c, ra, rl)
          /\ pending' = [pending EXCEPT ![t] =
                           [c |-> c, ua |-> ua, ra |-> ra, rl |-> rl,
                            ok |-> LookedUp(ua, ra, rl)]]
    BY <1>3 DEF Enter
  <2>2. c.use \in Nat /\ c.releaseAlways \in Nat /\ c.release \in Nat
    BY ContractFields
  <2>3. ArgChoices(t) \subseteq HandleValues \cup {HandleInvalid}
    BY DEF ArgChoices, Owned
  <2>4. /\ ua \in [1..c.use -> HandleValues \cup {HandleInvalid}]
        /\ ra \in [1..c.releaseAlways -> HandleValues \cup {HandleInvalid}]
        /\ rl \in [1..c.release -> HandleValues \cup {HandleInvalid}]
    BY <2>3
  <2>9. ua \in Args /\ ra \in Args /\ rl \in Args
    BY <2>2, <2>4 DEF Args
  <2>10. [c |-> c, ua |-> ua, ra |-> ra, rl |-> rl, ok |-> LookedUp(ua, ra, rl)]
           \in PendingType
    BY <2>9 DEF PendingType, LookedUp, UsedOpen, ReleasedOpen
  <2>5. pending' \in [Threads -> PendingType \cup {Idle}]
    BY <2>1, <2>10 DEF SplitIInv, SplitTypeOK
  <2>6. UNCHANGED <<alive, valid, owner>>
    BY <1>3 DEF Enter
  <2>7. ASSUME NEW u \in Threads, pending'[u] # Idle PROVE PendingOK(u)'
    <3>1. CASE u = t
      <4>1. pending'[t] = [c |-> c, ua |-> ua, ra |-> ra, rl |-> rl,
                           ok |-> LookedUp(ua, ra, rl)]
        BY <2>1 DEF SplitIInv, SplitTypeOK
      <4>2. t \in alive
        BY <1>3 DEF Enter, CanCall
      <4>3. ArgChoices(t)' = ArgChoices(t) /\ Owned(t)' = Owned(t)
        BY <2>6 DEF ArgChoices, Owned
      <4>4. LookedUp(ua, ra, rl)' = LookedUp(ua, ra, rl)
        BY <2>6 DEF LookedUp, UsedOpen, ReleasedOpen
      <4>5. QED
        BY <3>1, <2>1, <4>1, <4>2, <4>3, <4>4, <2>6 DEF PendingOK, ExitsClean
    <3>2. CASE u # t
      BY <3>2, <2>1, <2>6, <2>7 DEF SplitIInv, SplitTypeOK, PendingOK, ArgChoices,
         Owned, ExitsClean, LookedUp, UsedOpen, ReleasedOpen
    <3>3. QED
      BY <3>1, <3>2
  <2>8. QED
    BY <1>2, <2>5, <2>7 DEF SplitIInv, SplitTypeOK
<1>4. ASSUME NEW t \in Threads, ReturnOk(t) \/ ReturnFail(t) PROVE SplitIInv'
  <2>1. pending' = [pending EXCEPT ![t] = Idle]
    BY <1>4 DEF ReturnOk, ReturnFail
  <2>2. pending' \in [Threads -> PendingType \cup {Idle}]
    BY <2>1 DEF SplitIInv, SplitTypeOK
  <2>3. ASSUME NEW u \in Threads, pending'[u] # Idle PROVE PendingOK(u)'
    <3>1. u # t /\ pending[u] # Idle
      BY <2>1, <2>3 DEF SplitIInv, SplitTypeOK
    <3>2. QED
      BY <3>1, <1>2, <1>4, OtherReturnKeepsPending
  <2>4. QED
    BY <1>2, <2>2, <2>3 DEF SplitIInv, SplitTypeOK
<1>5. CASE UNCHANGED svars
  BY <1>5 DEF svars, SplitIInv, SplitTypeOK, TypeOK, HeldOpen, PendingOK,
     ArgChoices, Owned, ExitsClean, LookedUp, UsedOpen, ReleasedOpen
<1>6. QED
  BY <1>3, <1>4, <1>5 DEF SplitNext

(* The split process implements the atomic one: every behaviour in which  *)
(* threads are preempted inside calls, or block in them until a deadline, *)
(* is a behaviour of ZxHandles, so its theorems hold of it.                *)
THEOREM AtomicCallsRefinement == SplitSpec => AtomicCallsRefined
<1>1. SplitInit => Init
  BY DEF SplitInit
<1>2. SplitInit => SplitIInv
  BY DEF SplitInit, Init, SplitIInv, SplitTypeOK, TypeOK, HeldOpen
<1>3. SplitSpec => []SplitIInv
  BY <1>2, SplitIInvStep, PTL DEF SplitSpec
<1>4. SplitIInv /\ [SplitNext]_svars => [Next]_vars
  BY SplitStepIsAtomic
<1>5. QED
  BY <1>1, <1>3, <1>4, PTL DEF SplitSpec, AtomicCallsRefined, Spec

-----------------------------------------------------------------------------
(* The interleaved process keeps the abstract ownership promise: a call,   *)
(* however long it blocks, changes only its caller's holdings and gains    *)
(* only handles no other thread holds.                                     *)
THEOREM SplitHoldingsRefinement == SplitSpec => HoldingsRefined
BY AtomicCallsRefinement, HoldingsRefinement DEF AtomicCallsRefined

(* When every out handle is tagged, the bookkeeping equals the kernel's    *)
(* table in the interleaved process too, in every state, calls in progress *)
(* included.                                                               *)
THEOREM SplitBookkeepingExact ==
  ASSUME AcquireTagsComplete
  PROVE  SplitSpec => []OwnershipExact
BY AtomicCallsRefinement, BookkeepingExact DEF AtomicCallsRefined

=============================================================================
