------------------------------ MODULE ZxHandles ------------------------------
(***************************************************************************)
(* A multi-threaded process making Zircon system calls, seen through the   *)
(* handle contracts that definitions.h declares for them.                  *)
(*                                                                         *)
(* Two views of the process's handles are kept side by side:               *)
(*   valid  the kernel's handle table: the handle values that are open,    *)
(*   owner  the caller's bookkeeping, derived from the parameter tags:     *)
(*          which thread's variables hold each handle.  A handle_acquire   *)
(*          out parameter becomes the calling thread's on success, a       *)
(*          handle_release_always argument stops being anyone's whatever   *)
(*          the status, a handle_release argument only on success.         *)
(* The kernel's side follows the C types: it writes back a handle for      *)
(* every single-handle out parameter, tagged or not.                       *)
(*                                                                         *)
(* A call is atomic with respect to the handle table, so threads           *)
(* interleave at call granularity.  Every call may fail for a reason the   *)
(* model does not track (a bad buffer, bad options, no memory); it fails   *)
(* anyway when an argument handle is not open.  A __NO_RETURN call ends    *)
(* the calling thread whatever its outcome.                                *)
(***************************************************************************)
EXTENDS Naturals, FiniteSets, Functions

CONSTANTS
  Threads,        \* the threads of the process
  HandleValues,   \* the handle values the kernel may hand out
  HandleInvalid,  \* ZX_HANDLE_INVALID: never an open handle
  NoThread,       \* owner of a handle no thread holds
  Calls           \* the handle contracts (ZxSyscalls!Contract) of the calls made

(* A contract: how many handles a call borrows, consumes always, consumes  *)
(* on success, acquires by tag, writes back by type, and whether it        *)
(* returns.                                                                *)
ContractType ==
  [use : Nat, releaseAlways : Nat, release : Nat, acquire : Nat,
   outs : Nat, noReturn : BOOLEAN]

ASSUME ConstantsAssumption ==
  /\ HandleInvalid \notin HandleValues
  /\ NoThread \notin Threads
  /\ Calls \subseteq ContractType
  /\ \A c \in Calls : c.acquire <= c.outs

VARIABLES
  alive,   \* the threads that have not made a __NO_RETURN call
  valid,   \* the kernel's handle table: the open handle values
  owner    \* the tag-driven bookkeeping: the thread holding each value

vars == <<alive, valid, owner>>

TypeOK ==
  /\ alive \subseteq Threads
  /\ valid \subseteq HandleValues
  /\ owner \in [HandleValues -> Threads \cup {NoThread}]

-----------------------------------------------------------------------------
(* The handles thread t holds. *)
Owned(t) == {h \in HandleValues : owner[h] = t}

(* What thread t passes as a handle argument: a handle it holds, or        *)
(* ZX_HANDLE_INVALID.  This is a discipline of the program, not of the     *)
(* header, which accepts any handle of the process from any thread: a      *)
(* handle shared between threads is outside this model.                    *)
ArgChoices(t) == Owned(t) \cup {HandleInvalid}

(* handle_use: the call fails unless every borrowed handle is open. *)
UsedOpen(ua) == Range(ua) \subseteq valid

(* handle_release_always: the kernel closes each open one, any outcome. *)
KernelClosedAlways(ra) == Range(ra) \cap valid

(* handle_release: consumed only by a call that succeeds, so it too must  *)
(* be open for the call to succeed.                                       *)
ReleasedOpen(rl) == Range(rl) \subseteq valid

(* Bug variants of FreeAfter: a kernel that writes back a value still     *)
(* open, or reports success with ZX_HANDLE_INVALID in an out parameter.   *)
FreeAfterNoCheck(closed) == HandleValues

FreeAfterWithInvalid(closed) ==
  (HandleValues \cup {HandleInvalid}) \ (valid \ closed)

(* The values the kernel may write back on success: any value not open    *)
(* once the consumed handles are closed (values are reused).              *)
FreeAfter(closed) == HandleValues \ (valid \ closed)

(* Bug variant: a caller that treats handle_release like                 *)
(* handle_release_always and forgets the handle when the call fails.      *)
ClientDropsOnFailureAlsoReleased(ra, rl) == Range(ra) \cup Range(rl)

(* Bug variant: a caller that assumes a failed call consumed nothing and   *)
(* keeps its handle_release_always arguments.                             *)
ClientDropsOnFailureNothing(ra, rl) == {}

(* The caller's bookkeeping on return, from the tags: consumed handles    *)
(* are dropped, the first c.acquire out values (the tagged ones) become   *)
(* t's.  An untagged out handle is written back but recorded nowhere.     *)
ClientDropsOnFailure(ra, rl) == Range(ra)

ClientDropsOnSuccess(ra, rl) == Range(ra) \cup Range(rl)

Recorded(t, c, out, dropped) ==
  [h \in HandleValues |->
     IF \E i \in 1..c.acquire : out[i] = h THEN t
     ELSE IF h \in dropped THEN NoThread
     ELSE owner[h]]

(* __NO_RETURN: the thread is gone after the call.  The program only makes *)
(* such a call once every handle it still holds is an argument the call    *)
(* consumes: it has nothing left to close.                                 *)
AliveAfter(t, c) == IF c.noReturn THEN alive \ {t} ELSE alive

ExitsClean(t, c, ra, rl) ==
  c.noReturn => Owned(t) \subseteq Range(ra) \cup Range(rl)

(* A call with contract c by thread t that succeeds. *)
Succeed(t, c) ==
  /\ t \in alive
  /\ \E ua \in [1..c.use -> ArgChoices(t)],
        ra \in [1..c.releaseAlways -> ArgChoices(t)],
        rl \in [1..c.release -> ArgChoices(t)] :
       LET closed == Range(ra) \cup Range(rl) IN
       /\ ExitsClean(t, c, ra, rl)
       /\ UsedOpen(ua)
       /\ Range(ra) \subseteq valid
       /\ ReleasedOpen(rl)
       /\ \E out \in Injection(1..c.outs, FreeAfter(closed)) :
            /\ valid' = (valid \ closed) \cup Range(out)
            /\ owner' = Recorded(t, c, out, ClientDropsOnSuccess(ra, rl))
       /\ alive' = AliveAfter(t, c)

(* A call with contract c by thread t that fails: only the                *)
(* handle_release_always arguments are consumed.                          *)
Fail(t, c) ==
  /\ t \in alive
  /\ \E ua \in [1..c.use -> ArgChoices(t)],
        ra \in [1..c.releaseAlways -> ArgChoices(t)],
        rl \in [1..c.release -> ArgChoices(t)] :
       /\ ExitsClean(t, c, ra, rl)
       /\ valid' = valid \ KernelClosedAlways(ra)
       /\ owner' = [h \in HandleValues |->
                      IF h \in ClientDropsOnFailure(ra, rl) THEN NoThread
                      ELSE owner[h]]
  /\ alive' = AliveAfter(t, c)

(* The process starts with handles held by its threads (the bootstrap     *)
(* handles), all of them open.                                            *)
Init ==
  /\ alive = Threads
  /\ owner \in [HandleValues -> Threads \cup {NoThread}]
  /\ valid = {h \in HandleValues : owner[h] # NoThread}

Next == \E t \in Threads, c \in Calls : Succeed(t, c) \/ Fail(t, c)

Spec == Init /\ [][Next]_vars

-----------------------------------------------------------------------------
(* The caller's tag-driven bookkeeping and the kernel's handle table       *)
(* agree: a handle value is open exactly when some thread holds it.  A     *)
(* handle the kernel hands back without a handle_acquire tag, or closes    *)
(* against what the tags say, breaks it (a leak or a use after close).     *)
OwnershipExact ==
  \A h \in HandleValues : h \in valid <=> owner[h] # NoThread

(* No handle is held by a thread that has exited: a __NO_RETURN call      *)
(* leaves nothing open behind it that no one can close.                   *)
NoOrphan ==
  \A h \in HandleValues : owner[h] \in Threads => owner[h] \in alive

(* Half of OwnershipExact, which holds for every call of the header,        *)
(* untagged out parameters included: a handle some thread holds is open.    *)
(* A handle the kernel closes while a thread still holds it, which a       *)
(* handle_release_always argument of a failed call would be if the caller  *)
(* kept it, breaks it: a later use of it is a use after close.             *)
HeldOpen == \A h \in HandleValues : owner[h] # NoThread => h \in valid

(* The abstract view: the handles each thread holds. *)
H == INSTANCE ZxHoldings WITH holdings <- [t \in Threads |-> Owned(t)]

(* Every behaviour of the process is one of ZxHoldings: each call changes  *)
(* only the calling thread's holdings, and what it gains no other thread   *)
(* holds.  A kernel that writes back a value still open elsewhere, or a    *)
(* caller that drops a handle it did not pass, breaks it.                  *)
HoldingsRefined == H!Spec

=============================================================================
