----------------------------- MODULE ZxCallSplit -----------------------------
(***************************************************************************)
(* The calls of ZxHandles split into entry and return.  A call takes       *)
(* time: zx_object_wait_one, zx_object_wait_many, zx_port_wait,            *)
(* zx_channel_call and zx_futex_wait block until their deadline, and any   *)
(* call may be preempted.  The kernel resolves the handle arguments when   *)
(* the thread enters the call, and other threads keep calling until it     *)
(* returns.  On return the call succeeds, with the contract's effect on    *)
(* the handle table, or fails (ZX_ERR_TIMED_OUT for a deadline reached,    *)
(* or any other error) and consumes only its handle_release_always         *)
(* arguments.  A thread is in at most one call at a time.                  *)
(*                                                                         *)
(* ZxHandles assumes a call is atomic with respect to the handle table.    *)
(* This module shows the assumption loses nothing: every behaviour here    *)
(* is a behaviour of ZxHandles (AtomicCallsRefined).                       *)
(***************************************************************************)
EXTENDS ZxHandles

CONSTANT Idle   \* pending[t] of a thread that is not in a call

VARIABLE pending   \* pending[t]: the call thread t is in, or Idle

svars == <<alive, valid, owner, pending>>

(* A call in progress: its contract, its handle arguments, and whether    *)
(* every one of them was open when the kernel looked them up.             *)
Args == UNION {[1..n -> HandleValues \cup {HandleInvalid}] : n \in Nat}

PendingType == [c : Calls, ua : Args, ra : Args, rl : Args, ok : BOOLEAN]

SplitTypeOK == TypeOK /\ pending \in [Threads -> PendingType \cup {Idle}]

(* The kernel's lookup at entry: every borrowed and consumed handle is    *)
(* open.                                                                   *)
LookedUp(ua, ra, rl) == UsedOpen(ua) /\ Range(ra) \subseteq valid /\ ReleasedOpen(rl)

(* Only a call whose handles resolved at entry can succeed. *)
EntryChecked(p) == p.ok

(* Bug variant: a thread that goes on calling after a __NO_RETURN call,  *)
(* as if zx_thread_exit or zx_process_exit had returned.                   *)
CanCallAfterExit(t) == pending[t] = Idle

(* A thread can enter a call when it is running and not already in one. *)
CanCall(t) == t \in alive /\ pending[t] = Idle

(* Thread t enters a call with contract c, passing handles it holds or    *)
(* ZX_HANDLE_INVALID; nothing in the table changes yet.                    *)
Enter(t, c) ==
  /\ CanCall(t)
  /\ \E ua \in [1..c.use -> ArgChoices(t)],
        ra \in [1..c.releaseAlways -> ArgChoices(t)],
        rl \in [1..c.release -> ArgChoices(t)] :
       /\ ExitsClean(t, c, ra, rl)
       /\ pending' = [pending EXCEPT ![t] =
                        [c |-> c, ua |-> ua, ra |-> ra, rl |-> rl,
                         ok |-> LookedUp(ua, ra, rl)]]
  /\ UNCHANGED <<alive, valid, owner>>

(* The call of thread t returns success: the consumed handles are closed, *)
(* the out values are written back, and the caller records them.          *)
ReturnOk(t) ==
  /\ pending[t] # Idle
  /\ LET p == pending[t]
         closed == Range(p.ra) \cup Range(p.rl) IN
     /\ EntryChecked(p)
     /\ \E out \in Injection(1..p.c.outs, FreeAfter(closed)) :
          /\ valid' = (valid \ closed) \cup Range(out)
          /\ owner' = Recorded(t, p.c, out, ClientDropsOnSuccess(p.ra, p.rl))
     /\ alive' = AliveAfter(t, p.c)
  /\ pending' = [pending EXCEPT ![t] = Idle]

(* The call of thread t returns an error, its deadline reached or not:    *)
(* only the handle_release_always arguments are consumed.                 *)
ReturnFail(t) ==
  /\ pending[t] # Idle
  /\ LET p == pending[t] IN
     /\ valid' = valid \ KernelClosedAlways(p.ra)
     /\ owner' = [h \in HandleValues |->
                    IF h \in ClientDropsOnFailure(p.ra, p.rl) THEN NoThread
                    ELSE owner[h]]
     /\ alive' = AliveAfter(t, p.c)
  /\ pending' = [pending EXCEPT ![t] = Idle]

SplitInit == Init /\ pending = [t \in Threads |-> Idle]

SplitNext ==
  \/ \E t \in Threads, c \in Calls : Enter(t, c)
  \/ \E t \in Threads : ReturnOk(t) \/ ReturnFail(t)

SplitSpec == SplitInit /\ [][SplitNext]_svars

-----------------------------------------------------------------------------
(* Splitting calls into entry and return adds no behaviour: every step is  *)
(* an atomic call of ZxHandles or leaves the handle table alone, so what   *)
(* is shown of ZxHandles holds of the interleaved process.                 *)
AtomicCallsRefined == Spec

=============================================================================
