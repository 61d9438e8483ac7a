------------------------------ MODULE ZxHoldings ------------------------------
(***************************************************************************)
(* What the handle tags of definitions.h promise a multi-threaded process, *)
(* stated without the kernel's table or any particular call: each thread   *)
(* holds a set of handles, and a call by thread t changes only t's         *)
(* holdings.  It may drop some of them (handle_release_always,             *)
(* handle_release) and add handles that no other thread holds              *)
(* (handle_acquire); a __NO_RETURN call also ends t.  ZxHandles            *)
(* implements this specification under the mapping                        *)
(* holdings[t] = the values owner assigns to t.                           *)
(***************************************************************************)
CONSTANTS Threads, HandleValues

VARIABLES
  alive,     \* the threads that can still make calls
  holdings   \* holdings[t]: the handles thread t holds

hvars == <<alive, holdings>>

HoldingsTypeOK ==
  /\ alive \subseteq Threads
  /\ holdings \in [Threads -> SUBSET HandleValues]

(* The handles some thread other than t holds. *)
HeldByOthers(t) == UNION {holdings[u] : u \in Threads \ {t}}

(* The bootstrap handles: every thread holds some, no handle is held twice. *)
Init ==
  /\ alive = Threads
  /\ holdings \in [Threads -> SUBSET HandleValues]
  /\ \A t, u \in Threads : t # u => holdings[t] \cap holdings[u] = {}

(* One call by t returns: t keeps part of what it held and gains handles   *)
(* no other thread holds; the call may be the thread's last.               *)
Call(t) ==
  /\ t \in alive
  /\ \E keep \in SUBSET holdings[t],
        new \in SUBSET (HandleValues \ HeldByOthers(t)) :
       holdings' = [holdings EXCEPT ![t] = keep \cup new]
  /\ alive' \in {alive, alive \ {t}}

Next == \E t \in Threads : Call(t)

Spec == Init /\ [][Next]_hvars

=============================================================================
