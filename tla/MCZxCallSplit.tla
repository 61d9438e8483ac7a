--------------------------- MODULE MCZxCallSplit ---------------------------
(***************************************************************************)
(* ZxCallSplit instantiated with the contracts read off definitions.h.     *)
(***************************************************************************)
EXTENDS ZxCallSplit, ZxSyscalls

(* The contracts of every public call of the header. *)
SplitCalls == ContractsOf(PublicDecls)

=============================================================================
