---------------------------- MODULE MCZxHandles ----------------------------
(***************************************************************************)
(* ZxHandles instantiated with the contracts read off definitions.h.       *)
(***************************************************************************)
EXTENDS ZxHandles, ZxSyscalls

(* The contracts of the public calls whose handle_acquire tags cover every *)
(* handle they write back (all but four of the header's calls).            *)
TaggedCalls == ContractsOf({d \in PublicDecls : TagsMatchTypes(d)})

(* The contracts of every public call of the header. *)
HeaderCalls == ContractsOf(PublicDecls)

(* The public calls whose tags miss a handle they write back. *)
MisTagged == {d.name : d \in {e \in PublicDecls : ~TagsMatchTypes(e)}}

=============================================================================
