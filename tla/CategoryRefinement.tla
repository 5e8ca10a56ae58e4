------------------------ MODULE CategoryRefinement ------------------------
(***************************************************************************)
(* CategoryIndex implements CategoryService: the refinement mapping.       *)
(*                                                                         *)
(* The published snapshot is the current one and a request's basis is the  *)
(* snapshot GetSnapshotAsync has returned, or is about to.  Everything up  *)
(* to there, the wait for the lock and the reads under it included, is one *)
(* phase.  What FilterPage has left in the response is a draft until the   *)
(* last look at the permission.                                            *)
(***************************************************************************)
EXTENDS CategoryIndex

PhaseOf(point) ==
    IF point \in {"idle", "done"} THEN point
    ELSE IF point = "page" THEN "paged"
    ELSE IF point = "confirm" THEN "filled" ELSE "asked"

Phases == [r \in Requests |-> PhaseOf(pc[r])]

Drafts == [r \in Requests |-> IF pc[r] = "confirm" THEN answer[r].items ELSE {}]

Answers == [r \in Requests |-> IF pc[r] = "done" THEN answer[r] ELSE NoAnswer]

Service == INSTANCE CategoryService WITH
    current <- snapshot, phase <- Phases, basis <- held, draft <- Drafts, answer <- Answers

\* Every behaviour of the cache, the lock, the adapter and the controller is
\* one of the service: each answer is projected from one snapshot that was
\* fresh when the request took it, through what its user may see, and a
\* snapshot is read only where none is fresh (GetForUserAsync,
\* GetSnapshotAsync, GetChannelDtos, ExecuteForUserAsync).
ImplementsService == Service!Spec

=============================================================================
