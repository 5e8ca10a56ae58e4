-------------------------- MODULE MCCategoryIndex --------------------------
(* Small instances of CategoryIndex for TLC.                               *)
EXTENDS CategoryRefinement, TLC

CONSTANTS r1, r2, ann, news, t1, t2

MCCategoryOf == [ch \in Channels |-> "News"]

Session(u, asked, c, valid) ==
    [auth |-> "session", caller |-> u, requested |-> asked, category |-> c,
     validPaging |-> valid]

ApiKey(asked, c) ==
    [auth |-> "apiKey", caller |-> None, requested |-> asked, category |-> c,
     validPaging |-> TRUE]

\* Pages of one category, the longest path through the code.
MCCalls == [r \in Requests |-> {Session(ann, None, "News", TRUE)}]

\* A page in one slot; the list and calls that are refused in the other.
MCMixedCalls ==
    (r1 :> {Session(ann, None, "News", TRUE)})
 @@ (r2 :> {Session(ann, None, None, TRUE), Session(ann, None, "News", FALSE),
            ApiKey(None, None)})

MCLineups == {Channels}

MCSymmetry == Permutations(Requests) \cup Permutations(Tuners)
=============================================================================
