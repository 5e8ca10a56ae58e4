------------------------- MODULE MCLegacyController -------------------------
(***************************************************************************)
(* The two forms of the Programmes tab for TLC: the integration of Jellyfin *)
(* Web 12 and the overlay of 10.11.11.  A build contains one of them.      *)
(***************************************************************************)
EXTENDS LegacyController, TLC

CONSTANT MaxLoads

ASSUME LoadAssumption == MaxLoads \in Nat

VARIABLES
    build,
    shown, arriving, lists, categoryMap, opened, selectedCategory,
    categoryRequestPending, asked, items, paging, loading, left

overlayVars == <<shown, arriving, lists, categoryMap, opened, selectedCategory,
                 categoryRequestPending, asked, items, paging, loading, left>>

Overlay == INSTANCE OverlayController

MCInit ==
    /\ build \in {"integration", "overlay"}
    /\ Init
    /\ Overlay!Init

MCNext ==
    \/ build = "integration" /\ Next /\ UNCHANGED <<build, overlayVars>>
    \/ build = "overlay" /\ Overlay!Next /\ UNCHANGED <<build, vars>>

MCSpec == MCInit /\ [][MCNext]_<<build, vars, overlayVars>>

Symmetry == Permutations(Categories)

-----------------------------------------------------------------------------
\* The overlay's page, buttons or error are those of the selected category
\* unless it was left while they were awaited (loadCategoryChannels).
OverlayPageIsOwn == Overlay!PageIsOwn

\* The overlay asks for one page at a time, and its flag is stuck only after
\* a page was left while it was awaited (categoryRequestPending).
OverlayOneRequest == Overlay!OneRequest

\* The overlay's indicator does not go on without a reason, with the same
\* exception (loading.show, loading.hide).
OverlaySpinnerEnds == Overlay!SpinnerEnds

=============================================================================
