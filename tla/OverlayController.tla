------------------------- MODULE OverlayController -------------------------
(***************************************************************************)
(* The Programmes tab of the overlay for Jellyfin Web 10.11.11:            *)
(* livetvsuggested.js, which is at once the host of the tabs and the       *)
(* controller of the first of them.                                        *)
(*                                                                         *)
(* Unlike its successor (LegacyController) it loads the list again every   *)
(* time the tab is chosen, and its channel requests carry no number:       *)
(* categoryRequestPending only keeps a second one from being sent, and an  *)
(* answer is rendered for whatever is selected when it comes.              *)
(***************************************************************************)
EXTENDS Integers

CONSTANTS
    Categories,             \* ids of the categories the service may list
    Limits,                 \* page sizes of the user's settings
    MaxTotal,               \* bound: channels of a category
    MaxLoads,               \* bound: choices of the tab whose list is still to come
    None

VARIABLES
    shown,                  \* the tab is the one the user looks at
    arriving,               \* choices of the tab whose import has not resolved
    lists,                  \* list requests that are not answered
    categoryMap,            \* the categories that can be clicked
    opened,                 \* which of the two containers is not hidden
    selectedCategory,
    categoryRequestPending,
    asked,                  \* the channel requests that are not answered
    items,                  \* what the channel container shows
    paging,                 \* what its buttons were rendered for
    loading,                \* the client's one indicator, which nobody counts
    left                    \* history: the category was closed or replaced while
                            \* the last page asked for was awaited

loadVars == <<shown, arriving, lists, categoryMap>>
channelVars == <<opened, selectedCategory, categoryRequestPending, asked, items, paging>>
vars == <<loadVars, channelVars, loading, left>>

Page == [id : Categories, start : 0..MaxTotal, limit : Limits]
Items == [kind : {"page"}, page : Page]
Empty == [kind |-> "empty"]
Error == [kind |-> "error"]
Buttons == [start : 0..MaxTotal, limit : Limits, total : 0..MaxTotal]

Init ==
    /\ shown = FALSE
    /\ arriving = 0
    /\ lists = 0
    /\ categoryMap = {}
    /\ opened = FALSE
    /\ selectedCategory = None
    /\ categoryRequestPending = FALSE
    /\ asked = {}
    /\ items = Empty
    /\ paging = None
    /\ loading = FALSE
    /\ left = FALSE

-----------------------------------------------------------------------------
(* The tab and its list. *)

\* loadTab: only the guide's index is ever put into renderedTabs, so that the
\* first tab is rendered anew each time.
ChooseTab ==
    /\ ~ shown
    /\ arriving + lists < MaxLoads
    /\ shown' = TRUE
    /\ arriving' = arriving + 1
    /\ UNCHANGED <<lists, categoryMap, channelVars, loading, left>>

\* Another tab, All Channels included: this one has no onHide.
LeaveTab ==
    /\ shown
    /\ shown' = FALSE
    /\ UNCHANGED <<arriving, lists, categoryMap, channelVars, loading, left>>

\* The import resolves, wherever the user is by then: renderTab, which is
\* loadCategories.
RenderTab ==
    /\ arriving > 0
    /\ arriving' = arriving - 1
    /\ lists' = lists + 1
    /\ loading' = TRUE
    /\ UNCHANGED <<shown, categoryMap, channelVars, left>>

\* What becomes of the selection while its page may still be awaited.
Select(page) ==
    /\ selectedCategory' = page
    /\ opened' = (page # None)

LeftBehind == left' = (left \/ asked # {})

\* The list, empty after a failure, is rendered and shown: showCategoryList
\* closes whatever the user has opened since it was asked for.
ListAnswered(categories) ==
    /\ lists > 0
    /\ lists' = lists - 1
    /\ categoryMap' = categories
    /\ Select(None)
    /\ LeftBehind
    /\ loading' = FALSE
    /\ UNCHANGED <<shown, arriving, categoryRequestPending, asked, items, paging>>

-----------------------------------------------------------------------------
(* The channels of a category. *)

\* Defect: every call asks.
AlwaysLoad(page) ==
    /\ categoryRequestPending' = TRUE
    /\ asked' = asked \cup {page}
    /\ loading' = TRUE

\* Nothing is asked for while a page is on its way, whatever category it is of.
LoadCategoryChannels(page) ==
    \/ /\ categoryRequestPending
       /\ UNCHANGED <<categoryRequestPending, asked, loading>>
    \/ /\ ~ categoryRequestPending
       /\ categoryRequestPending' = TRUE
       /\ asked' = asked \cup {page}
       /\ loading' = TRUE

OpenCategory(c, limit) ==
    /\ shown /\ ~ opened
    /\ c \in categoryMap
    /\ LET page == [id |-> c, start |-> 0, limit |-> limit]
       IN  Select(page) /\ LoadCategoryChannels(page)
    /\ left' = (categoryRequestPending /\ (left \/ asked # {}))
    /\ UNCHANGED <<loadVars, items, paging>>

ReturnToCategoryList ==
    /\ shown /\ opened
    /\ Select(None)
    /\ LeftBehind
    /\ UNCHANGED <<loadVars, categoryRequestPending, asked, items, paging, loading>>

NextEnabled ==
    /\ paging # None
    /\ paging.start + paging.limit < paging.total

PreviousEnabled ==
    /\ paging # None
    /\ paging.limit < paging.total
    /\ paging.start > 0

\* Defect: a click selects a page although one is on its way.
ClickAnyTime == shown /\ opened /\ selectedCategory # None

CanTurn == shown /\ opened /\ selectedCategory # None /\ ~ categoryRequestPending

\* The start stays within the bound of the model.
Turn(start) ==
    LET page == [selectedCategory EXCEPT !.start = start]
    IN  /\ start =< MaxTotal
        /\ selectedCategory' = page
        /\ LoadCategoryChannels(page)
        /\ left' = (left /\ categoryRequestPending)
        /\ UNCHANGED <<loadVars, opened, items, paging>>

NextPage == CanTurn /\ NextEnabled /\ Turn(selectedCategory.start + selectedCategory.limit)

PreviousPage ==
    /\ CanTurn /\ PreviousEnabled
    /\ Turn(IF selectedCategory.start > selectedCategory.limit
            THEN selectedCategory.start - selectedCategory.limit ELSE 0)

\* A page that is answered: the cards are those of the request, the buttons
\* those of the selection.  Without one renderCategoryPaging throws, and what
\* was to follow it, the flag and the indicator included, does not happen.
Channels(page, total) ==
    /\ asked' = asked \ {page}
    /\ items' = [kind |-> "page", page |-> page]
    /\ \/ /\ selectedCategory # None
          /\ paging' = [start |-> selectedCategory.start, limit |-> selectedCategory.limit,
                        total |-> total]
          /\ categoryRequestPending' = FALSE
          /\ loading' = FALSE
       \/ /\ selectedCategory = None
          /\ UNCHANGED <<paging, categoryRequestPending, loading>>
    /\ UNCHANGED <<loadVars, opened, selectedCategory, left>>

\* Defect: the indicator is forgotten.
ChannelsFailedSpinning(page) ==
    /\ asked' = asked \ {page}
    /\ items' = Error
    /\ paging' = None
    /\ categoryRequestPending' = FALSE
    /\ UNCHANGED <<loadVars, opened, selectedCategory, loading, left>>

\* An error, or an answer that is not a page.
ChannelsFailed(page) ==
    /\ asked' = asked \ {page}
    /\ items' = Error
    /\ paging' = None
    /\ categoryRequestPending' = FALSE
    /\ loading' = FALSE
    /\ UNCHANGED <<loadVars, opened, selectedCategory, left>>

Next ==
    \/ ChooseTab \/ LeaveTab \/ RenderTab
    \/ \E categories \in SUBSET Categories : ListAnswered(categories)
    \/ \E c \in Categories, limit \in Limits : OpenCategory(c, limit)
    \/ ReturnToCategoryList \/ NextPage \/ PreviousPage
    \/ \E page \in asked :
          ChannelsFailed(page) \/ \E total \in 0..MaxTotal : Channels(page, total)

-----------------------------------------------------------------------------
(* Properties. *)

TypeOK ==
    /\ shown \in BOOLEAN
    /\ arriving \in 0..MaxLoads
    /\ lists \in 0..MaxLoads
    /\ categoryMap \subseteq Categories
    /\ opened \in BOOLEAN
    /\ selectedCategory \in Page \cup {None}
    /\ categoryRequestPending \in BOOLEAN
    /\ asked \subseteq Page
    /\ items \in Items \cup {Empty, Error}
    /\ paging \in Buttons \cup {None}
    /\ loading \in BOOLEAN
    /\ left \in BOOLEAN

\* A category that was not left while its page was awaited shows, at rest,
\* its own page, with the buttons of that page, or its own error
\* (loadCategoryChannels, onNextCategoryPage, onPreviousCategoryPage).
PageIsOwn ==
    opened /\ ~ categoryRequestPending /\ ~ left =>
        \/ items = Error /\ paging = None
        \/ /\ items = [kind |-> "page", page |-> selectedCategory]
           /\ paging.start = selectedCategory.start
           /\ paging.limit = selectedCategory.limit

\* There is never a second channel request, and the flag that sees to it is
\* set without one only after a category was left while its page was awaited
\* (categoryRequestPending).
OneRequest ==
    /\ \A page, other \in asked : page = other
    /\ ~ left => (categoryRequestPending <=> asked # {})

\* The indicator, which list and pages switch without counting, is never on
\* with nothing to wait for, again unless an awaited page was left.
SpinnerEnds == loading => lists > 0 \/ asked # {} \/ left

=============================================================================
