-------------------------- MODULE LegacyController --------------------------
(***************************************************************************)
(* The Programmes tab of the legacy (TV) layout: livetvcategories.js and   *)
(* the part of Jellyfin's tab host that calls it.                          *)
(*                                                                         *)
(* The host imports the controller's module when the tab is first chosen,  *)
(* and calls renderTab when the import ends, wherever the user is by then. *)
(* From then on it calls onShow and onHide, and destroy with the view.     *)
(*                                                                         *)
(* A request keeps the category, page start and limit it was made for;     *)
(* "current" says that its number is still categoryRequestId.  Focus and   *)
(* the texts of the list are left out.                                     *)
(***************************************************************************)
EXTENDS Integers, FiniteSets

CONSTANTS
    Categories,         \* ids of the categories the service may list
    Limits,             \* page sizes of the user's settings
    MaxTotal,           \* bound: channels of a category
    None

ASSUME LimitAssumption == Limits \subseteq Nat \ {0}
ASSUME TotalAssumption == MaxTotal \in Nat

ASSUME NoneAssumption == None \notin [id : Categories, start : 0..MaxTotal, limit : Limits]

VARIABLES
    tab,                \* what the user looks at
    import,             \* the import of the controller's module
    active,             \* active and listening
    loadState,          \* categoryLoadState
    listRequest,        \* getCategories has not been answered
    listed,             \* categoryMap
    panel,              \* which of the two containers is not hidden
    selected,           \* selectedCategory
    pending,            \* categoryRequestPending
    requests,           \* requests for channels not answered yet
    content,            \* what the channel container was last rendered for
    spinner             \* adapter.loading

hostVars == <<tab, import>>
listVars == <<loadState, listRequest, listed>>
channelVars == <<selected, pending, requests, content>>
vars == <<hostVars, active, listVars, panel, channelVars, spinner>>

Page == [id : Categories, start : 0..MaxTotal, limit : Limits]
Request == [page : Page, current : BOOLEAN]
Rendered == [kind : {"page"}, page : Page, total : 0..MaxTotal]
Empty == [kind |-> "empty"]
Error == [kind |-> "error"]

Init ==
    /\ tab = "other"
    /\ import = "none"
    /\ active = FALSE
    /\ loadState = "idle"
    /\ listRequest = FALSE
    /\ listed = {}
    /\ panel = "list"
    /\ selected = None
    /\ pending = FALSE
    /\ requests = {}
    /\ content = Empty
    /\ spinner = FALSE

Exists == import = "done"

-----------------------------------------------------------------------------
(* The life of the tab. *)

\* showSelectedCategory, or showCategoryList without one
PanelFor(category) == IF category = None THEN "list" ELSE "channels"

OnShow ==
    /\ active' = TRUE
    /\ panel' = PanelFor(selected)

\* The list is asked for once; what was rendered then stays.
LoadCategories ==
    IF loadState = "idle"
    THEN /\ loadState' = "loading"
         /\ listRequest' = TRUE
         /\ spinner' = TRUE
         /\ UNCHANGED listed
    ELSE UNCHANGED <<listVars, spinner>>

ChooseTab ==
    /\ tab = "other"
    /\ tab' = "programmes"
    /\ import' = IF import = "none" THEN "pending" ELSE import
    /\ IF Exists THEN OnShow ELSE UNCHANGED <<active, panel>>
    /\ UNCHANGED <<listVars, channelVars, spinner>>

\* The callback of the host's loadTab: renderTab.
Imported ==
    /\ import = "pending"
    /\ import' = "done"
    /\ OnShow
    /\ LoadCategories
    /\ UNCHANGED <<tab, channelVars>>

\* The flag and the listener stay.
OnHideForgotten == UNCHANGED active

OnHide == active' = FALSE

\* Another tab, All channels, or another page of the client.
LeaveTab ==
    /\ tab = "programmes"
    /\ tab' = "other"
    /\ IF Exists THEN OnHide ELSE UNCHANGED active
    /\ UNCHANGED <<import, listVars, panel, channelVars, spinner>>

\* categoryRequestId += 1
Superseded == {[request EXCEPT !.current = FALSE] : request \in requests}

\* viewdestroy
Destroy ==
    /\ tab # "gone"
    /\ tab' = "gone"
    /\ IF Exists
       THEN /\ active' = FALSE
            /\ loadState' = "destroyed"
            /\ requests' = Superseded
            /\ pending' = FALSE
            /\ spinner' = (spinner /\ loadState # "loading" /\ ~ pending)
       ELSE UNCHANGED <<active, loadState, requests, pending, spinner>>
    /\ UNCHANGED <<import, listRequest, listed, panel, selected, content>>

-----------------------------------------------------------------------------
(* The list of the categories. *)

\* The answer is rendered whatever the state.
ListAnsweredAlways(categories) ==
    /\ listRequest
    /\ listRequest' = FALSE
    /\ listed' = categories
    /\ loadState' = "ready"
    /\ panel' = PanelFor(selected)
    /\ spinner' = FALSE
    /\ UNCHANGED <<hostVars, active, channelVars>>

\* An answer, or a failure, which is rendered as a list without categories.
ListAnswered(categories) ==
    /\ listRequest
    /\ listRequest' = FALSE
    /\ IF loadState = "loading"
       THEN /\ listed' = categories
            /\ loadState' = "ready"
            /\ panel' = PanelFor(selected)
            /\ spinner' = FALSE
       ELSE UNCHANGED <<listed, loadState, panel, spinner>>
    /\ UNCHANGED <<hostVars, active, channelVars>>

-----------------------------------------------------------------------------
(* The channels of a category. *)

\* openCategory: cancelCategoryChannelRequest, then loadCategoryChannels.
Open(page) ==
    /\ selected' = page
    /\ panel' = PanelFor(page)
    /\ requests' = Superseded \cup {[page |-> page, current |-> TRUE]}
    /\ pending' = TRUE
    /\ spinner' = TRUE

\* A click on a category of the list.
OpenCategory(c, limit) ==
    /\ tab = "programmes" /\ Exists
    /\ panel = "list"
    /\ c \in listed
    /\ Open([id |-> c, start |-> 0, limit |-> limit])
    /\ UNCHANGED <<hostVars, active, listVars, content>>

\* The indicator is left on.
ReturnWithSpinner ==
    /\ requests' = Superseded
    /\ pending' = FALSE
    /\ UNCHANGED spinner
    /\ selected' = None
    /\ panel' = PanelFor(None)

\* Without cancelCategoryChannelRequest.
ReturnWithoutCancel ==
    /\ selected' = None
    /\ panel' = PanelFor(None)
    /\ UNCHANGED <<requests, pending, spinner>>

ReturnToCategoryList ==
    /\ requests' = Superseded
    /\ pending' = FALSE
    /\ spinner' = (spinner /\ ~ pending)
    /\ selected' = None
    /\ panel' = PanelFor(None)

BackButton ==
    /\ tab = "programmes" /\ Exists
    /\ panel = "channels"
    /\ ReturnToCategoryList
    /\ UNCHANGED <<hostVars, active, listVars, content>>

\* The remote's Back, listened to on the window: wherever the user is.
BackCommand ==
    /\ active
    /\ selected # None
    /\ ReturnToCategoryList
    /\ UNCHANGED <<hostVars, active, listVars, content>>

\* The buttons are those of the last page rendered, if it has any.
HasPaging == content.kind = "page" /\ content.total > content.page.limit

NextEnabled == HasPaging /\ content.page.start + content.page.limit < content.total
PreviousEnabled == HasPaging /\ content.page.start # 0

\* loadCategoryChannels, with nothing pending.
Turn(start) ==
    /\ selected' = [selected EXCEPT !.start = start]
    /\ requests' = Superseded \cup {[page |-> [selected EXCEPT !.start = start], current |-> TRUE]}
    /\ pending' = TRUE
    /\ spinner' = TRUE
    /\ UNCHANGED <<hostVars, active, listVars, panel, content>>

\* What a click on the container's buttons needs.
CanTurn ==
    /\ tab = "programmes" /\ panel = "channels"
    /\ selected # None
    /\ ~ pending

NextPage ==
    /\ CanTurn /\ NextEnabled
    /\ Turn(selected.start + selected.limit)

PreviousPage ==
    /\ CanTurn /\ PreviousEnabled
    /\ Turn(IF selected.start > selected.limit THEN selected.start - selected.limit ELSE 0)

\* An answer is used if anything is selected.
AnyRequest(request) == selected # None

IsCurrentCategoryRequest(request) == request.current /\ selected = request.page

\* An answer of the service: what it renders, if its request is current.
ChannelsAnswered(request, rendered) ==
    /\ requests' = requests \ {request}
    /\ IF IsCurrentCategoryRequest(request)
       THEN /\ content' = rendered
            /\ pending' = (pending /\ ~ request.current)
            /\ spinner' = (spinner /\ ~ request.current)
       ELSE UNCHANGED <<content, pending, spinner>>
    /\ UNCHANGED <<hostVars, active, listVars, panel, selected>>

Channels(request) ==
    \E total \in 0..MaxTotal :
        ChannelsAnswered(request, [kind |-> "page", page |-> request.page, total |-> total])

ChannelsFailed(request) == ChannelsAnswered(request, Error)

-----------------------------------------------------------------------------
Host == ChooseTab \/ Imported \/ LeaveTab \/ Destroy

User ==
    \/ \E c \in Categories, limit \in Limits : OpenCategory(c, limit)
    \/ BackButton
    \/ BackCommand
    \/ NextPage
    \/ PreviousPage

Network ==
    \/ \E categories \in SUBSET Categories : ListAnswered(categories)
    \/ \E request \in requests : Channels(request) \/ ChannelsFailed(request)

Next == Host \/ User \/ Network

Spec == Init /\ [][Next]_vars

-----------------------------------------------------------------------------
(* Properties. *)

\* Types, and a page is selected only once there is a list to select from.
TypeOK ==
    /\ tab \in {"other", "programmes", "gone"}
    /\ import \in {"none", "pending", "done"}
    /\ active \in BOOLEAN
    /\ loadState \in {"idle", "loading", "ready", "destroyed"}
    /\ listRequest \in BOOLEAN
    /\ listed \subseteq Categories
    /\ panel \in {"list", "channels"}
    /\ selected \in Page \cup {None}
    /\ pending \in BOOLEAN
    /\ requests \subseteq Request
    /\ content \in Rendered \cup {Empty, Error}
    /\ spinner \in BOOLEAN

\* Once nothing is pending, the open category shows its own page or its own
\* error, however answers were delayed and categories and pages chosen
\* meanwhile (isCurrentCategoryRequest, cancelCategoryChannelRequest).
PageIsSelected ==
    tab = "programmes" /\ Exists /\ panel = "channels" /\ ~ pending =>
        /\ selected # None
        /\ content.kind # "empty"
        /\ content.kind = "page" => content.page = selected

\* A pending flag, which blocks the paging buttons, always has an answer
\* outstanding that will be accepted and clear it: the tab cannot get stuck.
PendingIsAnswerable ==
    pending => \E request \in requests : IsCurrentCategoryRequest(request)

\* The loading indicator is on exactly while the list or a page is awaited:
\* Back, another category and destruction switch it off, a late answer of a
\* request given up never does (finishCategoryRequest).
SpinnerMeansWaiting == spinner = (pending \/ loadState = "loading")

\* The remote's Back is taken from the rest of the client only while a
\* category is open in front of the user, also when the module arrives after
\* the user has left the tab (onInputCommand, listening).
BackIsForCategory ==
    active /\ selected # None => tab = "programmes" /\ panel = "channels"

\* Nothing is rendered after destruction, whatever still arrives.
SilentAfterDestroy ==
    [][loadState = "destroyed" =>
          UNCHANGED <<loadState, listed, panel, content, spinner>>]_vars

=============================================================================
