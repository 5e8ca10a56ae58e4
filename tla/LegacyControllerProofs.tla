----------------------- MODULE LegacyControllerProofs -----------------------
(***************************************************************************)
(* Proofs about LegacyController and, from "The overlay" on, about         *)
(* OverlayController, for any categories, page sizes and totals.           *)
(*                                                                         *)
(* What the user may do and what an answer may do depend on the state of   *)
(* the list, of the request and of the tab at once: the inductive          *)
(* invariant says how these hang together.                                 *)
(***************************************************************************)
EXTENDS MCLegacyController, TLAPS

\* Before its module has arrived, the controller has done nothing.
NothingBeforeImport ==
    ~ Exists =>
        /\ loadState = "idle"
        /\ active = FALSE
        /\ selected = None
        /\ requests = {}

DestroyedIsGone == loadState = "destroyed" => tab = "gone" /\ active = FALSE

\* A category can be open only after the list was rendered.
ListFirst ==
    /\ listed # {} => loadState \in {"ready", "destroyed"}
    /\ selected # None => loadState \in {"ready", "destroyed"}

PanelFollows == panel = PanelFor(selected)

PendingIsLive == pending => selected # None /\ loadState = "ready"

\* At most one request carries the current number, and it asks for what is
\* selected.
CurrentIsSelected ==
    \A request \in requests : request.current => pending /\ request.page = selected

\* The content is the selection's, but for the answer that is awaited.
RestContent ==
    selected # None /\ ~ pending /\ loadState = "ready" =>
        /\ content.kind # "empty"
        /\ content.kind = "page" => content.page = selected

BackShown == active /\ selected # None => tab = "programmes"

LifeInv == NothingBeforeImport /\ DestroyedIsGone /\ ListFirst /\ PanelFollows /\ BackShown
RequestInv ==
    /\ PendingIsLive /\ CurrentIsSelected /\ PendingIsAnswerable
    /\ RestContent /\ SpinnerMeansWaiting

IndInv == TypeOK /\ LifeInv /\ RequestInv

-----------------------------------------------------------------------------
(* Operators. *)

LEMMA SupersededTyped ==
  ASSUME requests \subseteq Request
  PROVE  /\ Superseded \subseteq Request
         /\ \A request \in Superseded : ~ request.current
  BY DEF Superseded, Request

LEMMA NoneIsNoPage == None \notin Page
  BY NoneAssumption DEF Page

\* A current number identifies a request.
LEMMA CurrentIsUnique ==
  ASSUME TypeOK, CurrentIsSelected, NEW a \in requests, NEW b \in requests,
         a.current, b.current
  PROVE  a = b
<1>1. a \in Request /\ b \in Request
  BY DEF TypeOK
<1>2. a.page = b.page /\ a.current = TRUE /\ b.current = TRUE
  BY <1>1 DEF CurrentIsSelected, Request
<1> QED
  BY <1>1, <1>2 DEF Request

LEMMA InitInd == Init => IndInv
  BY DEF Init, IndInv, TypeOK, LifeInv, RequestInv, NothingBeforeImport, DestroyedIsGone,
      ListFirst, PanelFollows, PanelFor, BackShown, PendingIsLive, CurrentIsSelected,
      PendingIsAnswerable, RestContent, SpinnerMeansWaiting, Exists, Empty

-----------------------------------------------------------------------------
(* The life of the tab. *)

\* The request's part of the invariant does not depend on the tab.
LEMMA RequestInvStable ==
  ASSUME RequestInv, UNCHANGED <<channelVars, loadState, spinner>>
  PROVE  RequestInv'
  BY DEF RequestInv, PendingIsLive, CurrentIsSelected, PendingIsAnswerable, RestContent,
      SpinnerMeansWaiting, IsCurrentCategoryRequest, channelVars

LEMMA ChooseTabInd == IndInv /\ ChooseTab => IndInv'
<1> SUFFICES ASSUME IndInv, ChooseTab PROVE IndInv'
  OBVIOUS
<1>1. TypeOK'
  BY DEF IndInv, TypeOK, ChooseTab, OnShow, PanelFor, listVars, channelVars
<1>2. LifeInv'
  BY DEF IndInv, LifeInv, NothingBeforeImport, DestroyedIsGone, ListFirst, PanelFollows,
      BackShown, ChooseTab, OnShow, PanelFor, listVars, channelVars, Exists
<1>3. RequestInv'
  BY RequestInvStable DEF IndInv, ChooseTab, listVars
<1> QED
  BY <1>1, <1>2, <1>3 DEF IndInv

LEMMA ImportedInd == IndInv /\ Imported => IndInv'
<1> SUFFICES ASSUME IndInv, Imported PROVE IndInv'
  OBVIOUS
<1>1. ~ Exists /\ loadState = "idle" /\ selected = None /\ requests = {} /\ Exists'
  BY DEF IndInv, LifeInv, NothingBeforeImport, Exists, Imported
<1>2. ~ pending /\ loadState' = "loading" /\ spinner' = TRUE
  BY <1>1 DEF IndInv, RequestInv, PendingIsLive, Imported, LoadCategories
<1>3. TypeOK'
  BY <1>1 DEF IndInv, TypeOK, Imported, LoadCategories, OnShow, PanelFor, channelVars
<1>4. LifeInv'
  BY <1>1, <1>2 DEF IndInv, LifeInv, NothingBeforeImport, DestroyedIsGone, ListFirst,
      PanelFollows, BackShown, Imported, LoadCategories, OnShow, PanelFor, channelVars
<1>5. RequestInv'
  BY <1>1, <1>2 DEF RequestInv, PendingIsLive, CurrentIsSelected, PendingIsAnswerable,
      RestContent, SpinnerMeansWaiting, Imported, channelVars
<1> QED
  BY <1>3, <1>4, <1>5 DEF IndInv

LEMMA LeaveTabInd == IndInv /\ LeaveTab => IndInv'
<1> SUFFICES ASSUME IndInv, LeaveTab PROVE IndInv'
  OBVIOUS
<1>1. active' = FALSE
  BY DEF IndInv, LifeInv, NothingBeforeImport, LeaveTab, OnHide
<1>2. TypeOK'
  BY <1>1 DEF IndInv, TypeOK, LeaveTab, listVars, channelVars
<1>3. LifeInv'
  BY <1>1 DEF IndInv, LifeInv, NothingBeforeImport, DestroyedIsGone, ListFirst,
      PanelFollows, BackShown, LeaveTab, PanelFor, listVars, channelVars, Exists
<1>4. RequestInv'
  BY RequestInvStable DEF IndInv, LeaveTab, listVars
<1> QED
  BY <1>2, <1>3, <1>4 DEF IndInv

LEMMA DestroyInd == IndInv /\ Destroy => IndInv'
<1> SUFFICES ASSUME IndInv, Destroy PROVE IndInv'
  OBVIOUS
<1>1. active' = FALSE
  BY DEF IndInv, LifeInv, NothingBeforeImport, Destroy
<1>2. CASE Exists
  <2>1. Superseded \subseteq Request /\ \A request \in Superseded : ~ request.current
    BY SupersededTyped DEF IndInv, TypeOK
  <2>2. TypeOK'
    BY <1>1, <1>2, <2>1 DEF IndInv, TypeOK, Destroy
  <2>3. LifeInv'
    BY <1>1, <1>2 DEF IndInv, LifeInv, NothingBeforeImport, DestroyedIsGone, ListFirst,
        PanelFollows, BackShown, Destroy, PanelFor, Exists
  <2>4. RequestInv'
    BY <1>2, <2>1 DEF IndInv, RequestInv, PendingIsLive, CurrentIsSelected,
        PendingIsAnswerable, RestContent, SpinnerMeansWaiting, Destroy
  <2> QED
    BY <2>2, <2>3, <2>4 DEF IndInv
<1>3. CASE ~ Exists
  <2>1. UNCHANGED <<channelVars, loadState, spinner, active, import, listRequest, listed, panel>>
    BY <1>3 DEF Destroy, channelVars
  <2>2. TypeOK'
    BY <2>1 DEF IndInv, TypeOK, Destroy, channelVars
  <2>3. LifeInv'
    BY <1>1, <1>3, <2>1 DEF IndInv, LifeInv, NothingBeforeImport, DestroyedIsGone,
        ListFirst, PanelFollows, BackShown, Destroy, PanelFor, Exists, channelVars
  <2>4. RequestInv'
    BY <2>1, RequestInvStable DEF IndInv
  <2> QED
    BY <2>2, <2>3, <2>4 DEF IndInv
<1> QED
  BY <1>2, <1>3

-----------------------------------------------------------------------------
(* The list and the requests. *)

LEMMA ListAnsweredInd ==
  ASSUME IndInv, NEW categories \in SUBSET Categories, ListAnswered(categories)
  PROVE  IndInv'
<1>1. CASE loadState = "loading"
  <2>1. selected = None /\ ~ pending /\ Exists
    BY <1>1 DEF IndInv, LifeInv, RequestInv, ListFirst, PendingIsLive, NothingBeforeImport
  <2>2. TypeOK'
    BY <1>1 DEF IndInv, TypeOK, ListAnswered, PanelFor, hostVars, channelVars
  <2>3. LifeInv'
    BY <1>1, <2>1 DEF IndInv, LifeInv, NothingBeforeImport, DestroyedIsGone, ListFirst,
        PanelFollows, BackShown, ListAnswered, PanelFor, Exists, hostVars, channelVars
  <2>4. RequestInv'
    BY <1>1, <2>1 DEF IndInv, RequestInv, PendingIsLive, CurrentIsSelected,
        PendingIsAnswerable, RestContent, SpinnerMeansWaiting, ListAnswered, channelVars
  <2> QED
    BY <2>2, <2>3, <2>4 DEF IndInv
<1>2. CASE loadState # "loading"
  <2>1. UNCHANGED <<hostVars, active, listed, loadState, panel, channelVars, spinner>>
    BY <1>2 DEF ListAnswered
  <2>2. TypeOK'
    BY <2>1 DEF IndInv, TypeOK, ListAnswered, hostVars, channelVars
  <2>3. LifeInv'
    BY <2>1 DEF IndInv, LifeInv, NothingBeforeImport, DestroyedIsGone, ListFirst,
        PanelFollows, BackShown, PanelFor, Exists, hostVars, channelVars
  <2>4. RequestInv'
    BY <2>1, RequestInvStable DEF IndInv
  <2> QED
    BY <2>2, <2>3, <2>4 DEF IndInv
<1> QED
  BY <1>1, <1>2

\* A step that selects a page and asks for it.
LEMMA AskInd ==
  ASSUME IndInv, NEW page \in Page,
         tab = "programmes", Exists, loadState = "ready", panel' = "channels",
         selected' = page,
         requests' = Superseded \cup {[page |-> page, current |-> TRUE]},
         pending' = TRUE, spinner' = TRUE,
         UNCHANGED <<hostVars, active, listVars, content>>
  PROVE  IndInv'
<1>1. /\ Superseded \subseteq Request
      /\ \A request \in Superseded : ~ request.current
      /\ page # None
      /\ [page |-> page, current |-> TRUE] \in Request
  BY SupersededTyped, NoneIsNoPage DEF IndInv, TypeOK, Request
<1>2. TypeOK'
  BY <1>1 DEF IndInv, TypeOK, hostVars, listVars
<1>3. LifeInv'
  BY <1>1 DEF IndInv, LifeInv, NothingBeforeImport, DestroyedIsGone, ListFirst,
      PanelFollows, BackShown, PanelFor, Exists, hostVars, listVars
<1>4. PendingIsAnswerable'
  BY <1>1 DEF PendingIsAnswerable, IsCurrentCategoryRequest
<1>5. CurrentIsSelected'
  BY <1>1 DEF CurrentIsSelected
<1>6. PendingIsLive' /\ RestContent' /\ SpinnerMeansWaiting'
  BY <1>1 DEF PendingIsLive, RestContent, SpinnerMeansWaiting, listVars
<1> QED
  BY <1>2, <1>3, <1>4, <1>5, <1>6 DEF IndInv, RequestInv

LEMMA OpenCategoryInd ==
  ASSUME IndInv, NEW c \in Categories, NEW limit \in Limits, OpenCategory(c, limit)
  PROVE  IndInv'
<1> DEFINE page == [id |-> c, start |-> 0, limit |-> limit]
<1>1. page \in Page /\ page # None
  BY TotalAssumption, NoneIsNoPage DEF Page
<1>2. loadState = "ready"
  BY DEF IndInv, LifeInv, ListFirst, DestroyedIsGone, OpenCategory
<1>3. panel' = "channels"
  BY <1>1 DEF OpenCategory, Open, PanelFor
<1> HIDE DEF page
<1>4. Open(page)
  BY DEF OpenCategory, page
<1> QED
  BY <1>1, <1>2, <1>3, <1>4, AskInd DEF OpenCategory, Open

LEMMA ReturnInd ==
  ASSUME IndInv, Exists, ReturnToCategoryList,
         UNCHANGED <<hostVars, active, listVars, content>>
  PROVE  IndInv'
<1>1. Superseded \subseteq Request /\ \A request \in Superseded : ~ request.current
  BY SupersededTyped DEF IndInv, TypeOK
<1>2. TypeOK'
  BY <1>1 DEF IndInv, TypeOK, ReturnToCategoryList, PanelFor, hostVars, listVars
<1>3. LifeInv'
  BY DEF IndInv, LifeInv, NothingBeforeImport, DestroyedIsGone, ListFirst, PanelFollows,
      BackShown, ReturnToCategoryList, PanelFor, Exists, hostVars, listVars
<1>4. RequestInv'
  BY <1>1 DEF IndInv, RequestInv, PendingIsLive, CurrentIsSelected, PendingIsAnswerable,
      RestContent, SpinnerMeansWaiting, ReturnToCategoryList, listVars
<1> QED
  BY <1>2, <1>3, <1>4 DEF IndInv

\* The page a paging button starts from is the one that is shown.
LEMMA ShownIsSelected ==
  ASSUME IndInv, CanTurn, HasPaging
  PROVE  /\ selected \in Page /\ content \in Rendered /\ content.page = selected
         /\ Exists /\ loadState = "ready"
<1>1. selected \in Page /\ loadState = "ready" /\ Exists
  BY DEF IndInv, TypeOK, LifeInv, ListFirst, DestroyedIsGone, NothingBeforeImport, CanTurn
<1>2. content.page = selected
  BY <1>1 DEF IndInv, RequestInv, RestContent, CanTurn, HasPaging
<1>3. content \in Rendered
  BY DEF IndInv, TypeOK, HasPaging, Empty, Error
<1> QED
  BY <1>1, <1>2, <1>3

LEMMA TurnInd ==
  ASSUME IndInv, CanTurn, selected \in Page, Exists, loadState = "ready",
         NEW start \in 0..MaxTotal, Turn(start)
  PROVE  IndInv'
<1> DEFINE page == [selected EXCEPT !.start = start]
<1>1. page \in Page
  BY DEF Page
<1>2. panel' = "channels"
  BY DEF Turn, CanTurn
<1> HIDE DEF page
<1>3. /\ selected' = page
      /\ requests' = Superseded \cup {[page |-> page, current |-> TRUE]}
  BY DEF Turn, page
<1> QED
  BY <1>1, <1>2, <1>3, AskInd DEF Turn, CanTurn

LEMMA PagingInd ==
  ASSUME IndInv, NextPage \/ PreviousPage
  PROVE  IndInv'
<1>1. /\ selected \in Page /\ content \in Rendered /\ content.page = selected
      /\ Exists /\ loadState = "ready"
  BY ShownIsSelected DEF NextPage, PreviousPage, NextEnabled, PreviousEnabled
<1>2. selected.start \in 0..MaxTotal /\ selected.limit \in Nat \ {0}
  BY <1>1, LimitAssumption DEF Page
<1>3. content.total \in 0..MaxTotal
  BY <1>1 DEF Rendered
<1>4. CASE NextPage
  <2>1. selected.start + selected.limit \in 0..MaxTotal
    BY <1>1, <1>2, <1>3, <1>4, TotalAssumption DEF NextPage, NextEnabled
  <2> QED
    BY <1>1, <1>4, <2>1, TurnInd DEF NextPage
<1>5. CASE PreviousPage
  <2> DEFINE start == IF selected.start > selected.limit
                      THEN selected.start - selected.limit ELSE 0
  <2>1. start \in 0..MaxTotal
    BY <1>2, TotalAssumption
  <2>2. Turn(start)
    BY <1>5 DEF PreviousPage
  <2> HIDE DEF start
  <2> QED
    BY <1>1, <1>5, <2>1, <2>2, TurnInd DEF PreviousPage
<1> QED
  BY <1>4, <1>5

LEMMA AnsweredInd ==
  ASSUME IndInv, NEW request \in requests, NEW rendered \in Rendered \cup {Error},
         rendered.kind = "page" => rendered.page = request.page,
         ChannelsAnswered(request, rendered)
  PROVE  IndInv'
<1>1. TypeOK'
  <2>1. /\ content' \in {content, rendered}
        /\ pending' \in {pending, pending /\ ~ request.current}
        /\ spinner' \in {spinner, spinner /\ ~ request.current}
        /\ requests' \subseteq requests
    BY DEF ChannelsAnswered
  <2>2. UNCHANGED <<tab, import, active, loadState, listRequest, listed, panel, selected>>
    BY DEF ChannelsAnswered, hostVars, listVars
  <2>3. pending' \in BOOLEAN /\ spinner' \in BOOLEAN
    BY <2>1 DEF IndInv, TypeOK
  <2> QED
    BY <2>1, <2>2, <2>3 DEF IndInv, TypeOK
<1>2. CASE IsCurrentCategoryRequest(request)
  <2>1. request.current /\ selected = request.page /\ pending /\ loadState = "ready"
    BY <1>2 DEF IndInv, RequestInv, CurrentIsSelected, PendingIsLive,
        IsCurrentCategoryRequest
  <2>2. \A other \in requests' : ~ other.current
    BY <2>1, CurrentIsUnique DEF IndInv, RequestInv, ChannelsAnswered
  <2>3. rendered.kind # "empty"
    BY DEF Rendered, Error
  <2>4. LifeInv'
    BY <2>1 DEF IndInv, LifeInv, NothingBeforeImport, DestroyedIsGone, ListFirst,
        PanelFollows, BackShown, PanelFor, Exists, ChannelsAnswered, hostVars, listVars
  <2>5. content' = rendered /\ pending' = FALSE /\ spinner' = FALSE
    BY <1>2, <2>1 DEF ChannelsAnswered, IndInv, TypeOK
  <2>6. selected' = selected /\ loadState' = "ready"
    BY <2>1 DEF ChannelsAnswered, listVars
  <2>7. RequestInv'
    BY <2>1, <2>2, <2>3, <2>5, <2>6 DEF RequestInv, PendingIsLive, CurrentIsSelected,
        PendingIsAnswerable, RestContent, SpinnerMeansWaiting
  <2> QED
    BY <1>1, <2>4, <2>7 DEF IndInv
<1>3. CASE ~ IsCurrentCategoryRequest(request)
  <2>1. /\ requests' = requests \ {request}
        /\ UNCHANGED <<content, pending, spinner, hostVars, active, listVars, panel, selected>>
    BY <1>3 DEF ChannelsAnswered
  <2>2. LifeInv'
    BY <2>1 DEF IndInv, LifeInv, NothingBeforeImport, DestroyedIsGone, ListFirst,
        PanelFollows, BackShown, PanelFor, Exists, hostVars, listVars
  <2>3. PendingIsAnswerable'
    BY <1>3, <2>1 DEF IndInv, RequestInv, PendingIsAnswerable, IsCurrentCategoryRequest
  <2>4. RequestInv'
    BY <2>1, <2>3 DEF IndInv, RequestInv, PendingIsLive, CurrentIsSelected, RestContent,
        SpinnerMeansWaiting, listVars
  <2> QED
    BY <1>1, <2>2, <2>4 DEF IndInv
<1> QED
  BY <1>2, <1>3

LEMMA NetworkInd ==
  ASSUME IndInv, Network
  PROVE  IndInv'
<1>1. CASE \E categories \in SUBSET Categories : ListAnswered(categories)
  BY <1>1, ListAnsweredInd
<1>2. CASE \E request \in requests : Channels(request) \/ ChannelsFailed(request)
  <2>1. PICK request \in requests : Channels(request) \/ ChannelsFailed(request)
    BY <1>2
  <2>2. request \in Request
    BY DEF IndInv, TypeOK
  <2>3. CASE Channels(request)
    <3>1. PICK total \in 0..MaxTotal :
            ChannelsAnswered(request, [kind |-> "page", page |-> request.page, total |-> total])
      BY <2>3 DEF Channels
    <3>2. [kind |-> "page", page |-> request.page, total |-> total] \in Rendered
      BY <2>2 DEF Rendered, Request
    <3> QED
      BY <3>1, <3>2, AnsweredInd
  <2>4. CASE ChannelsFailed(request)
    <3>1. Error.kind # "page"
      BY DEF Error
    <3> QED
      BY <2>4, <3>1, AnsweredInd DEF ChannelsFailed
  <2> QED
    BY <2>1, <2>3, <2>4
<1> QED
  BY <1>1, <1>2 DEF Network

LEMMA StutterInd ==
  ASSUME IndInv, UNCHANGED vars
  PROVE  IndInv'
<1>1. TypeOK'
  BY DEF IndInv, TypeOK, vars, hostVars, listVars, channelVars
<1>2. LifeInv'
  BY DEF IndInv, LifeInv, NothingBeforeImport, DestroyedIsGone, ListFirst, PanelFollows,
      BackShown, PanelFor, Exists, vars, hostVars, listVars, channelVars
<1>3. RequestInv'
  BY RequestInvStable DEF IndInv, vars, listVars
<1> QED
  BY <1>1, <1>2, <1>3 DEF IndInv

LEMMA StepInd == IndInv /\ [Next]_vars => IndInv'
<1> SUFFICES ASSUME IndInv, [Next]_vars PROVE IndInv'
  OBVIOUS
<1>1. CASE Host
  BY <1>1, ChooseTabInd, ImportedInd, LeaveTabInd, DestroyInd DEF Host
<1>2. ASSUME NEW c \in Categories, NEW limit \in Limits, OpenCategory(c, limit)
      PROVE  IndInv'
  BY <1>2, OpenCategoryInd
<1>3. CASE BackButton
  BY <1>3, ReturnInd DEF BackButton
<1>4. CASE BackCommand
  <2>1. Exists
    BY <1>4 DEF IndInv, LifeInv, NothingBeforeImport, BackCommand
  <2> QED
    BY <1>4, <2>1, ReturnInd DEF BackCommand
<1>5. CASE NextPage \/ PreviousPage
  BY <1>5, PagingInd
<1>6. CASE Network
  BY <1>6, NetworkInd
<1>7. CASE UNCHANGED vars
  BY <1>7, StutterInd
<1> QED
  BY <1>1, <1>2, <1>3, <1>4, <1>5, <1>6, <1>7 DEF Next, User

LEMMA Inductive == Spec => []IndInv
<1>1. Init => IndInv
  BY InitInd
<1>2. IndInv /\ [Next]_vars => IndInv'
  BY StepInd
<1> QED
  BY <1>1, <1>2, PTL DEF Spec

-----------------------------------------------------------------------------
(* The theorems. *)

\* Every variable keeps its type; in particular no page past the end of a
\* list is ever asked for (renderCategoryPaging, onNextCategoryPage).
THEOREM TypeCorrect == Spec => []TypeOK
<1>1. IndInv => TypeOK
  BY DEF IndInv
<1> QED
  BY <1>1, Inductive, PTL

\* Once nothing is pending the open category shows its own page or error.
THEOREM PageSafe == Spec => []PageIsSelected
<1>1. IndInv => PageIsSelected
  <2> SUFFICES ASSUME IndInv, tab = "programmes", Exists, panel = "channels", ~ pending
               PROVE  /\ selected # None
                      /\ content.kind # "empty"
                      /\ content.kind = "page" => content.page = selected
    BY DEF PageIsSelected
  <2>1. selected # None
    BY DEF IndInv, LifeInv, PanelFollows, PanelFor
  <2>2. loadState = "ready"
    BY <2>1 DEF IndInv, LifeInv, ListFirst, DestroyedIsGone
  <2> QED
    BY <2>1, <2>2 DEF IndInv, RequestInv, RestContent
<1> QED
  BY <1>1, Inductive, PTL

\* A pending flag always has a request whose answer will clear it.
THEOREM NeverStuck == Spec => []PendingIsAnswerable
<1>1. IndInv => PendingIsAnswerable
  BY DEF IndInv, RequestInv
<1> QED
  BY <1>1, Inductive, PTL

\* The loading indicator is on exactly while something is awaited.
THEOREM SpinnerSafe == Spec => []SpinnerMeansWaiting
<1>1. IndInv => SpinnerMeansWaiting
  BY DEF IndInv, RequestInv
<1> QED
  BY <1>1, Inductive, PTL

\* Back is taken only while a category is open in front of the user.
THEOREM BackSafe == Spec => []BackIsForCategory
<1>1. IndInv => BackIsForCategory
  BY DEF IndInv, LifeInv, BackShown, PanelFollows, PanelFor, BackIsForCategory
<1> QED
  BY <1>1, Inductive, PTL

\* Nothing is rendered after destruction.
THEOREM DestroyedStaysSilent == Spec => SilentAfterDestroy
<1> DEFINE Silent == UNCHANGED <<loadState, listed, panel, content, spinner>>
<1>1. ASSUME IndInv, [Next]_vars, loadState = "destroyed"
      PROVE  Silent
  <2>1. tab = "gone" /\ active = FALSE /\ Exists /\ ~ pending
    BY <1>1 DEF IndInv, LifeInv, RequestInv, DestroyedIsGone, NothingBeforeImport,
        PendingIsLive
  <2>2. CASE Host
    BY <2>1, <2>2 DEF Host, ChooseTab, Imported, LeaveTab, Destroy, Exists
  <2>3. CASE User
    BY <2>1, <2>3 DEF User, OpenCategory, BackButton, BackCommand, NextPage, PreviousPage,
        CanTurn
  <2>4. CASE Network
    <3>1. CASE \E categories \in SUBSET Categories : ListAnswered(categories)
      BY <1>1, <3>1 DEF ListAnswered, channelVars
    <3>2. ASSUME NEW request \in requests, NEW rendered, ChannelsAnswered(request, rendered)
          PROVE  Silent
      <4>1. ~ IsCurrentCategoryRequest(request)
        BY <1>1, <2>1 DEF IndInv, RequestInv, CurrentIsSelected, IsCurrentCategoryRequest
      <4> QED
        BY <3>2, <4>1 DEF ChannelsAnswered, listVars
    <3> QED
      BY <2>4, <3>1, <3>2 DEF Network, Channels, ChannelsFailed
  <2>5. CASE UNCHANGED vars
    BY <2>5 DEF vars, listVars, channelVars
  <2> QED
    BY <1>1, <2>2, <2>3, <2>4, <2>5 DEF Next
<1>2. IndInv /\ [Next]_vars => (loadState = "destroyed" => Silent)
  BY <1>1
<1> HIDE DEF Silent
<1>3. IndInv /\ [Next]_vars => [loadState = "destroyed" => Silent]_vars
  BY <1>2
<1>4. Spec => [][loadState = "destroyed" => Silent]_vars
  BY <1>3, Inductive, PTL DEF Spec
<1> QED
  BY <1>4 DEF SilentAfterDestroy, Silent

-----------------------------------------------------------------------------
(* The overlay.  Its requests carry no number, so that all depends on      *)
(* there being one at most; and its flag can be trusted, which is what the *)
(* clicks on the paging buttons do, unless an awaited page was left.       *)

\* The choices of the tab that are on their way, in either of their two stages.
OverlayLoads ==
    /\ arriving \in 0..MaxLoads /\ lists \in 0..MaxLoads
    /\ arriving + lists =< MaxLoads

\* The second container is the one shown exactly while a category is selected.
OverlayOpened == opened <=> selectedCategory # None

\* One page is awaited at most, and the flag is then set.
OverlayAsked == asked # {} => categoryRequestPending /\ \E page \in asked : asked = {page}

\* Unless an awaited page was left, the one awaited is the one selected, and
\* the flag says nothing but that there is one.
OverlayAwaited ==
    ~ left =>
        /\ categoryRequestPending => asked # {}
        /\ \A page \in asked : selectedCategory = page

OverlayInd ==
    /\ Overlay!TypeOK /\ OverlayLoads
    /\ OverlayOpened /\ OverlayAsked /\ OverlayAwaited
    /\ OverlayPageIsOwn /\ OverlaySpinnerEnds

LEMMA OverlayInitInd == Overlay!Init => OverlayInd
<1> SUFFICES ASSUME Overlay!Init PROVE OverlayInd
  OBVIOUS
<1>1. OverlayLoads
  BY LoadAssumption DEF Overlay!Init, OverlayLoads
<1>2. Overlay!TypeOK
  BY <1>1 DEF Overlay!Init, Overlay!TypeOK, OverlayLoads
<1>3. OverlayOpened /\ OverlayAsked /\ OverlayAwaited /\ OverlayPageIsOwn /\ OverlaySpinnerEnds
  BY DEF Overlay!Init, OverlayOpened, OverlayAsked, OverlayAwaited, OverlayPageIsOwn,
      OverlaySpinnerEnds, Overlay!PageIsOwn, Overlay!SpinnerEnds
<1> QED
  BY <1>1, <1>2, <1>3 DEF OverlayInd

\* The tab and the import touch neither the selection nor the requests.
LEMMA OverlayTabInd ==
  ASSUME OverlayInd, Overlay!ChooseTab \/ Overlay!LeaveTab \/ Overlay!RenderTab
  PROVE  OverlayInd'
<1>1. UNCHANGED <<categoryMap, Overlay!channelVars, left>>
  BY DEF Overlay!ChooseTab, Overlay!LeaveTab, Overlay!RenderTab
<1> USE DEF Overlay!ChooseTab, Overlay!LeaveTab, Overlay!RenderTab
<1>2. OverlayLoads'
  BY LoadAssumption DEF OverlayInd, OverlayLoads
<1>3. Overlay!TypeOK'
  BY <1>1, <1>2 DEF OverlayInd, Overlay!TypeOK, OverlayLoads, Overlay!channelVars
<1>4. (OverlayOpened /\ OverlayAsked /\ OverlayAwaited /\ OverlayPageIsOwn)'
  BY <1>1 DEF OverlayInd, OverlayOpened, OverlayAsked, OverlayAwaited, OverlayPageIsOwn,
      Overlay!PageIsOwn, Overlay!channelVars
<1>5. OverlaySpinnerEnds'
  <2>1. lists \in Nat
    BY LoadAssumption DEF OverlayInd, OverlayLoads
  <2>2. lists' > 0 \/ (lists' = lists /\ loading' = loading)
    BY <2>1
  <2>3. asked' = asked /\ left' = left
    BY <1>1 DEF Overlay!channelVars
  <2> QED
    BY <2>2, <2>3 DEF OverlayInd, OverlaySpinnerEnds, Overlay!SpinnerEnds
<1> QED
  BY <1>2, <1>3, <1>4, <1>5 DEF OverlayInd

\* The list closes what is open, and so does the back button.
LEMMA OverlayCloseInd ==
  ASSUME OverlayInd,
         \/ \E categories \in SUBSET Categories : Overlay!ListAnswered(categories)
         \/ Overlay!ReturnToCategoryList
  PROVE  OverlayInd'
<1> USE DEF Overlay!ListAnswered, Overlay!ReturnToCategoryList, Overlay!Select,
        Overlay!LeftBehind, Overlay!loadVars
<1>1. /\ ~ opened' /\ selectedCategory' = None
      /\ left' = (left \/ asked # {})
      /\ UNCHANGED <<asked, categoryRequestPending, items, paging>>
  OBVIOUS
<1>2. OverlayLoads'
  BY LoadAssumption DEF OverlayInd, OverlayLoads
<1>3. Overlay!TypeOK'
  BY <1>1, <1>2 DEF OverlayInd, Overlay!TypeOK, OverlayLoads
<1>4. (OverlayOpened /\ OverlayAsked /\ OverlayAwaited /\ OverlayPageIsOwn)'
  BY <1>1 DEF OverlayInd, OverlayOpened, OverlayAsked, OverlayAwaited, OverlayPageIsOwn,
      Overlay!PageIsOwn
<1>5. OverlaySpinnerEnds'
  BY <1>1 DEF OverlayInd, OverlaySpinnerEnds, Overlay!SpinnerEnds
<1> QED
  BY <1>2, <1>3, <1>4, <1>5 DEF OverlayInd

\* A page is selected: it is asked for if nothing else is awaited, and else an
\* awaited page is left.
LEMMA OverlayLoadInd ==
  ASSUME OverlayInd, NEW page \in Overlay!Page,
         opened', selectedCategory' = page,
         Overlay!LoadCategoryChannels(page),
         categoryRequestPending => left' = (left \/ asked # {}),
         ~ categoryRequestPending => ~ left',
         left' \in BOOLEAN,
         UNCHANGED <<Overlay!loadVars, items, paging>>
  PROVE  OverlayInd'
<1>1. page # None
  BY NoneAssumption DEF Overlay!Page
<1>2. CASE categoryRequestPending
  <2>1. left' /\ UNCHANGED <<categoryRequestPending, asked, loading>>
    BY <1>2 DEF OverlayInd, OverlayAwaited, Overlay!LoadCategoryChannels
  <2>2. Overlay!TypeOK' /\ OverlayLoads'
    BY <2>1 DEF OverlayInd, OverlayLoads, Overlay!TypeOK, Overlay!loadVars
  <2>3. (OverlayOpened /\ OverlayAsked /\ OverlayAwaited)'
    BY <1>1, <2>1 DEF OverlayInd, OverlayOpened, OverlayAsked, OverlayAwaited
  <2>4. (OverlayPageIsOwn /\ OverlaySpinnerEnds)'
    BY <2>1 DEF OverlayPageIsOwn, OverlaySpinnerEnds, Overlay!PageIsOwn, Overlay!SpinnerEnds
  <2> QED
    BY <2>2, <2>3, <2>4 DEF OverlayInd
<1>3. CASE ~ categoryRequestPending
  <2>1. ~ left' /\ categoryRequestPending' /\ loading' = TRUE /\ asked' = {page}
    BY <1>3 DEF OverlayInd, OverlayAsked, Overlay!LoadCategoryChannels
  <2>2. Overlay!TypeOK' /\ OverlayLoads'
    BY <1>3, <2>1 DEF OverlayInd, OverlayLoads, Overlay!TypeOK, Overlay!loadVars,
        Overlay!LoadCategoryChannels
  <2>3. (OverlayOpened /\ OverlayAsked /\ OverlayAwaited)'
    BY <1>1, <2>1 DEF OverlayOpened, OverlayAsked, OverlayAwaited
  <2>4. (OverlayPageIsOwn /\ OverlaySpinnerEnds)'
    BY <2>1 DEF OverlayPageIsOwn, OverlaySpinnerEnds, Overlay!PageIsOwn, Overlay!SpinnerEnds
  <2> QED
    BY <2>2, <2>3, <2>4 DEF OverlayInd
<1> QED
  BY <1>2, <1>3

LEMMA OverlayOpenInd ==
  ASSUME OverlayInd, NEW c \in Categories, NEW limit \in Limits,
         Overlay!OpenCategory(c, limit)
  PROVE  OverlayInd'
<1> DEFINE page == [id |-> c, start |-> 0, limit |-> limit]
<1>1. page \in Overlay!Page
  BY TotalAssumption DEF Overlay!Page
<1>2. page # None
  BY <1>1, NoneAssumption DEF Overlay!Page
<1>3. /\ opened' /\ selectedCategory' = page
      /\ Overlay!LoadCategoryChannels(page)
      /\ left' = (categoryRequestPending /\ (left \/ asked # {}))
      /\ UNCHANGED <<Overlay!loadVars, items, paging>>
  BY <1>2 DEF Overlay!OpenCategory, Overlay!Select
<1> QED
  BY <1>1, <1>3, OverlayLoadInd DEF OverlayInd, Overlay!TypeOK

LEMMA OverlayTurnInd ==
  ASSUME OverlayInd, Overlay!NextPage \/ Overlay!PreviousPage
  PROVE  OverlayInd'
<1>1. /\ opened /\ selectedCategory \in Overlay!Page
      /\ ~ categoryRequestPending
  BY DEF OverlayInd, Overlay!TypeOK, Overlay!NextPage, Overlay!PreviousPage, Overlay!CanTurn
<1>2. PICK start \in 0..MaxTotal : Overlay!Turn(start)
  <2>1. /\ selectedCategory.start \in 0..MaxTotal
        /\ selectedCategory.limit \in Nat
    BY <1>1, LimitAssumption DEF Overlay!Page
  <2>2. CASE Overlay!NextPage
    BY <2>1, <2>2, TotalAssumption DEF Overlay!NextPage, Overlay!Turn
  <2>3. CASE Overlay!PreviousPage
    BY <2>1, <2>3, TotalAssumption DEF Overlay!PreviousPage, Overlay!Turn
  <2> QED
    BY <2>2, <2>3
<1> DEFINE page == [selectedCategory EXCEPT !.start = start]
<1>3. page \in Overlay!Page
  BY <1>1, <1>2 DEF Overlay!Page
<1>4. /\ opened' /\ selectedCategory' = page
      /\ Overlay!LoadCategoryChannels(page)
      /\ left' = (left /\ categoryRequestPending)
      /\ UNCHANGED <<Overlay!loadVars, items, paging>>
  BY <1>1, <1>2 DEF Overlay!Turn
<1> QED
  BY <1>1, <1>3, <1>4, OverlayLoadInd

\* An answer comes for the selected page, or for one that was left.
LEMMA OverlayAnswerInd ==
  ASSUME OverlayInd, NEW page \in asked,
         Overlay!ChannelsFailed(page) \/ \E total \in 0..MaxTotal : Overlay!Channels(page, total)
  PROVE  OverlayInd'
<1>1. /\ page \in Overlay!Page
      /\ asked = {page} /\ asked' = {}
      /\ UNCHANGED <<Overlay!loadVars, opened, selectedCategory, left>>
  BY DEF OverlayInd, OverlayAsked, Overlay!TypeOK, Overlay!ChannelsFailed, Overlay!Channels
<1>2. ~ left => selectedCategory = page /\ page # None
  BY <1>1, NoneAssumption DEF OverlayInd, OverlayAwaited, Overlay!Page
<1>3. OverlayLoads'
  BY <1>1 DEF OverlayInd, OverlayLoads, Overlay!loadVars
<1>4. OverlayOpened' /\ OverlayAsked'
  BY <1>1 DEF OverlayInd, OverlayOpened, OverlayAsked
<1>5. CASE Overlay!ChannelsFailed(page)
  <2>1. Overlay!TypeOK'
    BY <1>1, <1>5 DEF OverlayInd, Overlay!TypeOK, Overlay!ChannelsFailed, Overlay!loadVars
  <2>2. (OverlayAwaited /\ OverlayPageIsOwn /\ OverlaySpinnerEnds)'
    BY <1>1, <1>5 DEF Overlay!ChannelsFailed, OverlayAwaited, OverlayPageIsOwn,
        OverlaySpinnerEnds, Overlay!PageIsOwn, Overlay!SpinnerEnds
  <2> QED
    BY <1>3, <1>4, <2>1, <2>2 DEF OverlayInd
<1>6. ASSUME NEW total \in 0..MaxTotal, Overlay!Channels(page, total)
      PROVE  OverlayInd'
  <2>1. items' = [kind |-> "page", page |-> page]
    BY <1>6 DEF Overlay!Channels
  <2>2. CASE selectedCategory = None
    <3>1. left /\ UNCHANGED <<paging, categoryRequestPending, loading>>
      BY <1>2, <1>6, <2>2 DEF OverlayInd, Overlay!TypeOK, Overlay!Channels
    <3>2. Overlay!TypeOK'
      BY <1>1, <2>1, <3>1 DEF OverlayInd, Overlay!TypeOK, Overlay!Items, Overlay!loadVars
    <3>3. (OverlayAwaited /\ OverlayPageIsOwn /\ OverlaySpinnerEnds)'
      BY <1>1, <3>1 DEF OverlayAwaited, OverlayPageIsOwn, OverlaySpinnerEnds,
          Overlay!PageIsOwn, Overlay!SpinnerEnds
    <3> QED
      BY <1>3, <1>4, <3>2, <3>3 DEF OverlayInd
  <2>3. CASE selectedCategory # None
    <3>1. /\ paging' = [start |-> selectedCategory.start, limit |-> selectedCategory.limit,
                        total |-> total]
          /\ categoryRequestPending' = FALSE
          /\ loading' = FALSE
      BY <1>6, <2>3 DEF Overlay!Channels
    <3>2. selectedCategory.start \in 0..MaxTotal /\ selectedCategory.limit \in Limits
      BY <2>3 DEF OverlayInd, Overlay!TypeOK, Overlay!Page
    <3>3. paging' \in Overlay!Buttons
      BY <1>6, <3>1, <3>2 DEF Overlay!Buttons
    <3>4. Overlay!TypeOK'
      BY <1>1, <2>1, <3>1, <3>3 DEF OverlayInd, Overlay!TypeOK, Overlay!Items,
          Overlay!loadVars
    <3>5. OverlayAwaited' /\ OverlaySpinnerEnds'
      BY <1>1, <3>1 DEF OverlayAwaited, OverlaySpinnerEnds, Overlay!SpinnerEnds
    <3>6. OverlayPageIsOwn'
      BY <1>1, <1>2, <2>1, <3>1 DEF OverlayPageIsOwn, Overlay!PageIsOwn
    <3> QED
      BY <1>3, <1>4, <3>4, <3>5, <3>6 DEF OverlayInd
  <2> QED
    BY <2>2, <2>3
<1> QED
  BY <1>5, <1>6

LEMMA OverlayStep == OverlayInd /\ Overlay!Next => OverlayInd'
<1> SUFFICES ASSUME OverlayInd, Overlay!Next PROVE OverlayInd'
  OBVIOUS
<1>1. CASE Overlay!ChooseTab \/ Overlay!LeaveTab \/ Overlay!RenderTab
  BY <1>1, OverlayTabInd
<1>2. CASE \/ \E categories \in SUBSET Categories : Overlay!ListAnswered(categories)
           \/ Overlay!ReturnToCategoryList
  BY <1>2, OverlayCloseInd
<1>3. CASE \E c \in Categories, limit \in Limits : Overlay!OpenCategory(c, limit)
  BY <1>3, OverlayOpenInd
<1>4. CASE Overlay!NextPage \/ Overlay!PreviousPage
  BY <1>4, OverlayTurnInd
<1>5. CASE \E page \in asked : \/ Overlay!ChannelsFailed(page)
                               \/ \E total \in 0..MaxTotal : Overlay!Channels(page, total)
  BY <1>5, OverlayAnswerInd
<1> QED
  BY <1>1, <1>2, <1>3, <1>4, <1>5 DEF Overlay!Next

LEMMA OverlayInductive == MCSpec => []OverlayInd
<1>1. MCInit => OverlayInd
  BY OverlayInitInd DEF MCInit
<1>2. OverlayInd /\ [MCNext]_<<build, vars, overlayVars>> => OverlayInd'
  <2> SUFFICES ASSUME OverlayInd, [MCNext]_<<build, vars, overlayVars>>
               PROVE  OverlayInd'
    OBVIOUS
  <2>1. CASE Overlay!Next
    BY <2>1, OverlayStep
  <2>2. CASE UNCHANGED overlayVars
    BY <2>2 DEF overlayVars, OverlayInd, OverlayLoads, OverlayOpened, OverlayAsked,
        OverlayAwaited, OverlayPageIsOwn, OverlaySpinnerEnds, Overlay!TypeOK,
        Overlay!PageIsOwn, Overlay!SpinnerEnds
  <2> QED
    BY <2>1, <2>2 DEF MCNext
<1> QED
  BY <1>1, <1>2, PTL DEF MCSpec

\* A category of the overlay shows at rest its own page, with the buttons of
\* that page, or its own error, unless it was left while its page was awaited
\* (loadCategoryChannels).
THEOREM OverlayPageSafe == MCSpec => []OverlayPageIsOwn
<1>1. OverlayInd => OverlayPageIsOwn
  BY DEF OverlayInd
<1> QED
  BY <1>1, OverlayInductive, PTL

\* The overlay asks for one page at a time, and its flag can be trusted until a
\* page is left while it is awaited (categoryRequestPending).
THEOREM OverlayRequestSafe == MCSpec => []OverlayOneRequest
<1>1. OverlayInd => OverlayOneRequest
  BY DEF OverlayInd, OverlayAsked, OverlayAwaited, OverlayOneRequest, Overlay!OneRequest
<1> QED
  BY <1>1, OverlayInductive, PTL

\* The overlay's indicator does not go on with nothing to wait for, with the
\* same exception (loading.show, loading.hide).
THEOREM OverlaySpinnerSafe == MCSpec => []OverlaySpinnerEnds
<1>1. OverlayInd => OverlaySpinnerEnds
  BY DEF OverlayInd
<1> QED
  BY <1>1, OverlayInductive, PTL

=============================================================================
