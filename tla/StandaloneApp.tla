--------------------------- MODULE StandaloneApp ---------------------------
(***************************************************************************)
(* The independent browser page (web/standalone/app.js): one script, one   *)
(* request at a time, the browser's session storage and its history.       *)
(*                                                                         *)
(* Every action is one event handler run to completion: a click, a key, an *)
(* answer of the server, a move through the browser's history, a reload.   *)
(* What the handlers call (loadChannels, loadCategories, request, save,    *)
(* historyState, clearSession) are operators that give the primed          *)
(* variables; their last argument r is the request whose answer is being   *)
(* handled, or None in a handler of the user's input.                      *)
(*                                                                         *)
(* The server and its answers are external: any outcome may come back.     *)
(* A timeout and a lost connection are the outcome "failed".  Names, texts *)
(* and the focused card are left out.                                      *)
(***************************************************************************)
EXTENDS Integers, Sequences, FiniteSets

CONSTANTS
    Users,              \* accounts that may sign in
    Listed,             \* the categories the plugin may list
    AllChannels,        \* core.ALL_CHANNELS
    PageSize,           \* core.PAGE_SIZE
    MaxTotal,           \* bound: the largest TotalRecordCount
    MaxHistory,         \* bound: the depth of the browser's history
    MaxSuperseded,      \* bound: aborted requests whose answer still comes
    None                \* null

ASSUME PageAssumption ==
    /\ PageSize \in Nat \ {0}
    /\ MaxTotal \in Nat
    /\ MaxHistory \in Nat \ {0}
    /\ MaxSuperseded \in Nat

ASSUME NameAssumption ==
    /\ AllChannels \notin Listed
    /\ None \notin Users \cup Listed \cup {AllChannels}

VARIABLES
    \* the script's variables
    session,            \* whose session the page holds
    selectedCategory,
    startIndex,
    categoryEntries,    \* also what the categories list shows
    totalChannels,
    retryAction,
    pendingRequest,     \* the request of the current requestGeneration
    superseded,         \* requests of earlier generations, still in flight
    \* the document
    view,               \* the section that is not hidden
    status,             \* a loading text is shown
    error,              \* the error panel is shown
    channelsPage,       \* the page the channels list shows
    previousEnabled,
    nextEnabled,
    signInEnabled,
    \* the browser
    stored,             \* the session storage's value
    history,            \* the state of each history entry
    position,           \* the current entry
    \* history of the run, read by the properties only
    account,            \* who signed in last and has not left since
    contract            \* the last verdict on the API's contract version

scriptVars == <<session, selectedCategory, startIndex, categoryEntries, totalChannels>>
pagingVars == <<channelsPage, previousEnabled, nextEnabled>>
browserVars == <<stored, history, position>>
ghostVars == <<account, contract>>
vars == <<scriptVars, retryAction, pendingRequest, superseded, view, status,
          error, pagingVars, signInEnabled, browserVars, ghostVars>>

Categories == Listed \cup {AllChannels}
PageStarts == {n \in 0..MaxTotal : n % PageSize = 0}

Entry(category, start) == [category |-> category, start |-> start]
Saved(user, category, start) == [user |-> user, category |-> category, start |-> start]

\* A request remembers what its callback closes over.  restore is the
\* argument of checkCompatibility, account the name typed into the form.
Request(kind, user, category, start, restore) ==
    [kind |-> kind, user |-> user, category |-> category, start |-> start,
     restore |-> restore]

Kinds == {"login", "compatibility", "categories", "channels"}

RequestType ==
    [kind : Kinds, user : Users, category : Categories \cup {None},
     start : PageStarts, restore : BOOLEAN]

ASSUME RequestAssumption == None \notin RequestType
ASSUME ShownAssumption == None \notin [user : Users, category : Categories, start : PageStarts]

Init ==
    /\ session = None
    /\ selectedCategory = None
    /\ startIndex = 0
    /\ categoryEntries = {}
    /\ totalChannels = 0
    /\ retryAction = "none"
    /\ pendingRequest = None
    /\ superseded = {}
    /\ view = "login"
    /\ status = FALSE
    /\ error = FALSE
    /\ channelsPage = None
    /\ previousEnabled = TRUE
    /\ nextEnabled = TRUE
    /\ signInEnabled = TRUE
    /\ stored = None
    /\ history = <<Entry(None, 0)>>
    /\ position = 1
    /\ account = None
    /\ contract = "unchecked"

-----------------------------------------------------------------------------
(* The functions every handler is built from. *)

SaveCategory(user, category, start) ==
    stored' = IF user = None THEN stored ELSE Saved(user, category, 0)

\* save(): nothing is written without a session.
Save(user, category, start) ==
    stored' = IF user = None THEN stored ELSE Saved(user, category, start)

\* historyState(false) and historyState(true); the latter drops the entries
\* in front of the current one.
ReplaceState(category, start) ==
    /\ history' = [history EXCEPT ![position] = Entry(category, start)]
    /\ UNCHANGED position

PushState(category, start) ==
    /\ history' = Append(SubSeq(history, 1, position), Entry(category, start))
    /\ position' = position + 1

\* What abort() leaves of a request: nothing, or an answer that still comes.
Abort ==
    \/ UNCHANGED superseded
    \/ /\ pendingRequest # None
       /\ Cardinality(superseded) < MaxSuperseded
       /\ superseded' = superseded \cup {pendingRequest}

\* request(): the new request is the only one of the current generation.
Send(request, r) ==
    /\ pendingRequest' = request
    /\ IF r = None THEN Abort ELSE superseded' = superseded \ {r}

\* The end of a callback that sends nothing.
Done(r) ==
    /\ pendingRequest' = None
    /\ superseded' = superseded \ {r}

AnyGeneration(r) == TRUE

\* generation === requestGeneration, the first line of every answer's handler.
CurrentGeneration(r) == r = pendingRequest

InFlight == superseded \cup ({pendingRequest} \ {None})

\* The answers a callback gets to see.
Answered(kind) == {r \in InFlight : r.kind = kind /\ CurrentGeneration(r)}

ShowError(retry) ==
    /\ error' = TRUE
    /\ retryAction' = retry

HidePanel ==
    /\ error' = FALSE
    /\ UNCHANGED retryAction

\* message('') also forgets what the retry button did.
ClearError ==
    /\ error' = FALSE
    /\ retryAction' = "none"

\* loadCategories() up to its request.
LoadCategories(user, r) ==
    /\ status' = TRUE
    /\ Send(Request("categories", user, None, 0, FALSE), r)

\* checkCompatibility(restoreChannels) up to its request.
CheckCompatibility(user, restore, r) ==
    /\ status' = TRUE
    /\ Send(Request("compatibility", user, None, 0, restore), r)

KeepPage == UNCHANGED pagingVars

\* The page on the screen makes room for the one to be loaded.
ClearPage ==
    /\ channelsPage' = None
    /\ previousEnabled' = FALSE
    /\ nextEnabled' = FALSE

\* loadChannels() for the category and page the caller has just selected.
LoadChannels(category, start, r) ==
    /\ selectedCategory' = category
    /\ startIndex' = start
    /\ view' = "channels"
    /\ ClearPage
    /\ ClearError
    /\ status' = TRUE
    /\ Save(session, category, start)
    /\ Send(Request("channels", session, category, start, FALSE), r)

\* renderCategories() and the message that follows it.
RenderCategories(entries) ==
    /\ categoryEntries' = entries
    /\ view' = "categories"
    /\ status' = FALSE

\* clearSession(note): startIndex and totalChannels keep their values.
ClearSession(r) ==
    /\ pendingRequest' = None
    /\ IF r = None THEN Abort ELSE superseded' = superseded \ {r}
    /\ session' = None
    /\ selectedCategory' = None
    /\ categoryEntries' = {}
    /\ stored' = None
    /\ channelsPage' = None
    /\ status' = FALSE
    /\ view' = "login"
    /\ signInEnabled' = TRUE
    /\ ReplaceState(None, startIndex)
    /\ ShowError("none")
    /\ account' = None
    /\ contract' = "unchecked"
    /\ UNCHANGED <<startIndex, totalChannels, previousEnabled, nextEnabled>>

-----------------------------------------------------------------------------
(* Signing in and out. *)

\* The form is also on the screen while a reloaded page checks the session it
\* found in the storage.
SubmitLogin(user) ==
    /\ view = "login"
    /\ signInEnabled
    /\ signInEnabled' = FALSE
    /\ ClearError
    /\ status' = TRUE
    /\ Send(Request("login", user, None, 0, FALSE), None)
    /\ UNCHANGED <<scriptVars, view, pagingVars, browserVars, ghostVars>>

LoginAccepted(r) ==
    /\ session' = r.user
    /\ signInEnabled' = TRUE
    /\ Save(r.user, selectedCategory, startIndex)
    /\ ReplaceState(selectedCategory, startIndex)
    /\ CheckCompatibility(r.user, FALSE, r)
    /\ account' = r.user
    /\ contract' = "unchecked"
    /\ UNCHANGED <<selectedCategory, startIndex, categoryEntries, totalChannels,
                   retryAction, view, error, pagingVars>>

\* The form is used again whatever went wrong; a 401 that meets an existing
\* session is SessionExpired.
LoginRejected(r) ==
    /\ signInEnabled' = TRUE
    /\ status' = FALSE
    /\ ShowError("none")
    /\ Done(r)
    /\ UNCHANGED <<scriptVars, view, pagingVars, browserVars, ghostVars>>

SessionExpired(r) ==
    /\ session # None
    /\ ClearSession(r)

SignOut ==
    /\ view # "login"
    /\ ClearSession(None)

-----------------------------------------------------------------------------
(* The contract check. *)

\* The list is reduced to All channels without a request.
ContractUnsupported(r) ==
    /\ selectedCategory' = None
    /\ RenderCategories({AllChannels})
    /\ ShowError("none")
    /\ Save(session, None, startIndex)
    /\ Done(r)
    /\ contract' = "unsupported"
    /\ UNCHANGED <<session, startIndex, totalChannels, pagingVars, signInEnabled,
                   history, position, account>>

CompatibilityForbidden(r) ==
    /\ selectedCategory' = None
    /\ RenderCategories({})
    /\ ShowError("none")
    /\ Done(r)
    /\ UNCHANGED <<session, startIndex, totalChannels, pagingVars, signInEnabled,
                   browserVars, ghostVars>>

\* A version 1 contract, or any other failure of the check: go on.
CompatibilityChecked(r, verdict) ==
    /\ contract' = verdict
    /\ IF r.restore /\ selectedCategory # None
       THEN /\ LoadChannels(selectedCategory, startIndex, r)
            /\ UNCHANGED <<session, categoryEntries, totalChannels, signInEnabled,
                           history, position, account>>
       ELSE /\ LoadCategories(session, r)
            /\ UNCHANGED <<scriptVars, retryAction, view, error, pagingVars,
                           signInEnabled, browserVars, account>>

-----------------------------------------------------------------------------
(* The list of categories. *)

CategoriesLoaded(r, listed) ==
    /\ RenderCategories(listed \cup {AllChannels})
    /\ ClearError
    /\ Save(session, selectedCategory, startIndex)
    /\ Done(r)
    /\ UNCHANGED <<session, selectedCategory, startIndex, totalChannels, pagingVars,
                   signInEnabled, history, position, ghostVars>>

\* A 403 leaves no entry and saves nothing; any other failure leaves the
\* ordinary channel list.
CategoriesForbidden(r) ==
    /\ RenderCategories({})
    /\ ShowError("categories")
    /\ Done(r)
    /\ UNCHANGED <<session, selectedCategory, startIndex, totalChannels, pagingVars,
                   signInEnabled, browserVars, ghostVars>>

CategoriesFailed(r) ==
    /\ RenderCategories({AllChannels})
    /\ ShowError("categories")
    /\ Save(session, selectedCategory, startIndex)
    /\ Done(r)
    /\ UNCHANGED <<session, selectedCategory, startIndex, totalChannels, pagingVars,
                   signInEnabled, history, position, ghostVars>>

Open(category) ==
    /\ view = "categories"
    /\ category \in categoryEntries
    /\ position < MaxHistory
    /\ PushState(category, 0)
    /\ LoadChannels(category, 0, None)
    /\ UNCHANGED <<session, categoryEntries, totalChannels, signInEnabled, ghostVars>>

-----------------------------------------------------------------------------
(* The pages of channels. *)

PageAfterTotal(total) == ((total \div PageSize) + 1) * PageSize

\* The start of the last page of total channels.
LastPage(total) == ((total - 1) \div PageSize) * PageSize

\* An empty page past the end: the last page is loaded in its place.
ChannelsBeyondEnd(r, total) ==
    /\ r.start >= total
    /\ total > 0
    /\ totalChannels' = total
    /\ ReplaceState(selectedCategory, LastPage(total))
    /\ LoadChannels(selectedCategory, LastPage(total), r)
    /\ UNCHANGED <<session, categoryEntries, signInEnabled, ghostVars>>

\* The page is shown, also when the server's list and count disagree.
ChannelsLoaded(r, total) ==
    /\ totalChannels' = total
    /\ channelsPage' = Saved(session, r.category, r.start)
    /\ previousEnabled' = (r.start # 0)
    /\ nextEnabled' = (r.start + PageSize < total)
    /\ status' = FALSE
    /\ Save(session, selectedCategory, startIndex)
    /\ ReplaceState(selectedCategory, startIndex)
    /\ Done(r)
    /\ UNCHANGED <<session, selectedCategory, startIndex, categoryEntries, retryAction,
                   view, error, signInEnabled, ghostVars>>

ChannelsFailed(r) ==
    /\ status' = FALSE
    /\ ShowError("channels")
    /\ Done(r)
    /\ UNCHANGED <<scriptVars, view, pagingVars, signInEnabled, browserVars, ghostVars>>

\* While the list of categories loads, the page and its buttons are still
\* there with no category selected: loadChannels then returns at once.
TurnTo(start) ==
    IF selectedCategory # None
    THEN /\ LoadChannels(selectedCategory, start, None)
         /\ UNCHANGED <<session, categoryEntries, totalChannels, signInEnabled,
                        history, position, ghostVars>>
    ELSE /\ startIndex' = start
         /\ UNCHANGED <<session, selectedCategory, categoryEntries, totalChannels,
                        retryAction, pendingRequest, superseded, view, status, error,
                        pagingVars, signInEnabled, browserVars, ghostVars>>

PreviousPage ==
    /\ view = "channels"
    /\ previousEnabled
    /\ startIndex > 0
    /\ TurnTo(IF startIndex > PageSize THEN startIndex - PageSize ELSE 0)

NextPage ==
    /\ view = "channels"
    /\ nextEnabled
    /\ startIndex + PageSize < totalChannels
    /\ TurnTo(startIndex + PageSize)

\* A click on a channel keeps the place; the page is then left.
OpenChannel ==
    /\ view = "channels"
    /\ channelsPage # None
    /\ Save(session, selectedCategory, startIndex)
    /\ ReplaceState(selectedCategory, startIndex)
    /\ UNCHANGED <<scriptVars, retryAction, pendingRequest, superseded, view, status,
                   error, pagingVars, signInEnabled, ghostVars>>

\* The Back button of the channels view, or a Back key anywhere.
BackToCategories ==
    /\ view = "channels" \/ selectedCategory # None
    /\ selectedCategory' = None
    /\ startIndex' = 0
    /\ Save(session, None, 0)
    /\ ReplaceState(None, 0)
    /\ LoadCategories(session, None)
    /\ UNCHANGED <<session, categoryEntries, totalChannels, retryAction, view, error,
                   pagingVars, signInEnabled, ghostVars>>

Retry ==
    \/ /\ retryAction = "categories"
       /\ LoadCategories(session, None)
       /\ UNCHANGED <<scriptVars, retryAction, view, error, pagingVars, signInEnabled,
                      browserVars, ghostVars>>
    \/ /\ retryAction = "channels"
       /\ selectedCategory # None
       /\ LoadChannels(selectedCategory, startIndex, None)
       /\ UNCHANGED <<session, categoryEntries, totalChannels, signInEnabled,
                      history, position, ghostVars>>

-----------------------------------------------------------------------------
(* The browser. *)

\* popstate: without a session nothing follows the entry.
Traverse(p) ==
    /\ p \in {position - 1, position + 1} \cap DOMAIN history
    /\ position' = p
    /\ UNCHANGED <<session, categoryEntries, totalChannels, signInEnabled, history, ghostVars>>
    /\ \/ /\ session = None
          /\ UNCHANGED <<selectedCategory, startIndex, retryAction, pendingRequest,
                         superseded, view, status, error, pagingVars, stored>>
       \/ /\ session # None
          /\ history[p].category # None
          /\ LoadChannels(history[p].category, history[p].start, None)
       \/ /\ session # None
          /\ history[p].category = None
          /\ selectedCategory' = None
          /\ startIndex' = history[p].start
          /\ Save(session, None, history[p].start)
          /\ LoadCategories(session, None)
          /\ UNCHANGED <<retryAction, view, error, pagingVars>>

\* The page comes back from the browser's Back cache: pagehide, then pageshow.
Restore ==
    /\ session # None
    /\ Save(session, selectedCategory, startIndex)
    /\ CheckCompatibility(session, TRUE, None)
    /\ UNCHANGED <<scriptVars, retryAction, view, error, pagingVars, signInEnabled,
                   history, position, ghostVars>>

\* The document is loaded again, after a pagehide (hidden) or after a crash.
Reload(hidden) ==
    LET kept == IF hidden /\ session # None
                THEN Saved(session, selectedCategory, startIndex) ELSE stored
        place == IF kept = None THEN Entry(None, 0) ELSE Entry(kept.category, kept.start)
    IN  /\ stored' = kept
        /\ session' = IF kept = None THEN None ELSE kept.user
        /\ selectedCategory' = place.category
        /\ startIndex' = place.start
        /\ ReplaceState(place.category, place.start)
        /\ pendingRequest' = IF kept = None THEN None
                             ELSE Request("compatibility", kept.user, None, 0, TRUE)
        /\ status' = (kept # None)
        /\ superseded' = {}
        /\ categoryEntries' = {}
        /\ totalChannels' = 0
        /\ ClearError
        /\ view' = "login"
        /\ channelsPage' = None
        /\ previousEnabled' = TRUE
        /\ nextEnabled' = TRUE
        /\ signInEnabled' = TRUE
        /\ contract' = "unchecked"
        /\ UNCHANGED account

-----------------------------------------------------------------------------
\* An answer of an earlier generation is dropped.
Ignore(r) ==
    /\ r \in superseded
    /\ ~ CurrentGeneration(r)
    /\ superseded' = superseded \ {r}
    /\ UNCHANGED <<scriptVars, retryAction, pendingRequest, view, status, error,
                   pagingVars, signInEnabled, browserVars, ghostVars>>

Answer ==
    \/ \E r \in Answered("login") : LoginAccepted(r) \/ LoginRejected(r) \/ SessionExpired(r)
    \/ \E r \in Answered("compatibility") :
          \/ ContractUnsupported(r)
          \/ CompatibilityForbidden(r)
          \/ \E verdict \in {"supported", contract} : CompatibilityChecked(r, verdict)
          \/ SessionExpired(r)
    \/ \E r \in Answered("categories") :
          \/ \E listed \in SUBSET Listed : CategoriesLoaded(r, listed)
          \/ CategoriesForbidden(r)
          \/ CategoriesFailed(r)
          \/ SessionExpired(r)
    \/ \E r \in Answered("channels") :
          \/ \E total \in 0..MaxTotal : ChannelsBeyondEnd(r, total) \/ ChannelsLoaded(r, total)
          \/ ChannelsFailed(r)
          \/ SessionExpired(r)

Network == Answer \/ \E r \in superseded : Ignore(r)

Input ==
    \/ \E user \in Users : SubmitLogin(user)
    \/ SignOut
    \/ \E category \in Categories : Open(category)
    \/ PreviousPage \/ NextPage \/ OpenChannel \/ BackToCategories \/ Retry
    \/ \E p \in DOMAIN history : Traverse(p)
    \/ Restore
    \/ \E hidden \in BOOLEAN : Reload(hidden)

Next == Network \/ Input

\* Every request is answered or times out after 20 seconds.
Spec == Init /\ [][Next]_vars /\ WF_vars(Answer)

-----------------------------------------------------------------------------
(* Properties. *)

\* Every variable has its type; pages start at multiples of the page size.
TypeOK ==
    /\ session \in Users \cup {None}
    /\ selectedCategory \in Categories \cup {None}
    /\ startIndex \in PageStarts
    /\ categoryEntries \subseteq Categories
    /\ totalChannels \in 0..MaxTotal
    /\ retryAction \in {"none", "categories", "channels"}
    /\ pendingRequest \in RequestType \cup {None}
    /\ superseded \subseteq RequestType
    /\ view \in {"login", "categories", "channels"}
    /\ status \in BOOLEAN
    /\ error \in BOOLEAN
    /\ channelsPage \in [user : Users, category : Categories, start : PageStarts] \cup {None}
    /\ previousEnabled \in BOOLEAN
    /\ nextEnabled \in BOOLEAN
    /\ signInEnabled \in BOOLEAN
    /\ stored \in [user : Users, category : Categories \cup {None}, start : PageStarts] \cup {None}
    /\ history \in Seq([category : Categories \cup {None}, start : PageStarts])
    /\ position \in DOMAIN history
    /\ account \in Users \cup {None}
    /\ contract \in {"unchecked", "supported", "unsupported"}

\* Signing out, or a session that expires, ends everything of the account:
\* no later answer, reload or move through the history brings its session,
\* its categories or its channels back (clearSession, and the generation
\* check of request).
SignedOutIsClean ==
    /\ session \in {None, account}
    /\ stored # None => stored.user = account
    /\ session = None =>
          /\ view = "login"
          /\ selectedCategory = None
          /\ categoryEntries = {}
          /\ channelsPage = None
          /\ retryAction = "none"
          /\ pendingRequest # None => pendingRequest.kind = "login"

\* The channels on the screen are those the session's user was sent for the
\* selected category and page, however late answers arrive (loadChannels).
PageIsSelected ==
    channelsPage # None =>
        /\ channelsPage.user = session
        /\ view = "channels" /\ selectedCategory # None =>
              /\ channelsPage.category = selectedCategory
              /\ channelsPage.start = startIndex

\* The page never comes to rest in a dead end: with nothing in flight no
\* loading text is left, the sign-in form can be used, the channels view
\* shows a page or an error, and a retry button repeats what that view shows.
RestIsUsable ==
    /\ status = (pendingRequest # None)
    /\ pendingRequest = None =>
          /\ view = "login" => signInEnabled
          /\ view = "channels" => channelsPage # None \/ error
          /\ view = "categories" => categoryEntries # {} \/ error
          /\ retryAction # "none" => error /\ view = retryAction

\* A channel opened from a page at rest can be returned to: the session
\* storage names that category and page for a reload, and once the page was
\* shown so does the entry of the browser's history (save, historyState).
PageIsRestorable ==
    pendingRequest = None /\ view = "channels" =>
        /\ selectedCategory # None
        /\ stored = Saved(session, selectedCategory, startIndex)
        /\ channelsPage # None => history[position] = Entry(selectedCategory, startIndex)

\* A paging button that can be pressed for a selected category leads to a
\* page of that category, also while the page is being replaced.
PagingIsCurrent ==
    view = "channels" /\ selectedCategory # None =>
        /\ nextEnabled => startIndex + PageSize < totalChannels
        /\ previousEnabled => startIndex > 0
        /\ nextEnabled \/ previousEnabled => channelsPage # None

\* Once the user leaves the page alone it comes to rest: the pages reloaded
\* because the list of channels shrank end too (loadChannels, timeout).
ComesToRest == <>[][Network]_vars => <>[](pendingRequest = None)

\* web/test/standalone-browser.test.mjs: "unsupported future API contracts
\* stop category calls and retain standard All channels".
UnsupportedContractStopsCategoryCalls ==
    contract = "unsupported" /\ pendingRequest # None =>
        /\ pendingRequest.kind # "categories"
        /\ pendingRequest.kind = "channels" => pendingRequest.category = AllChannels

=============================================================================
