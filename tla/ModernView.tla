------------------------------ MODULE ModernView ------------------------------
(***************************************************************************)
(* The Programmes tab of the modern layout: LiveTvCategoriesView.tsx, its  *)
(* queries and what it keeps in the entries of the browser's history.      *)
(*                                                                         *)
(* A category and a page are an address, so choosing one is a navigation.  *)
(* What was focused is kept beside the address: in the `usr' state of the  *)
(* entry.  React Router reads it into location.state when it navigates;    *)
(* the view then rewrites it with history.replaceState, behind the         *)
(* router's back, and keeps in a ref the channel it wrote last.            *)
(*                                                                         *)
(* An answer of the service is modelled for the content that is shown; on  *)
(* arrival it may be cached, still awaited or have failed.  The user moves *)
(* through history one entry at a time.                                    *)
(***************************************************************************)
EXTENDS Integers, Sequences

CONSTANTS
    Categories,         \* ids of the categories
    Channels,           \* ids of the channels
    Lineup,             \* the channels of each category
    PageSize,           \* getCategoryPageSize of the user's setting
    Starts,             \* page starts of links into the view
    MaxHistory,         \* bound: entries of the browser's history
    None

ASSUME LineupAssumption == Lineup \in [Categories -> Seq(Channels)]
ASSUME PageAssumption ==
    PageSize \in Nat \ {0} /\ Starts \subseteq Nat /\ MaxHistory \in Nat \ {0}
ASSUME NoneAssumption == None \notin Categories \cup Channels

\* A tile is no card: onFocusCapture is on the channels' cards only.
ASSUME TileAssumption == Categories \cap Channels = {}

VARIABLES
    hist,               \* the entries of the browser's history
    pos,                \* the current one
    state,              \* location.state: what the router read on arrival
    ref,                \* focusedChannelIdRef
    content,            \* the query of the content that is shown
    focus,              \* the tile or card that has the focus
    returned            \* history: what the user came back from, until focus is moved

vars == <<hist, pos, state, ref, content, focus, returned>>

\* CATEGORY_HISTORY_STATE, CATEGORY_FOCUS_HISTORY_STATE, CHANNEL_FOCUS_HISTORY_STATE
NavigationState ==
    [entry : BOOLEAN, category : Categories \cup {None}, channel : Channels \cup {None}]

NoState == [entry |-> FALSE, category |-> None, channel |-> None]

Entry ==
    [view : {"list", "channels", "details", "other"}, category : Categories \cup {None},
     start : Nat, item : Channels \cup {None}, usr : NavigationState]

ListEntry(usr) == [view |-> "list", category |-> None, start |-> 0, item |-> None, usr |-> usr]
ChannelsEntry(c, start, usr) ==
    [view |-> "channels", category |-> c, start |-> start, item |-> None, usr |-> usr]
Details(d) == [ListEntry(NoState) EXCEPT !.view = "details", !.item = d]
Other(usr) == [ListEntry(usr) EXCEPT !.view = "other"]

Total(c) == Len(Lineup[c])

\* The cards of a page.
Items(c, start) == {Lineup[c][i] : i \in {j \in 1..Total(c) : start < j /\ j <= start + PageSize}}

Here == hist[pos]

\* Tab, details and other pages are other components: the view is unmounted.
IsView(e) == e.view \in {"list", "channels"}

Init ==
    /\ \E e \in {Other(NoState), ListEntry(NoState)}
                \cup {ChannelsEntry(c, s, NoState) : c \in Categories, s \in Starts} :
          hist = <<e>>
    /\ pos = 1
    /\ state = NoState
    /\ ref = None
    /\ content = "pending"
    /\ focus = None
    /\ returned = None

-----------------------------------------------------------------------------
(* Focus. *)

\* The tiles or cards on the screen.  The list has no tiles after an error.
Focusable(e, query) ==
    IF query # "ready" THEN {}
    ELSE IF e.view = "list" THEN Categories
    ELSE IF e.view = "channels" THEN Items(e.category, e.start)
    ELSE {}

\* What the focus effect may focus: what is remembered, or else whatever
\* Jellyfin's autoFocuser chooses, which may be nothing.
EffectTargets(e, usr, query, kept) ==
    LET remembered == IF e.view = "list" THEN usr.category ELSE usr.channel
        shown == Focusable(e, query)
    IN IF remembered \in shown THEN {remembered} ELSE {kept} \cup shown

\* f gets the focus in entry p of h; onFocusCapture is rememberChannelFocus,
\* which returns early for the channel in the ref.
Focus(h, p, lastWritten, f) ==
    /\ focus' = f
    /\ IF f \in Channels /\ f # lastWritten
       THEN /\ ref' = f
            /\ hist' = [h EXCEPT ![p].usr.channel = f]
       ELSE /\ ref' = lastWritten
            /\ hist' = h

\* The ref keeps what it was set to when the view was mounted.
RefKept(usr, mounted) == IF mounted THEN ref ELSE usr.channel

\* useRef on mount; later the effect, for another channel than the last
\* location's, if there is one.
RefAfter(usr, mounted) ==
    IF mounted /\ usr.channel \in {None, state.channel} THEN ref ELSE usr.channel

\* The router renders entry p of h: the focus effect runs when something it
\* depends on has changed.
Show(h, p, mounted, from) ==
    LET e == h[p]
        same == mounted /\ [Here EXCEPT !.usr = e.usr] = e
        kept == IF same THEN focus ELSE None
        runs == ~ same \/ e.usr.category # state.category \/ e.usr.channel # state.channel
    IN /\ pos' = p
       /\ state' = e.usr
       /\ content' \in IF same THEN {content}
                       ELSE IF IsView(e) THEN {"pending", "ready", "error"} ELSE {"pending"}
       /\ \E f \in IF runs THEN EffectTargets(e, e.usr, content', kept) ELSE {kept} :
              Focus(h, p, RefAfter(e.usr, mounted), f)
       /\ returned' = IF content' = "error" THEN None ELSE from

\* A navigation that drops the entries ahead.
Push(h, e) ==
    /\ pos < MaxHistory
    /\ Show(Append(SubSeq(h, 1, pos), e), pos + 1, IsView(Here), None)

Replace(e, from) == Show([hist EXCEPT ![pos] = e], pos, IsView(Here), from)

-----------------------------------------------------------------------------
(* The category list. *)

\* The list's entry is left as it is.
TileForgotten(c) == hist

\* rememberCategoryInHistory, on the entry of the list
TileRemembered(c) == [hist EXCEPT ![pos].usr.category = c]

SelectCategory(c) ==
    /\ Here.view = "list"
    /\ c \in Focusable(Here, content)
    /\ Push(TileRemembered(c),
            ChannelsEntry(c, 0, [state EXCEPT !.category = c, !.entry = TRUE, !.channel = None]))

\* The tile is there whether the list is or not.
ShowAllChannels ==
    /\ Here.view = "list"
    /\ content # "pending"
    /\ Push(hist, Other([state EXCEPT !.entry = FALSE, !.channel = None]))

-----------------------------------------------------------------------------
(* The channels of a category. *)

\* What the user comes back from, one entry back: details of a channel that is
\* on the page there, or the category that was chosen in the list there.
CameFrom ==
    LET e == hist[pos - 1]
    IN IF e.view = "channels" /\ Here.item \in Items(e.category, e.start) THEN Here.item
       ELSE IF e.view = "list" /\ Here.view = "channels" /\ Here.usr.entry THEN Here.category
       ELSE None

\* The category is not written into the new state.
ListStateForgotten == [state EXCEPT !.entry = FALSE, !.channel = None]

ListState == [state EXCEPT !.category = Here.category, !.entry = FALSE, !.channel = None]

ReturnToCategories ==
    /\ Here.view = "channels"
    /\ IF state.entry
       THEN pos > 1 /\ Show(hist, pos - 1, TRUE, CameFrom)
       ELSE Replace(ListEntry(ListState), Here.category)

\* The channel of the old page stays remembered.
PageStateKept == state

PageState == [state EXCEPT !.channel = None]

SetPage(start) == Replace(ChannelsEntry(Here.category, start, PageState), None)

\* The buttons are there for a page that has been loaded.
HasPaging == Here.view = "channels" /\ content = "ready" /\ Total(Here.category) > PageSize

PreviousStart == IF Here.start > PageSize THEN Here.start - PageSize ELSE 0

ShowPreviousPage == HasPaging /\ Here.start # 0 /\ SetPage(PreviousStart)

ShowNextPage ==
    /\ HasPaging
    /\ Here.start + PageSize < Total(Here.category)
    /\ SetPage(Here.start + PageSize)

-----------------------------------------------------------------------------
(* The user, the rest of the client and the service. *)

\* By key, pointer or screen reader; None is anything that is no tile or card.
MoveFocus(f) ==
    /\ f \in Focusable(Here, content) \cup {None}
    /\ f # focus
    /\ Focus(hist, pos, ref, f)
    /\ returned' = None
    /\ UNCHANGED <<pos, state, content>>

\* A card is focused before it is activated.
OpenChannel ==
    /\ Here.view = "channels"
    /\ focus \in Channels
    /\ Push(hist, Details(focus))

\* Other tabs and pages of the client, which pass no state.
OpenElsewhere == Here.view # "other" /\ Push(hist, Other(NoState))

OpenProgrammes ==
    /\ Here.view # "list"
    /\ \/ Push(hist, ListEntry(NoState))
       \/ /\ Here.view = "other"
          /\ \E c \in Categories, s \in Starts : Push(hist, ChannelsEntry(c, s, NoState))

BrowserBack == pos > 1 /\ Show(hist, pos - 1, IsView(Here), CameFrom)

BrowserForward == pos < Len(hist) /\ Show(hist, pos + 1, IsView(Here), None)

\* History and its states survive.
Reload == Show(hist, pos, FALSE, None)

\* The first answer or that of a background refetch: data that differ from
\* those before run the focus effect again, with the state of the arrival.
Answered ==
    /\ IsView(Here)
    /\ content' = "ready"
    /\ \/ \E f \in EffectTargets(Here, state, "ready", focus) : Focus(hist, pos, ref, f)
       \/ content = "error" /\ UNCHANGED <<hist, ref, focus>>
    /\ UNCHANGED <<pos, state, returned>>

\* A refetch of the list that fails keeps its tiles.
Failed ==
    /\ Here.view = "channels" \/ (Here.view = "list" /\ content = "pending")
    /\ content # "error"
    /\ content' = "error"
    /\ focus' = IF content = "pending" THEN focus ELSE None
    /\ returned' = None
    /\ UNCHANGED <<hist, pos, state, ref>>

User ==
    \/ \E c \in Categories : SelectCategory(c)
    \/ ShowAllChannels
    \/ ReturnToCategories
    \/ ShowPreviousPage
    \/ ShowNextPage
    \/ \E f \in Categories \cup Channels \cup {None} : MoveFocus(f)
    \/ OpenChannel

Browser == OpenElsewhere \/ OpenProgrammes \/ BrowserBack \/ BrowserForward \/ Reload

Network == Answered \/ Failed

Next == User \/ Browser \/ Network

Spec == Init /\ [][Next]_vars

-----------------------------------------------------------------------------
(* Properties. *)

\* Types; paging never computes a start before the first channel.
TypeOK ==
    /\ hist \in Seq(Entry) /\ Len(hist) <= MaxHistory
    /\ pos \in 1..Len(hist)
    /\ state \in NavigationState
    /\ ref \in Channels \cup {None}
    /\ content \in {"pending", "ready", "error"}
    /\ focus \in Categories \cup Channels \cup {None}
    /\ returned \in Categories \cup Channels \cup {None}

\* The entry flag of a channel page is what makes the view's own Back go one
\* entry back.  Wherever history is walked, reloaded or cut, the entry before
\* a flagged one is the list it was opened from, with its tile remembered:
\* Back never leaves Programmes (selectCategory, returnToCategories).
FlaggedFollowsItsList ==
    \A i \in 1..Len(hist) :
        hist[i].view = "channels" /\ hist[i].usr.entry =>
            /\ i > 1
            /\ hist[i-1].view = "list"
            /\ hist[i-1].usr.category = hist[i].category

\* Back at the list from a category, by the browser's Back or the view's, with
\* an entry of its own or in place of a linked page, the tile of that category
\* has the focus as soon as the list is there (comment at line 258).
CategoryFocusRestored ==
    Here.view = "list" /\ content = "ready" /\ returned # None => focus = returned

\* The channel an entry remembers is on the page the entry addresses, in every
\* entry of the history, although paging starts from a state that may be older
\* than what the view has written (setPage, rememberChannelInHistory).
RememberedIsOnPage ==
    \A i \in 1..Len(hist) :
        hist[i].view = "channels" /\ hist[i].usr.channel # None =>
            hist[i].usr.channel \in Items(hist[i].category, hist[i].start)

\* An entry never remembers another channel than the one that has the focus,
\* although the ref, which suppresses writing, outlives the entry it was
\* written for (the effect at line 329).
NeverRemembersAnother ==
    Here.view = "channels" /\ focus \in Channels /\ Here.usr.channel # None =>
        Here.usr.channel = focus

\* "Both restore category, page and focus after channel details."
\* (docs/architecture.md:54)
ChannelFocusRestored ==
    Here.view = "channels" /\ content = "ready" /\ returned # None => focus = returned

=============================================================================
