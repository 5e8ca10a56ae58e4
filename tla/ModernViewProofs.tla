-------------------------- MODULE ModernViewProofs --------------------------
(***************************************************************************)
(* What the Programmes tab keeps in the browser's history, for every       *)
(* lineup, page size and depth of the history: the entry before a flagged  *)
(* one is the list it was opened from, and a remembered channel is on its  *)
(* page.                                                                   *)
(*                                                                         *)
(* Every navigation goes through Show, and every focus through Focus.  So  *)
(* the argument is that a navigation hands Show a history that is sound,   *)
(* and that Show and Focus keep a sound history sound.                     *)
(***************************************************************************)
EXTENDS ModernView, TLAPS

Shown == Categories \cup Channels \cup {None}

\* FlaggedFollowsItsList and RememberedIsOnPage of any history.
Flagged(h) ==
  \A i \in 1..Len(h) :
    h[i].view = "channels" /\ h[i].usr.entry =>
      i > 1 /\ h[i-1].view = "list" /\ h[i-1].usr.category = h[i].category

Remembered(h) ==
  \A i \in 1..Len(h) :
    h[i].view = "channels" /\ h[i].usr.channel # None =>
      h[i].usr.channel \in Items(h[i].category, h[i].start)

\* A page of channels is a page of a category.
Addressed(h) == \A i \in 1..Len(h) : h[i].view = "channels" => h[i].category \in Categories

Sound(h) ==
  /\ h \in Seq(Entry) /\ Len(h) =< MaxHistory
  /\ Addressed(h) /\ Flagged(h) /\ Remembered(h)

\* The state of the arrival differs from the entry in the channel only, which
\* is all that is written behind the router's back.
StateIsEntrys == state.entry = Here.usr.entry /\ state.category = Here.usr.category

\* The focus is on what is shown, or on nothing of the view.
FocusIsShown == focus \in Focusable(Here, content) \cup {None}

IndInv == TypeOK /\ Sound(hist) /\ StateIsEntrys /\ FocusIsShown

-----------------------------------------------------------------------------
(* Entries and histories. *)

LEMMA ItemsTyped ==
  ASSUME NEW c \in Categories, NEW start \in Nat
  PROVE  Items(c, start) \subseteq Channels
<1>1. Lineup[c] \in Seq(Channels)
  BY LineupAssumption
<1> QED BY <1>1 DEF Items, Total

LEMMA NoStateTyped ==
  /\ NoState \in NavigationState
  /\ NoState.entry = FALSE /\ NoState.category = None /\ NoState.channel = None
  BY DEF NoState, NavigationState

LEMMA EntryFields ==
  ASSUME NEW e \in Entry
  PROVE  /\ e.view \in {"list", "channels", "details", "other"}
         /\ e.category \in Categories \cup {None} /\ e.start \in Nat
         /\ e.item \in Channels \cup {None} /\ e.usr \in NavigationState
         /\ e.usr.entry \in BOOLEAN /\ e.usr.category \in Categories \cup {None}
         /\ e.usr.channel \in Channels \cup {None}
  BY DEF Entry, NavigationState

LEMMA ListEntryIs ==
  ASSUME NEW usr \in NavigationState
  PROVE  ListEntry(usr) \in Entry /\ ListEntry(usr).view = "list" /\ ListEntry(usr).usr = usr
  BY DEF ListEntry, Entry

LEMMA OtherIs ==
  ASSUME NEW usr \in NavigationState
  PROVE  Other(usr) \in Entry /\ Other(usr).view = "other" /\ Other(usr).usr = usr
  BY DEF Other, ListEntry, Entry

LEMMA DetailsIs ==
  ASSUME NEW d \in Channels
  PROVE  Details(d) \in Entry /\ Details(d).view = "details" /\ Details(d).usr = NoState
  BY NoStateTyped DEF Details, ListEntry, Entry

LEMMA ChannelsEntryIs ==
  ASSUME NEW c \in Categories \cup {None}, NEW start \in Nat, NEW usr \in NavigationState
  PROVE  /\ ChannelsEntry(c, start, usr) \in Entry
         /\ ChannelsEntry(c, start, usr).view = "channels"
         /\ ChannelsEntry(c, start, usr).category = c
         /\ ChannelsEntry(c, start, usr).start = start
         /\ ChannelsEntry(c, start, usr).usr = usr
  BY DEF ChannelsEntry, Entry

LEMMA ReplacedIn ==
  ASSUME NEW h \in Seq(Entry), NEW p \in 1..Len(h), NEW e \in Entry
  PROVE  /\ [h EXCEPT ![p] = e] \in Seq(Entry)
         /\ Len([h EXCEPT ![p] = e]) = Len(h)
         /\ [h EXCEPT ![p] = e][p] = e
         /\ \A i \in 1..Len(h) : i # p => [h EXCEPT ![p] = e][i] = h[i]
  OBVIOUS

\* What the view itself writes into an entry leaves its address and its flag.
LEMMA ChannelWritten ==
  ASSUME NEW h, Sound(h), NEW p \in 1..Len(h), NEW f \in Channels,
         h[p].view = "channels" => f \in Items(h[p].category, h[p].start)
  PROVE  /\ Sound([h EXCEPT ![p].usr.channel = f])
         /\ Len([h EXCEPT ![p].usr.channel = f]) = Len(h)
         /\ [h EXCEPT ![p].usr.channel = f][p] = [h[p] EXCEPT !.usr.channel = f]
<1> DEFINE e == [h[p] EXCEPT !.usr.channel = f]
           g == [h EXCEPT ![p] = e]
<1>1. g = [h EXCEPT ![p].usr.channel = f]
  OBVIOUS
<1>2. h \in Seq(Entry) /\ h[p] \in Entry /\ Len(h) \in Nat
  BY DEF Sound
<1>3. /\ e \in Entry /\ e.view = h[p].view /\ e.category = h[p].category
      /\ e.start = h[p].start /\ e.usr.entry = h[p].usr.entry
      /\ e.usr.category = h[p].usr.category /\ e.usr.channel = f
  BY <1>2 DEF Entry, NavigationState
<1> HIDE DEF e
<1>4. /\ g \in Seq(Entry) /\ Len(g) = Len(h) /\ g[p] = e
      /\ \A i \in 1..Len(h) : i # p => g[i] = h[i]
  BY <1>2, <1>3, ReplacedIn
<1> HIDE DEF g
<1>5. \A i \in 1..Len(h) : /\ g[i].view = h[i].view /\ g[i].category = h[i].category
                           /\ g[i].start = h[i].start /\ g[i].usr.entry = h[i].usr.entry
                           /\ g[i].usr.category = h[i].usr.category
  BY <1>3, <1>4
<1>6. Flagged(g)
  <2> SUFFICES ASSUME NEW i \in 1..Len(h), g[i].view = "channels", g[i].usr.entry
               PROVE  i > 1 /\ g[i-1].view = "list" /\ g[i-1].usr.category = g[i].category
    BY <1>4 DEF Flagged
  <2>1. i > 1 /\ h[i-1].view = "list" /\ h[i-1].usr.category = h[i].category
    BY <1>5 DEF Sound, Flagged
  <2>2. i - 1 \in 1..Len(h)
    BY <2>1, <1>2
  <2> QED BY <2>1, <2>2, <1>5
<1>7. Remembered(g)
  <2> SUFFICES ASSUME NEW i \in 1..Len(h), g[i].view = "channels", g[i].usr.channel # None
               PROVE  g[i].usr.channel \in Items(g[i].category, g[i].start)
    BY <1>4 DEF Remembered
  <2>1. CASE i = p
    BY <2>1, <1>3, <1>4
  <2>2. CASE i # p
    BY <2>2, <1>4 DEF Sound, Remembered
  <2> QED BY <2>1, <2>2
<1>8. Addressed(g)
  BY <1>4, <1>5 DEF Sound, Addressed
<1>9. Sound(g) /\ Len(g) = Len(h) /\ g[p] = e
  BY <1>4, <1>6, <1>7, <1>8 DEF Sound
<1> QED BY <1>1, <1>9 DEF e

LEMMA FocusableTyped ==
  ASSUME NEW h, Sound(h), NEW p \in 1..Len(h), NEW query
  PROVE  /\ Focusable(h[p], query) \subseteq Shown
         /\ h[p].view \notin {"list", "channels"} => Focusable(h[p], query) = {}
         /\ h[p].view = "channels" =>
              Focusable(h[p], query) \subseteq Items(h[p].category, h[p].start)
<1>1. h[p] \in Entry
  BY DEF Sound
<1>2. h[p].view = "channels" => Items(h[p].category, h[p].start) \subseteq Channels
  BY <1>1, ItemsTyped, EntryFields DEF Sound, Addressed
<1> QED BY <1>2 DEF Focusable, Shown

\* Wherever the focus goes, what is written about it keeps the history sound.
LEMMA FocusStep ==
  ASSUME NEW h, Sound(h), NEW p \in 1..Len(h), NEW query,
         NEW f \in Focusable(h[p], query) \cup {None},
         NEW written \in Channels \cup {None}, Focus(h, p, written, f)
  PROVE  /\ Sound(hist') /\ Len(hist') = Len(h)
         /\ focus' = f /\ f \in Shown /\ ref' \in Channels \cup {None}
         /\ hist'[p].usr.entry = h[p].usr.entry
         /\ hist'[p].usr.category = h[p].usr.category
         /\ Focusable(hist'[p], query) = Focusable(h[p], query)
<1>1. f \in Shown
  BY FocusableTyped DEF Shown
<1>2. h[p] \in Entry
  BY DEF Sound
<1>3. CASE f \in Channels /\ f # written
  <2>1. h[p].view = "channels" => f \in Items(h[p].category, h[p].start)
    BY <1>3, FocusableTyped, NoneAssumption
  <2> DEFINE g == [h EXCEPT ![p].usr.channel = f]
  <2>2. hist' = g /\ ref' = f /\ focus' = f
    BY <1>3 DEF Focus
  <2>3. Sound(g) /\ Len(g) = Len(h) /\ g[p] = [h[p] EXCEPT !.usr.channel = f]
    BY <1>3, <2>1, ChannelWritten
  <2> HIDE DEF g
  <2>4. /\ hist'[p].view = h[p].view /\ hist'[p].category = h[p].category
        /\ hist'[p].start = h[p].start /\ hist'[p].usr.entry = h[p].usr.entry
        /\ hist'[p].usr.category = h[p].usr.category
    BY <2>2, <2>3, <1>2 DEF Entry, NavigationState
  <2>5. Focusable(hist'[p], query) = Focusable(h[p], query)
    BY <2>4 DEF Focusable
  <2> QED BY <1>1, <1>3, <2>2, <2>3, <2>4, <2>5
<1>4. CASE ~ (f \in Channels /\ f # written)
  BY <1>1, <1>4 DEF Focus
<1> QED BY <1>3, <1>4

\* The router renders an entry of a sound history.
LEMMA ShowStep ==
  ASSUME IndInv, NEW h, Sound(h), NEW p \in 1..Len(h), NEW mounted \in BOOLEAN,
         NEW from \in Shown, Show(h, p, mounted, from)
  PROVE  IndInv'
<1> DEFINE e == h[p]
           same == mounted /\ [Here EXCEPT !.usr = e.usr] = e
           kept == IF same THEN focus ELSE None
<1>1. /\ e \in Entry /\ e.usr \in NavigationState
      /\ e.usr.channel \in Channels \cup {None}
  BY EntryFields DEF Sound
<1>2. /\ pos' = p /\ state' = e.usr
      /\ content' \in IF same THEN {content}
                      ELSE IF IsView(e) THEN {"pending", "ready", "error"} ELSE {"pending"}
      /\ returned' = IF content' = "error" THEN None ELSE from
      /\ \E f \in EffectTargets(e, e.usr, content', kept) \cup {kept} :
            Focus(h, p, RefAfter(e.usr, mounted), f)
  BY DEF Show
<1>3. content' \in {"pending", "ready", "error"}
  BY <1>2 DEF IndInv, TypeOK
<1>4. RefAfter(e.usr, mounted) \in Channels \cup {None}
  BY <1>1 DEF RefAfter, IndInv, TypeOK
<1>5. kept \in Focusable(e, content') \cup {None}
  <2>1. CASE same
    <3>1. Here \in Entry
      BY DEF IndInv, TypeOK, Here
    <3>2. Here.view = e.view /\ Here.category = e.category /\ Here.start = e.start
      BY <2>1, <3>1, <1>1 DEF Entry
    <3>3. content' = content
      BY <1>2, <2>1
    <3>4. Focusable(e, content') = Focusable(Here, content)
      BY <3>2, <3>3 DEF Focusable
    <3> QED BY <2>1, <3>4 DEF IndInv, FocusIsShown
  <2>2. CASE ~ same
    BY <2>2
  <2> QED BY <2>1, <2>2
<1> HIDE DEF kept, same
<1>6. EffectTargets(e, e.usr, content', kept) \subseteq Focusable(e, content') \cup {kept}
  BY DEF EffectTargets
<1>7. PICK f \in Focusable(e, content') \cup {None} : Focus(h, p, RefAfter(e.usr, mounted), f)
  BY <1>2, <1>5, <1>6
<1> HIDE DEF e
<1>8. /\ Sound(hist') /\ Len(hist') = Len(h)
      /\ focus' = f /\ f \in Shown /\ ref' \in Channels \cup {None}
      /\ hist'[p].usr.entry = h[p].usr.entry
      /\ hist'[p].usr.category = h[p].usr.category
      /\ Focusable(hist'[p], content') = Focusable(h[p], content')
  BY <1>4, <1>7, FocusStep DEF e
<1>9. TypeOK'
  <2>1. returned' \in Shown
    BY <1>2 DEF Shown
  <2> QED BY <1>1, <1>2, <1>3, <1>8, <2>1 DEF TypeOK, Sound, Shown
<1>10. StateIsEntrys'
  BY <1>2, <1>8 DEF StateIsEntrys, Here, e
<1>11. FocusIsShown'
  BY <1>2, <1>7, <1>8 DEF FocusIsShown, Here, e
<1> QED BY <1>8, <1>9, <1>10, <1>11 DEF IndInv

-----------------------------------------------------------------------------
(* The navigations. *)

LEMMA HereIs ==
  ASSUME IndInv
  PROVE  /\ Here \in Entry /\ pos \in 1..Len(hist) /\ pos \in Nat /\ Len(hist) \in Nat
         /\ Sound(hist) /\ Here = hist[pos]
         /\ state \in NavigationState /\ IsView(Here) \in BOOLEAN
         /\ Here.view = "channels" => Here.category \in Categories
  BY DEF IndInv, TypeOK, Here, Sound, Addressed, IsView

\* Choosing a category writes into the list's entry first; what is in front of
\* that entry is dropped.
LEMMA PushedIsSound ==
  ASSUME IndInv, NEW h \in Seq(Entry), Len(h) = Len(hist), NEW e \in Entry, Push(h, e),
         \A i \in 1..(pos - 1) : h[i] = hist[i],
         h[pos].view = Here.view, h[pos].category = Here.category, h[pos].start = Here.start,
         h[pos].usr.entry = Here.usr.entry, h[pos].usr.channel = Here.usr.channel,
         e.view = "channels" =>
           /\ e.category \in Categories /\ e.usr.channel = None
           /\ e.usr.entry => h[pos].view = "list" /\ h[pos].usr.category = e.category
  PROVE  /\ Sound(Append(SubSeq(h, 1, pos), e))
         /\ pos + 1 \in 1..Len(Append(SubSeq(h, 1, pos), e))
<1> DEFINE g == Append(SubSeq(h, 1, pos), e)
<1>1. /\ Len(h) \in Nat /\ pos \in Nat /\ pos >= 1 /\ pos =< Len(h)
      /\ MaxHistory \in Nat /\ pos < MaxHistory /\ Here = hist[pos]
  BY PageAssumption, HereIs DEF Push
<1>2. SubSeq(h, 1, pos) \in Seq(Entry) /\ Len(SubSeq(h, 1, pos)) = pos
  BY <1>1
<1>3. \A i \in 1..pos : SubSeq(h, 1, pos)[i] = h[i]
  BY <1>1
<1>4. /\ g \in Seq(Entry) /\ Len(g) = pos + 1 /\ g[pos + 1] = e
      /\ \A i \in 1..pos : g[i] = h[i]
  BY <1>1, <1>2, <1>3
<1> HIDE DEF g
<1>a. \A i \in 1..(pos - 1) : g[i] = hist[i]
  BY <1>1, <1>4
<1>b. /\ g[pos] = h[pos]
      /\ g[pos].view = hist[pos].view /\ g[pos].category = hist[pos].category
      /\ g[pos].start = hist[pos].start /\ g[pos].usr.entry = hist[pos].usr.entry
      /\ g[pos].usr.channel = hist[pos].usr.channel
  BY <1>1, <1>4
<1>c. \A i \in 1..pos : /\ i \in 1..Len(hist)
                        /\ g[i].view = hist[i].view /\ g[i].category = hist[i].category
                        /\ g[i].start = hist[i].start /\ g[i].usr.entry = hist[i].usr.entry
                        /\ g[i].usr.channel = hist[i].usr.channel
  <2> SUFFICES ASSUME NEW i \in 1..pos
               PROVE  /\ i \in 1..Len(hist)
                      /\ g[i].view = hist[i].view /\ g[i].category = hist[i].category
                      /\ g[i].start = hist[i].start /\ g[i].usr.entry = hist[i].usr.entry
                      /\ g[i].usr.channel = hist[i].usr.channel
    OBVIOUS
  <2>1. i \in 1..Len(hist) /\ (i = pos \/ i \in 1..(pos - 1))
    BY <1>1
  <2> QED BY <2>1, <1>a, <1>b
<1>5. Flagged(g)
  <2> SUFFICES ASSUME NEW i \in 1..(pos + 1), g[i].view = "channels", g[i].usr.entry
               PROVE  i > 1 /\ g[i-1].view = "list" /\ g[i-1].usr.category = g[i].category
    BY <1>4 DEF Flagged
  <2>1. CASE i = pos + 1
    BY <2>1, <1>1, <1>4
  <2>2. CASE i \in 1..pos
    <3>1. /\ i \in 1..Len(hist) /\ hist[i].view = "channels" /\ hist[i].usr.entry
          /\ hist[i].category = g[i].category
      BY <2>2, <1>c
    <3>2. i > 1 /\ hist[i-1].view = "list" /\ hist[i-1].usr.category = hist[i].category
      BY <3>1 DEF IndInv, Sound, Flagged
    <3>3. i - 1 \in 1..(pos - 1)
      BY <3>2, <2>2, <1>1
    <3> QED BY <3>1, <3>2, <3>3, <1>a
  <2> QED BY <2>1, <2>2, <1>1
<1>6. Remembered(g)
  <2> SUFFICES ASSUME NEW i \in 1..(pos + 1), g[i].view = "channels", g[i].usr.channel # None
               PROVE  g[i].usr.channel \in Items(g[i].category, g[i].start)
    BY <1>4 DEF Remembered
  <2>1. i # pos + 1
    BY <1>4
  <2>2. i \in 1..pos
    BY <2>1, <1>1
  <2> QED BY <2>2, <1>c DEF IndInv, Sound, Remembered
<1>7. Addressed(g)
  <2> SUFFICES ASSUME NEW i \in 1..(pos + 1), g[i].view = "channels"
               PROVE  g[i].category \in Categories
    BY <1>4 DEF Addressed
  <2>1. CASE i = pos + 1
    BY <2>1, <1>4
  <2>2. CASE i # pos + 1
    <3>1. i \in 1..pos
      BY <2>2, <1>1
    <3> QED BY <3>1, <1>c DEF IndInv, Sound, Addressed
  <2> QED BY <2>1, <2>2
<1>8. Sound(g) /\ pos + 1 \in 1..Len(g)
  BY <1>1, <1>4, <1>5, <1>6, <1>7 DEF Sound
<1> QED BY <1>8 DEF g

LEMMA PushStep ==
  ASSUME IndInv, NEW h \in Seq(Entry), Len(h) = Len(hist), NEW e \in Entry, Push(h, e),
         \A i \in 1..(pos - 1) : h[i] = hist[i],
         h[pos].view = Here.view, h[pos].category = Here.category, h[pos].start = Here.start,
         h[pos].usr.entry = Here.usr.entry, h[pos].usr.channel = Here.usr.channel,
         e.view = "channels" =>
           /\ e.category \in Categories /\ e.usr.channel = None
           /\ e.usr.entry => h[pos].view = "list" /\ h[pos].usr.category = e.category
  PROVE  IndInv'
<1>1. /\ Sound(Append(SubSeq(h, 1, pos), e))
      /\ pos + 1 \in 1..Len(Append(SubSeq(h, 1, pos), e))
  BY PushedIsSound
<1>2. Show(Append(SubSeq(h, 1, pos), e), pos + 1, IsView(Here), None)
  BY DEF Push
<1>3. None \in Shown /\ IsView(Here) \in BOOLEAN
  BY DEF Shown, IsView
<1> QED BY <1>1, <1>2, <1>3, ShowStep

LEMMA ReplacedIsSound ==
  ASSUME IndInv, NEW e \in Entry, Here.view = "channels",
         e.view = "channels" =>
           /\ e.category = Here.category /\ e.usr.channel = None
           /\ e.usr.entry => Here.usr.entry
  PROVE  Sound([hist EXCEPT ![pos] = e]) /\ pos \in 1..Len([hist EXCEPT ![pos] = e])
<1> DEFINE g == [hist EXCEPT ![pos] = e]
<1>1. /\ hist \in Seq(Entry) /\ Len(hist) \in Nat /\ pos \in 1..Len(hist)
      /\ Here = hist[pos]
  BY HereIs DEF Sound
<1>2. /\ g \in Seq(Entry) /\ Len(g) = Len(hist) /\ g[pos] = e
      /\ \A i \in 1..Len(hist) : i # pos => g[i] = hist[i]
  BY <1>1, ReplacedIn
<1> HIDE DEF g
<1>3. Flagged(g)
  <2> SUFFICES ASSUME NEW i \in 1..Len(hist), g[i].view = "channels", g[i].usr.entry
               PROVE  i > 1 /\ g[i-1].view = "list" /\ g[i-1].usr.category = g[i].category
    BY <1>2 DEF Flagged
  <2>1. /\ hist[i].view = "channels" /\ hist[i].usr.entry
        /\ hist[i].category = g[i].category
    BY <1>1, <1>2
  <2>2. i > 1 /\ hist[i-1].view = "list" /\ hist[i-1].usr.category = hist[i].category
    BY <2>1 DEF IndInv, Sound, Flagged
  <2>3. i - 1 \in 1..Len(hist) /\ i - 1 # pos
    BY <2>2, <1>1
  <2> QED BY <2>1, <2>2, <2>3, <1>2
<1>4. Remembered(g)
  <2> SUFFICES ASSUME NEW i \in 1..Len(hist), g[i].view = "channels", g[i].usr.channel # None
               PROVE  g[i].usr.channel \in Items(g[i].category, g[i].start)
    BY <1>2 DEF Remembered
  <2> QED BY <1>2 DEF IndInv, Sound, Remembered
<1>5. Addressed(g)
  BY <1>1, <1>2 DEF IndInv, Sound, Addressed
<1>6. Sound(g) /\ pos \in 1..Len(g)
  BY <1>1, <1>2, <1>3, <1>4, <1>5 DEF IndInv, Sound
<1> QED BY <1>6 DEF g

LEMMA ReplaceStep ==
  ASSUME IndInv, NEW e \in Entry, NEW from \in Shown, Here.view = "channels",
         Replace(e, from),
         e.view = "channels" =>
           /\ e.category = Here.category /\ e.usr.channel = None
           /\ e.usr.entry => Here.usr.entry
  PROVE  IndInv'
<1>1. Sound([hist EXCEPT ![pos] = e]) /\ pos \in 1..Len([hist EXCEPT ![pos] = e])
  BY ReplacedIsSound
<1>2. Show([hist EXCEPT ![pos] = e], pos, IsView(Here), from) /\ IsView(Here) \in BOOLEAN
  BY DEF Replace, IsView
<1> QED BY <1>1, <1>2, ShowStep

\* What the user comes back from, in the view of the entry before.
LEMMA CameFromTyped == ASSUME IndInv, pos > 1 PROVE CameFrom \in Shown
<1>1. hist[pos - 1] \in Entry /\ Here \in Entry
  BY HereIs DEF Sound
<1>2. Here.item \in Channels \cup {None} /\ Here.category \in Categories \cup {None}
  BY <1>1, EntryFields
<1> QED BY <1>2 DEF CameFrom, Shown

LEMMA SameHistory ==
  ASSUME IndInv
  PROVE  /\ hist \in Seq(Entry) /\ Sound(hist) /\ hist[pos] = Here
         /\ \A i \in 1..(pos - 1) : hist[i] = hist[i]
  BY HereIs DEF Sound

LEMMA PushHere ==
  ASSUME IndInv, NEW e \in Entry, Push(hist, e),
         e.view = "channels" =>
           e.category \in Categories /\ e.usr.channel = None /\ ~ e.usr.entry
  PROVE  IndInv'
  BY SameHistory, PushStep

LEMMA SelectCategoryStep ==
  ASSUME IndInv, NEW c \in Categories, SelectCategory(c) PROVE IndInv'
<1> DEFINE usr == [state EXCEPT !.category = c, !.entry = TRUE, !.channel = None]
           e == ChannelsEntry(c, 0, usr)
           tile == [Here EXCEPT !.usr.category = c]
           h == [hist EXCEPT ![pos] = tile]
<1>1. /\ Here \in Entry /\ pos \in 1..Len(hist) /\ Here = hist[pos] /\ Here.view = "list"
      /\ hist \in Seq(Entry) /\ state \in NavigationState
  BY HereIs DEF Sound, SelectCategory
<1>2. usr \in NavigationState /\ usr.channel = None
  BY <1>1 DEF NavigationState
<1> HIDE DEF usr
<1>3. /\ e \in Entry /\ e.view = "channels" /\ e.category = c /\ e.usr.channel = None
  BY <1>2, ChannelsEntryIs
<1>4. /\ tile \in Entry /\ tile.view = Here.view /\ tile.category = Here.category
      /\ tile.start = Here.start /\ tile.usr.entry = Here.usr.entry
      /\ tile.usr.channel = Here.usr.channel /\ tile.usr.category = c
  BY <1>1 DEF Entry, NavigationState
<1>5. h = TileRemembered(c)
  BY <1>1 DEF TileRemembered
<1>6. Push(h, e)
  BY <1>5 DEF SelectCategory, usr
<1> HIDE DEF tile, e
<1>7. /\ h \in Seq(Entry) /\ Len(h) = Len(hist) /\ h[pos] = tile
      /\ \A i \in 1..Len(hist) : i # pos => h[i] = hist[i]
  BY <1>1, <1>4, ReplacedIn
<1> HIDE DEF h
<1>8. \A i \in 1..(pos - 1) : h[i] = hist[i]
  BY <1>1, <1>7
<1> QED BY <1>1, <1>3, <1>4, <1>6, <1>7, <1>8, PushStep

LEMMA ShowAllChannelsStep == ASSUME IndInv, ShowAllChannels PROVE IndInv'
<1> DEFINE usr == [state EXCEPT !.entry = FALSE, !.channel = None]
<1>1. usr \in NavigationState
  BY HereIs DEF NavigationState
<1>2. Push(hist, Other(usr))
  BY DEF ShowAllChannels
<1> HIDE DEF usr
<1> QED BY <1>1, <1>2, OtherIs, PushHere

LEMMA ReturnToCategoriesStep == ASSUME IndInv, ReturnToCategories PROVE IndInv'
<1>1. CASE state.entry
  <2>1. pos > 1 /\ Show(hist, pos - 1, TRUE, CameFrom)
    BY <1>1 DEF ReturnToCategories
  <2>2. pos - 1 \in 1..Len(hist)
    BY <2>1, HereIs
  <2> QED BY <2>1, <2>2, CameFromTyped, SameHistory, ShowStep
<1>2. CASE ~ state.entry
  <2>1. Here.view = "channels" /\ Replace(ListEntry(ListState), Here.category)
    BY <1>2 DEF ReturnToCategories
  <2>2. Here.category \in Categories /\ Here.category \in Shown
    BY <2>1, HereIs DEF Shown
  <2>3. ListState \in NavigationState
    BY <2>2, HereIs DEF ListState, NavigationState
  <2> QED BY <2>1, <2>2, <2>3, ListEntryIs, ReplaceStep
<1> QED BY <1>1, <1>2

LEMMA SetPageStep ==
  ASSUME IndInv, NEW start \in Nat, Here.view = "channels", SetPage(start) PROVE IndInv'
<1> DEFINE e == ChannelsEntry(Here.category, start, PageState)
<1>1. state \in NavigationState /\ Here.category \in Categories
  BY HereIs
<1>2. PageState \in NavigationState /\ PageState.channel = None /\ PageState.entry = state.entry
  BY <1>1 DEF PageState, NavigationState
<1>3. /\ e \in Entry /\ e.view = "channels" /\ e.category = Here.category /\ e.usr = PageState
  BY <1>1, <1>2, ChannelsEntryIs
<1>4. Replace(e, None) /\ None \in Shown
  BY DEF SetPage, Shown
<1>5. e.usr.entry = Here.usr.entry
  BY <1>2, <1>3 DEF IndInv, StateIsEntrys
<1> HIDE DEF e
<1> QED BY <1>2, <1>3, <1>4, <1>5, ReplaceStep

LEMMA PagingStep == ASSUME IndInv, ShowPreviousPage \/ ShowNextPage PROVE IndInv'
<1>1. /\ Here.view = "channels" /\ Here.start \in Nat /\ PageSize \in Nat
  BY HereIs, EntryFields, PageAssumption DEF ShowPreviousPage, ShowNextPage, HasPaging
<1>2. CASE ShowPreviousPage
  <2>1. PreviousStart \in Nat
    BY <1>1 DEF PreviousStart
  <2> QED BY <1>1, <1>2, <2>1, SetPageStep DEF ShowPreviousPage
<1>3. CASE ShowNextPage
  <2>1. Here.start + PageSize \in Nat
    BY <1>1
  <2> QED BY <1>1, <1>3, <2>1, SetPageStep DEF ShowNextPage
<1> QED BY <1>2, <1>3

-----------------------------------------------------------------------------
(* The user, the rest of the client and the service. *)

\* A focus within what is shown keeps everything, whatever the answer was.
LEMMA RefocusStep ==
  ASSUME IndInv, NEW f \in Focusable(Here, content') \cup {None}, Focus(hist, pos, ref, f),
         UNCHANGED <<pos, state>>, content' \in {"pending", "ready", "error"}, returned' \in Shown
  PROVE  IndInv'
<1>1. /\ Sound(hist) /\ pos \in 1..Len(hist) /\ Here = hist[pos]
      /\ ref \in Channels \cup {None}
  BY HereIs DEF IndInv, TypeOK
<1>2. /\ Sound(hist') /\ Len(hist') = Len(hist)
      /\ focus' = f /\ f \in Shown /\ ref' \in Channels \cup {None}
      /\ hist'[pos].usr.entry = hist[pos].usr.entry
      /\ hist'[pos].usr.category = hist[pos].usr.category
      /\ Focusable(hist'[pos], content') = Focusable(hist[pos], content')
  BY <1>1, FocusStep
<1>3. TypeOK'
  BY <1>1, <1>2 DEF IndInv, TypeOK, Sound, Shown
<1>4. StateIsEntrys' /\ FocusIsShown'
  BY <1>1, <1>2 DEF IndInv, StateIsEntrys, FocusIsShown, Here
<1> QED BY <1>2, <1>3, <1>4 DEF IndInv

LEMMA MoveFocusStep == ASSUME IndInv, NEW f, MoveFocus(f) PROVE IndInv'
<1>1. /\ f \in Focusable(Here, content) \cup {None} /\ Focus(hist, pos, ref, f)
      /\ returned' = None /\ UNCHANGED <<pos, state>> /\ content' = content
  BY DEF MoveFocus
<1>2. content \in {"pending", "ready", "error"} /\ None \in Shown
  BY DEF IndInv, TypeOK, Shown
<1> QED BY <1>1, <1>2, RefocusStep

LEMMA OpenStep ==
  ASSUME IndInv, OpenChannel \/ OpenElsewhere \/ OpenProgrammes PROVE IndInv'
<1>1. CASE OpenChannel
  BY <1>1, DetailsIs, PushHere DEF OpenChannel
<1>2. CASE OpenElsewhere
  BY <1>2, NoStateTyped, OtherIs, PushHere DEF OpenElsewhere
<1>3. CASE OpenProgrammes
  <2>1. CASE Push(hist, ListEntry(NoState))
    BY <2>1, NoStateTyped, ListEntryIs, PushHere
  <2>2. CASE \E c \in Categories, s \in Starts : Push(hist, ChannelsEntry(c, s, NoState))
    <3>1. PICK c \in Categories, s \in Starts : Push(hist, ChannelsEntry(c, s, NoState))
      BY <2>2
    <3>2. s \in Nat
      BY PageAssumption
    <3> QED BY <3>1, <3>2, NoStateTyped, ChannelsEntryIs, PushHere
  <2> QED BY <1>3, <2>1, <2>2 DEF OpenProgrammes
<1> QED BY <1>1, <1>2, <1>3

LEMMA WalkStep == ASSUME IndInv, BrowserBack \/ BrowserForward \/ Reload PROVE IndInv'
<1>1. /\ pos \in Nat /\ pos >= 1 /\ pos =< Len(hist) /\ Len(hist) \in Nat
      /\ IsView(Here) \in BOOLEAN /\ FALSE \in BOOLEAN /\ None \in Shown
  BY HereIs DEF Shown
<1>2. CASE BrowserBack
  <2>1. pos > 1 /\ pos - 1 \in 1..Len(hist)
    BY <1>1, <1>2 DEF BrowserBack
  <2> QED BY <1>1, <1>2, <2>1, CameFromTyped, SameHistory, ShowStep DEF BrowserBack
<1>3. CASE BrowserForward
  <2>1. pos + 1 \in 1..Len(hist)
    BY <1>1, <1>3 DEF BrowserForward
  <2> QED BY <1>1, <1>3, <2>1, SameHistory, ShowStep DEF BrowserForward
<1>4. CASE Reload
  <2>1. pos \in 1..Len(hist)
    BY <1>1
  <2> QED BY <1>1, <1>4, <2>1, SameHistory, ShowStep DEF Reload
<1> QED BY <1>2, <1>3, <1>4

LEMMA AnsweredStep == ASSUME IndInv, Answered PROVE IndInv'
<1>1. /\ content' = "ready" /\ UNCHANGED <<pos, state>> /\ returned' \in Shown
      /\ content \in {"pending", "ready", "error"}
  BY DEF Answered, IndInv, TypeOK, Shown
<1>2. focus \in Focusable(Here, content') \cup {None}
  BY <1>1 DEF IndInv, FocusIsShown, Focusable
<1>3. CASE \E f \in EffectTargets(Here, state, "ready", focus) : Focus(hist, pos, ref, f)
  <2>1. PICK f \in EffectTargets(Here, state, "ready", focus) : Focus(hist, pos, ref, f)
    BY <1>3
  <2>2. f \in Focusable(Here, content') \cup {None}
    BY <1>1, <1>2 DEF EffectTargets
  <2> QED BY <1>1, <2>1, <2>2, RefocusStep
<1>4. CASE UNCHANGED <<hist, ref, focus>>
  <2>1. TypeOK'
    BY <1>1, <1>4 DEF IndInv, TypeOK, Shown
  <2>2. Sound(hist') /\ StateIsEntrys' /\ FocusIsShown'
    BY <1>1, <1>2, <1>4 DEF IndInv, StateIsEntrys, FocusIsShown, Here
  <2> QED BY <2>1, <2>2 DEF IndInv
<1> QED BY <1>3, <1>4 DEF Answered

LEMMA FailedStep == ASSUME IndInv, Failed PROVE IndInv'
<1>1. /\ content' = "error" /\ UNCHANGED <<hist, pos, state, ref>> /\ returned' = None
      /\ focus' = IF content = "pending" THEN focus ELSE None
  BY DEF Failed
<1>2. content = "pending" => focus = None
  BY DEF IndInv, FocusIsShown, Focusable
<1>3. focus' = None
  BY <1>1, <1>2
<1>4. TypeOK'
  BY <1>1, <1>3 DEF IndInv, TypeOK
<1>5. Sound(hist') /\ StateIsEntrys' /\ FocusIsShown'
  BY <1>1, <1>3 DEF IndInv, StateIsEntrys, FocusIsShown, Here
<1> QED BY <1>4, <1>5 DEF IndInv

-----------------------------------------------------------------------------
(* The focus.  A second invariant, on top of the first: the ref, which     *)
(* outlives the entry it was written for, is never that of another channel *)
(* than the entry on the screen remembers.  It needs to know that two      *)
(* pages of channels never lie next to each other in the history, so that  *)
(* the view is mounted anew, or comes from a list, whenever an entry that  *)
(* remembers a channel is shown.                                           *)

Plain(h) == \A i \in 1..Len(h) : h[i].view # "channels" => h[i].usr.channel = None

Apart(h) == \A i \in 2..Len(h) : h[i].view = "channels" => h[i-1].view # "channels"

RefIsWritten == Here.view = "channels" /\ Here.usr.channel # None => ref = Here.usr.channel

StateIsPlain == Here.view # "channels" => state.channel = None

\* What the user comes back from is what the list remembers.
ReturnIsState ==
  /\ Here.view = "list" /\ returned # None => returned = state.category
  /\ content = "error" => returned = None

FocusInv ==
  /\ Plain(hist) /\ Apart(hist)
  /\ RefIsWritten /\ StateIsPlain /\ ReturnIsState
  /\ NeverRemembersAnother /\ CategoryFocusRestored

\* Wherever the focus goes, only a card is written, and it is what the ref
\* then holds.
LEMMA FocusWrites ==
  ASSUME NEW h, Sound(h), Plain(h), Apart(h), NEW p \in 1..Len(h), NEW query,
         NEW f \in Focusable(h[p], query) \cup {None},
         NEW written \in Channels \cup {None}, Focus(h, p, written, f),
         h[p].view = "channels" /\ h[p].usr.channel # None => written = h[p].usr.channel
  PROVE  /\ Plain(hist') /\ Apart(hist') /\ Len(hist') = Len(h) /\ focus' = f
         /\ hist'[p].view = h[p].view
         /\ h[p].view = "channels" /\ hist'[p].usr.channel # None =>
              /\ ref' = hist'[p].usr.channel
              /\ f \in Channels => f = hist'[p].usr.channel
<1>1. h \in Seq(Entry) /\ h[p] \in Entry /\ Len(h) \in Nat
  BY DEF Sound
<1>2. CASE f \in Channels /\ f # written
  <2> DEFINE e == [h[p] EXCEPT !.usr.channel = f]
             g == [h EXCEPT ![p] = e]
  <2>1. hist' = g /\ ref' = f /\ focus' = f
    BY <1>2 DEF Focus
  <2>2. h[p].view = "channels"
    BY <1>2, TileAssumption, NoneAssumption DEF Focusable
  <2>3. e \in Entry /\ e.view = h[p].view /\ e.usr.channel = f
    BY <1>1, <1>2 DEF Entry, NavigationState
  <2> HIDE DEF e
  <2>4. /\ g \in Seq(Entry) /\ Len(g) = Len(h) /\ g[p] = e
        /\ \A i \in 1..Len(h) : i # p => g[i] = h[i]
    BY <1>1, <2>3, ReplacedIn
  <2> HIDE DEF g
  <2>5. Plain(g)
    BY <2>2, <2>3, <2>4 DEF Plain
  <2>6. Apart(g)
    <3>1. \A i \in 1..Len(h) : g[i].view = h[i].view
      BY <2>3, <2>4
    <3>2. \A i \in 2..Len(h) : i \in 1..Len(h) /\ i - 1 \in 1..Len(h)
      BY <1>1
    <3> QED BY <2>4, <3>1, <3>2 DEF Apart
  <2> QED BY <2>1, <2>3, <2>4, <2>5, <2>6
<1>3. CASE ~ (f \in Channels /\ f # written)
  BY <1>3 DEF Focus
<1> QED BY <1>2, <1>3

\* Every navigation.
LEMMA ShowFocuses ==
  ASSUME IndInv, FocusInv, NEW h, Sound(h), Plain(h), Apart(h), NEW p \in 1..Len(h),
         NEW mounted \in BOOLEAN, NEW from \in Shown, Show(h, p, mounted, from),
         mounted /\ Here.view = "channels" /\ h[p].view = "channels" =>
            h[p].usr.channel = None,
         h[p].view = "list" /\ from # None =>
            Here.view = "channels" /\ from = h[p].usr.category
  PROVE  FocusInv'
<1> DEFINE e == h[p]
           same == mounted /\ [Here EXCEPT !.usr = e.usr] = e
           kept == IF same THEN focus ELSE None
           runs == ~ same \/ e.usr.category # state.category \/ e.usr.channel # state.channel
           written == RefAfter(e.usr, mounted)
<1>1. /\ e \in Entry /\ e.usr.channel \in Channels \cup {None}
      /\ e.usr.category \in Categories \cup {None} /\ Here \in Entry
  BY EntryFields, HereIs DEF Sound
<1>2. /\ pos' = p /\ state' = e.usr
      /\ content' \in IF same THEN {content}
                      ELSE IF IsView(e) THEN {"pending", "ready", "error"} ELSE {"pending"}
      /\ returned' = IF content' = "error" THEN None ELSE from
      /\ \E f \in IF runs THEN EffectTargets(e, e.usr, content', kept) ELSE {kept} :
            Focus(h, p, written, f)
  BY DEF Show
<1>3. same => Here.view = e.view /\ Here.category = e.category /\ Here.start = e.start
  BY <1>1 DEF Entry
<1>4. kept \in Focusable(e, content') \cup {None}
  <2>1. CASE same
    <3>1. Focusable(e, content') = Focusable(Here, content)
      BY <1>2, <1>3, <2>1 DEF Focusable
    <3> QED BY <2>1, <3>1 DEF IndInv, FocusIsShown
  <2>2. CASE ~ same
    BY <2>2
  <2> QED BY <2>1, <2>2
<1>5. e.view = "channels" /\ e.usr.channel # None => written = e.usr.channel
  <2> SUFFICES ASSUME e.view = "channels", e.usr.channel # None PROVE written = e.usr.channel
    OBVIOUS
  <2>1. CASE mounted
    <3>1. Here.view # "channels"
      BY <2>1
    <3>2. state.channel = None
      BY <3>1 DEF FocusInv, StateIsPlain
    <3> QED BY <3>2 DEF RefAfter
  <2>2. CASE ~ mounted
    BY <2>2 DEF RefAfter
  <2> QED BY <2>1, <2>2
<1>6. e.view = "list" /\ from # None => ~ same
  BY <1>3
<1>7. written \in Channels \cup {None}
  BY <1>1 DEF RefAfter, IndInv, TypeOK
<1> HIDE DEF same, written
<1>8. PICK f \in IF runs THEN EffectTargets(e, e.usr, content', kept) ELSE {kept} :
         Focus(h, p, written, f)
  BY <1>2
<1>9. f \in Focusable(e, content') \cup {None}
  BY <1>4 DEF EffectTargets
<1>10. e.view = "list" /\ content' = "ready" /\ from # None => f = from
  <2> SUFFICES ASSUME e.view = "list", content' = "ready", from # None PROVE f = from
    OBVIOUS
  <2>1. runs /\ from = e.usr.category /\ from \in Categories
    BY <1>1, <1>6
  <2>2. Focusable(e, content') = Categories
    BY DEF Focusable
  <2> QED BY <2>1, <2>2 DEF EffectTargets
<1> HIDE DEF kept, runs
<1>11. /\ Plain(hist') /\ Apart(hist') /\ Len(hist') = Len(h) /\ focus' = f
       /\ hist'[p].view = e.view
       /\ e.view = "channels" /\ hist'[p].usr.channel # None =>
            /\ ref' = hist'[p].usr.channel
            /\ f \in Channels => f = hist'[p].usr.channel
  BY <1>5, <1>7, <1>8, <1>9, FocusWrites
<1>12. Here' = hist'[p]
  BY <1>2 DEF Here
<1>13. RefIsWritten' /\ NeverRemembersAnother'
  BY <1>11, <1>12 DEF RefIsWritten, NeverRemembersAnother
<1>14. StateIsPlain'
  BY <1>2, <1>11, <1>12 DEF Plain, StateIsPlain
<1>15. ReturnIsState' /\ CategoryFocusRestored'
  BY <1>2, <1>10, <1>11, <1>12 DEF ReturnIsState, CategoryFocusRestored
<1> QED BY <1>11, <1>13, <1>14, <1>15 DEF FocusInv

LEMMA WalkFocuses ==
  ASSUME IndInv, FocusInv, NEW p \in 1..Len(hist), NEW mounted \in BOOLEAN,
         NEW from \in Shown, Show(hist, p, mounted, from),
         p \in {pos - 1, pos + 1} \/ ~ mounted,
         hist[p].view = "list" /\ from # None =>
            Here.view = "channels" /\ from = hist[p].usr.category
  PROVE  FocusInv'
<1>1. pos \in 1..Len(hist) /\ Len(hist) \in Nat /\ Here = hist[pos] /\ Sound(hist)
  BY HereIs
<1>2. Plain(hist) /\ Apart(hist)
  BY DEF FocusInv
<1>3. ~ (mounted /\ Here.view = "channels" /\ hist[p].view = "channels")
  <2>1. CASE p = pos - 1
    <3>1. pos \in 2..Len(hist)
      BY <1>1, <2>1
    <3> QED BY <1>1, <1>2, <2>1, <3>1 DEF Apart
  <2>2. CASE p = pos + 1
    <3>1. p \in 2..Len(hist) /\ p - 1 = pos
      BY <1>1, <2>2
    <3> QED BY <1>1, <1>2, <3>1 DEF Apart
  <2> QED BY <2>1, <2>2
<1> QED BY <1>1, <1>2, <1>3, ShowFocuses

\* What is pushed remembers no channel, and comes behind no page of channels
\* if it is one.
LEMMA PushFocuses ==
  ASSUME IndInv, FocusInv, NEW h \in Seq(Entry), Len(h) = Len(hist), NEW e \in Entry,
         Push(h, e),
         \A i \in 1..(pos - 1) : h[i] = hist[i],
         h[pos].view = Here.view, h[pos].category = Here.category, h[pos].start = Here.start,
         h[pos].usr.entry = Here.usr.entry, h[pos].usr.channel = Here.usr.channel,
         e.usr.channel = None,
         e.view = "channels" =>
           /\ Here.view # "channels"
           /\ e.category \in Categories
           /\ e.usr.entry => h[pos].view = "list" /\ h[pos].usr.category = e.category
  PROVE  FocusInv'
<1> DEFINE g == Append(SubSeq(h, 1, pos), e)
<1>1. /\ Len(h) \in Nat /\ pos \in Nat /\ pos >= 1 /\ pos =< Len(h)
      /\ Here = hist[pos] /\ IsView(Here) \in BOOLEAN /\ None \in Shown
  BY HereIs DEF Shown
<1>2. SubSeq(h, 1, pos) \in Seq(Entry) /\ Len(SubSeq(h, 1, pos)) = pos
  BY <1>1
<1>3. \A i \in 1..pos : SubSeq(h, 1, pos)[i] = h[i]
  BY <1>1
<1>4. /\ g \in Seq(Entry) /\ Len(g) = pos + 1 /\ g[pos + 1] = e
      /\ \A i \in 1..pos : g[i] = h[i]
  BY <1>1, <1>2, <1>3
<1>5. Sound(g) /\ Show(g, pos + 1, IsView(Here), None)
  BY PushedIsSound DEF Push
<1> HIDE DEF g
<1>6. \A i \in 1..pos : /\ i \in 1..Len(hist)
                        /\ g[i].view = hist[i].view
                        /\ g[i].usr.channel = hist[i].usr.channel
  <2> SUFFICES ASSUME NEW i \in 1..pos
               PROVE  /\ i \in 1..Len(hist)
                      /\ g[i].view = hist[i].view
                      /\ g[i].usr.channel = hist[i].usr.channel
    OBVIOUS
  <2>1. i \in 1..Len(hist) /\ (i = pos \/ i \in 1..(pos - 1))
    BY <1>1
  <2> QED BY <2>1, <1>1, <1>4
<1>7. Plain(g)
  <2> SUFFICES ASSUME NEW i \in 1..(pos + 1), g[i].view # "channels"
               PROVE  g[i].usr.channel = None
    BY <1>4 DEF Plain
  <2>1. i \in 1..pos \/ i = pos + 1
    BY <1>1
  <2> QED BY <1>4, <1>6, <2>1 DEF FocusInv, Plain
<1>8. Apart(g)
  <2> SUFFICES ASSUME NEW i \in 2..(pos + 1), g[i].view = "channels"
               PROVE  g[i-1].view # "channels"
    BY <1>4 DEF Apart
  <2>1. CASE i = pos + 1
    BY <2>1, <1>1, <1>4, <1>6
  <2>2. CASE i # pos + 1
    <3>1. i \in 1..pos /\ i - 1 \in 1..pos /\ i \in 2..Len(hist)
      BY <1>1, <2>2
    <3> QED BY <1>6, <3>1 DEF FocusInv, Apart
  <2> QED BY <2>1, <2>2
<1>9. pos + 1 \in 1..Len(g) /\ g[pos + 1].usr.channel = None
  BY <1>1, <1>4
<1> QED BY <1>1, <1>5, <1>7, <1>8, <1>9, ShowFocuses

LEMMA PushHereFocuses ==
  ASSUME IndInv, FocusInv, NEW e \in Entry, Push(hist, e), e.usr.channel = None,
         e.view = "channels" =>
           Here.view # "channels" /\ e.category \in Categories /\ ~ e.usr.entry
  PROVE  FocusInv'
  BY SameHistory, PushFocuses

LEMMA ReplaceFocuses ==
  ASSUME IndInv, FocusInv, NEW e \in Entry, NEW from \in Shown, Here.view = "channels",
         Replace(e, from), e.usr.channel = None,
         e.view = "channels" =>
           /\ e.category = Here.category
           /\ e.usr.entry => Here.usr.entry,
         e.view = "list" => from = e.usr.category
  PROVE  FocusInv'
<1> DEFINE g == [hist EXCEPT ![pos] = e]
<1>1. /\ hist \in Seq(Entry) /\ Len(hist) \in Nat /\ pos \in 1..Len(hist)
      /\ Here = hist[pos] /\ IsView(Here) \in BOOLEAN
  BY HereIs DEF Sound
<1>2. /\ Len(g) = Len(hist) /\ g[pos] = e
      /\ \A i \in 1..Len(hist) : i # pos => g[i] = hist[i]
  BY <1>1, ReplacedIn
<1>3. Sound(g) /\ Show(g, pos, IsView(Here), from)
  BY ReplacedIsSound DEF Replace
<1> HIDE DEF g
<1>4. Plain(g)
  BY <1>1, <1>2 DEF FocusInv, Plain
<1>5. Apart(g)
  <2> SUFFICES ASSUME NEW i \in 2..Len(hist), g[i].view = "channels"
               PROVE  g[i-1].view # "channels"
    BY <1>2 DEF Apart
  <2>1. i \in 1..Len(hist) /\ i - 1 \in 1..Len(hist)
    BY <1>1
  <2>2. hist[i].view = "channels"
    BY <1>1, <1>2, <2>1
  <2>3. hist[i-1].view # "channels"
    BY <2>2 DEF FocusInv, Apart
  <2> QED BY <1>1, <1>2, <2>1, <2>3
<1> QED BY <1>1, <1>2, <1>3, <1>4, <1>5, ShowFocuses

LEMMA SelectCategoryFocuses ==
  ASSUME IndInv, FocusInv, NEW c \in Categories, SelectCategory(c) PROVE FocusInv'
<1> DEFINE usr == [state EXCEPT !.category = c, !.entry = TRUE, !.channel = None]
           e == ChannelsEntry(c, 0, usr)
           tile == [Here EXCEPT !.usr.category = c]
           h == [hist EXCEPT ![pos] = tile]
<1>1. /\ Here \in Entry /\ pos \in 1..Len(hist) /\ Here = hist[pos] /\ Here.view = "list"
      /\ hist \in Seq(Entry) /\ state \in NavigationState
  BY HereIs DEF Sound, SelectCategory
<1>2. usr \in NavigationState /\ usr.channel = None
  BY <1>1 DEF NavigationState
<1> HIDE DEF usr
<1>3. /\ e \in Entry /\ e.view = "channels" /\ e.category = c /\ e.usr.channel = None
  BY <1>2, ChannelsEntryIs
<1>4. /\ tile \in Entry /\ tile.view = Here.view /\ tile.category = Here.category
      /\ tile.start = Here.start /\ tile.usr.entry = Here.usr.entry
      /\ tile.usr.channel = Here.usr.channel /\ tile.usr.category = c
  BY <1>1 DEF Entry, NavigationState
<1>5. h = TileRemembered(c)
  BY <1>1 DEF TileRemembered
<1>6. Push(h, e)
  BY <1>5 DEF SelectCategory, usr
<1> HIDE DEF tile, e
<1>7. /\ h \in Seq(Entry) /\ Len(h) = Len(hist) /\ h[pos] = tile
      /\ \A i \in 1..Len(hist) : i # pos => h[i] = hist[i]
  BY <1>1, <1>4, ReplacedIn
<1> HIDE DEF h
<1>8. \A i \in 1..(pos - 1) : h[i] = hist[i]
  BY <1>1, <1>7
<1> QED BY <1>1, <1>3, <1>4, <1>6, <1>7, <1>8, PushFocuses

LEMMA ShowAllChannelsFocuses == ASSUME IndInv, FocusInv, ShowAllChannels PROVE FocusInv'
<1> DEFINE usr == [state EXCEPT !.entry = FALSE, !.channel = None]
<1>1. usr \in NavigationState /\ usr.channel = None
  BY HereIs DEF NavigationState
<1>2. Push(hist, Other(usr))
  BY DEF ShowAllChannels
<1> HIDE DEF usr
<1> QED BY <1>1, <1>2, OtherIs, PushHereFocuses

\* One entry back from a page of channels that was opened from its list.
LEMMA CameFromIs ==
  ASSUME IndInv, pos > 1, hist[pos - 1].view = "list", CameFrom # None
  PROVE  Here.view = "channels" /\ CameFrom = hist[pos - 1].usr.category
<1>1. pos \in 1..Len(hist) /\ Here = hist[pos] /\ Here.view = "channels" /\ Here.usr.entry
      /\ CameFrom = Here.category
  BY HereIs DEF CameFrom
<1>2. hist[pos - 1].usr.category = Here.category
  BY <1>1 DEF IndInv, Sound, Flagged
<1> QED BY <1>1, <1>2

LEMMA BackFocuses ==
  ASSUME IndInv, FocusInv, pos > 1, NEW mounted \in BOOLEAN,
         Show(hist, pos - 1, mounted, CameFrom)
  PROVE  FocusInv'
<1>1. pos - 1 \in 1..Len(hist)
  BY HereIs
<1> QED BY <1>1, CameFromTyped, CameFromIs, WalkFocuses

LEMMA ReturnToCategoriesFocuses ==
  ASSUME IndInv, FocusInv, ReturnToCategories PROVE FocusInv'
<1>1. CASE state.entry
  BY <1>1, BackFocuses DEF ReturnToCategories
<1>2. CASE ~ state.entry
  <2>1. Here.view = "channels" /\ Replace(ListEntry(ListState), Here.category)
    BY <1>2 DEF ReturnToCategories
  <2>2. Here.category \in Categories /\ Here.category \in Shown
    BY <2>1, HereIs DEF Shown
  <2>3. /\ ListState \in NavigationState
        /\ ListState.channel = None /\ ListState.category = Here.category
    BY <2>2, HereIs DEF ListState, NavigationState
  <2> QED BY <2>1, <2>2, <2>3, ListEntryIs, ReplaceFocuses
<1> QED BY <1>1, <1>2

LEMMA SetPageFocuses ==
  ASSUME IndInv, FocusInv, NEW start \in Nat, Here.view = "channels", SetPage(start)
  PROVE  FocusInv'
<1> DEFINE e == ChannelsEntry(Here.category, start, PageState)
<1>1. state \in NavigationState /\ Here.category \in Categories
  BY HereIs
<1>2. PageState \in NavigationState /\ PageState.channel = None /\ PageState.entry = state.entry
  BY <1>1 DEF PageState, NavigationState
<1>3. /\ e \in Entry /\ e.view = "channels" /\ e.category = Here.category /\ e.usr = PageState
  BY <1>1, <1>2, ChannelsEntryIs
<1>4. Replace(e, None) /\ None \in Shown
  BY DEF SetPage, Shown
<1>5. e.usr.entry = Here.usr.entry
  BY <1>2, <1>3 DEF IndInv, StateIsEntrys
<1> HIDE DEF e
<1> QED BY <1>2, <1>3, <1>4, <1>5, ReplaceFocuses

LEMMA PagingFocuses ==
  ASSUME IndInv, FocusInv, ShowPreviousPage \/ ShowNextPage PROVE FocusInv'
<1>1. /\ Here.view = "channels" /\ Here.start \in Nat /\ PageSize \in Nat
  BY HereIs, EntryFields, PageAssumption DEF ShowPreviousPage, ShowNextPage, HasPaging
<1>2. CASE ShowPreviousPage
  <2>1. PreviousStart \in Nat
    BY <1>1 DEF PreviousStart
  <2> QED BY <1>1, <1>2, <2>1, SetPageFocuses DEF ShowPreviousPage
<1>3. CASE ShowNextPage
  <2>1. Here.start + PageSize \in Nat
    BY <1>1
  <2> QED BY <1>1, <1>3, <2>1, SetPageFocuses DEF ShowNextPage
<1> QED BY <1>2, <1>3

LEMMA OpenFocuses ==
  ASSUME IndInv, FocusInv, OpenChannel \/ OpenElsewhere \/ OpenProgrammes PROVE FocusInv'
<1>1. CASE OpenChannel
  BY <1>1, NoStateTyped, DetailsIs, PushHereFocuses DEF OpenChannel
<1>2. CASE OpenElsewhere
  BY <1>2, NoStateTyped, OtherIs, PushHereFocuses DEF OpenElsewhere
<1>3. CASE OpenProgrammes
  <2>1. CASE Push(hist, ListEntry(NoState))
    BY <2>1, NoStateTyped, ListEntryIs, PushHereFocuses
  <2>2. CASE /\ Here.view = "other"
             /\ \E c \in Categories, s \in Starts : Push(hist, ChannelsEntry(c, s, NoState))
    <3>1. PICK c \in Categories, s \in Starts : Push(hist, ChannelsEntry(c, s, NoState))
      BY <2>2
    <3>2. s \in Nat
      BY PageAssumption
    <3> QED BY <2>2, <3>1, <3>2, NoStateTyped, ChannelsEntryIs, PushHereFocuses
  <2> QED BY <1>3, <2>1, <2>2 DEF OpenProgrammes
<1> QED BY <1>1, <1>2, <1>3

LEMMA BrowserFocuses ==
  ASSUME IndInv, FocusInv, BrowserBack \/ BrowserForward \/ Reload PROVE FocusInv'
<1>1. /\ pos \in Nat /\ pos >= 1 /\ pos =< Len(hist) /\ Len(hist) \in Nat
      /\ IsView(Here) \in BOOLEAN /\ FALSE \in BOOLEAN /\ None \in Shown
  BY HereIs DEF Shown
<1>2. CASE BrowserBack
  BY <1>1, <1>2, BackFocuses DEF BrowserBack
<1>3. CASE BrowserForward
  <2>1. pos + 1 \in 1..Len(hist)
    BY <1>1, <1>3 DEF BrowserForward
  <2> QED BY <1>1, <1>3, <2>1, WalkFocuses DEF BrowserForward
<1>4. CASE Reload
  <2>1. pos \in 1..Len(hist)
    BY <1>1
  <2> QED BY <1>1, <1>4, <2>1, WalkFocuses DEF Reload
<1> QED BY <1>2, <1>3, <1>4

\* The focus moves within what is shown.
LEMMA RefocusWrites ==
  ASSUME IndInv, FocusInv, NEW f \in Focusable(Here, content') \cup {None},
         Focus(hist, pos, ref, f), UNCHANGED <<pos, state>>
  PROVE  /\ Plain(hist') /\ Apart(hist') /\ RefIsWritten' /\ StateIsPlain'
         /\ NeverRemembersAnother' /\ focus' = f /\ Here'.view = Here.view
<1>1. /\ pos \in 1..Len(hist) /\ Here = hist[pos] /\ Here' = hist'[pos]
      /\ Sound(hist) /\ Plain(hist) /\ Apart(hist) /\ ref \in Channels \cup {None}
  BY HereIs DEF Here, FocusInv, IndInv, TypeOK
<1>2. Here.view = "channels" /\ Here.usr.channel # None => ref = Here.usr.channel
  BY DEF FocusInv, RefIsWritten
<1>3. /\ Plain(hist') /\ Apart(hist') /\ focus' = f
      /\ hist'[pos].view = Here.view
      /\ Here.view = "channels" /\ hist'[pos].usr.channel # None =>
           /\ ref' = hist'[pos].usr.channel
           /\ f \in Channels => f = hist'[pos].usr.channel
  BY <1>1, <1>2, FocusWrites
<1>4. StateIsPlain'
  BY <1>1, <1>3 DEF FocusInv, StateIsPlain
<1> QED BY <1>1, <1>3, <1>4 DEF RefIsWritten, NeverRemembersAnother

LEMMA MoveFocusFocuses == ASSUME IndInv, FocusInv, NEW f, MoveFocus(f) PROVE FocusInv'
<1>1. /\ f \in Focusable(Here, content) \cup {None} /\ Focus(hist, pos, ref, f)
      /\ returned' = None /\ UNCHANGED <<pos, state>> /\ content' = content
  BY DEF MoveFocus
<1>2. /\ Plain(hist') /\ Apart(hist') /\ RefIsWritten' /\ StateIsPlain'
      /\ NeverRemembersAnother'
  BY <1>1, RefocusWrites
<1>3. ReturnIsState' /\ CategoryFocusRestored'
  BY <1>1 DEF ReturnIsState, CategoryFocusRestored
<1> QED BY <1>2, <1>3 DEF FocusInv

LEMMA AnsweredFocuses == ASSUME IndInv, FocusInv, Answered PROVE FocusInv'
<1>1. content' = "ready" /\ UNCHANGED <<pos, state, returned>>
  BY DEF Answered
<1>2. CASE \E f \in EffectTargets(Here, state, "ready", focus) : Focus(hist, pos, ref, f)
  <2>1. PICK f \in EffectTargets(Here, state, "ready", focus) : Focus(hist, pos, ref, f)
    BY <1>2
  <2>2. f \in Focusable(Here, content') \cup {None}
    <3>1. focus \in Focusable(Here, content') \cup {None}
      BY <1>1 DEF IndInv, FocusIsShown, Focusable
    <3> QED BY <1>1, <2>1, <3>1 DEF EffectTargets
  <2>3. /\ Plain(hist') /\ Apart(hist') /\ RefIsWritten' /\ StateIsPlain'
        /\ NeverRemembersAnother' /\ focus' = f /\ Here'.view = Here.view
    BY <1>1, <2>1, <2>2, RefocusWrites
  <2>4. Here.view = "list" /\ returned # None => f = returned
    <3> SUFFICES ASSUME Here.view = "list", returned # None PROVE f = returned
      OBVIOUS
    <3>1. returned = state.category /\ returned \in Categories
      BY DEF FocusInv, ReturnIsState, IndInv, TypeOK, NavigationState
    <3>2. Focusable(Here, "ready") = Categories
      BY DEF Focusable
    <3> QED BY <2>1, <3>1, <3>2 DEF EffectTargets
  <2>5. ReturnIsState' /\ CategoryFocusRestored'
    BY <1>1, <2>3, <2>4 DEF FocusInv, ReturnIsState, CategoryFocusRestored
  <2> QED BY <2>3, <2>5 DEF FocusInv
<1>3. CASE content = "error" /\ UNCHANGED <<hist, ref, focus>>
  <2>1. /\ Plain(hist') /\ Apart(hist') /\ RefIsWritten' /\ StateIsPlain'
        /\ NeverRemembersAnother'
    BY <1>1, <1>3 DEF FocusInv, RefIsWritten, StateIsPlain, NeverRemembersAnother, Here
  <2>2. returned' = None
    BY <1>1, <1>3 DEF FocusInv, ReturnIsState
  <2> QED BY <2>1, <2>2 DEF FocusInv, ReturnIsState, CategoryFocusRestored
<1> QED BY <1>2, <1>3 DEF Answered

LEMMA FailedFocuses == ASSUME IndInv, FocusInv, Failed PROVE FocusInv'
<1>1. /\ UNCHANGED <<hist, pos, state, ref>> /\ returned' = None
      /\ focus' = IF content = "pending" THEN focus ELSE None
  BY DEF Failed
<1>2. focus' = None
  BY <1>1 DEF IndInv, FocusIsShown, Focusable
<1>3. Plain(hist') /\ Apart(hist') /\ RefIsWritten' /\ StateIsPlain'
  BY <1>1 DEF FocusInv, RefIsWritten, StateIsPlain, Here
<1>4. ReturnIsState' /\ NeverRemembersAnother' /\ CategoryFocusRestored'
  BY <1>1, <1>2, NoneAssumption DEF ReturnIsState, NeverRemembersAnother, CategoryFocusRestored
<1> QED BY <1>3, <1>4 DEF FocusInv

-----------------------------------------------------------------------------
(* The theorems. *)

LEMMA InitHolds == Init => IndInv
<1> SUFFICES ASSUME Init PROVE IndInv
  OBVIOUS
<1>1. PICK e \in {Other(NoState), ListEntry(NoState)}
               \cup {ChannelsEntry(c, s, NoState) : c \in Categories, s \in Starts} :
        hist = <<e>>
  BY DEF Init
<1>2. e \in Entry /\ e.usr = NoState /\ (e.view = "channels" => e.category \in Categories)
  BY <1>1, NoStateTyped, OtherIs, ListEntryIs, ChannelsEntryIs, PageAssumption
<1>3. /\ hist \in Seq(Entry) /\ Len(hist) = 1 /\ hist[1] = e /\ pos = 1
      /\ \A i \in 1..Len(hist) : i = 1
  BY <1>1, <1>2 DEF Init
<1>4. Sound(hist)
  BY <1>2, <1>3, NoStateTyped, PageAssumption DEF Sound, Flagged, Remembered, Addressed
<1>5. TypeOK
  BY <1>3, NoStateTyped, PageAssumption DEF Init, TypeOK
<1>6. StateIsEntrys /\ FocusIsShown
  BY <1>2, <1>3 DEF Init, StateIsEntrys, FocusIsShown, Here
<1> QED BY <1>4, <1>5, <1>6 DEF IndInv

LEMMA NextStep == ASSUME IndInv, [Next]_vars PROVE IndInv'
<1>1. CASE User
  BY <1>1, SelectCategoryStep, ShowAllChannelsStep, ReturnToCategoriesStep, PagingStep,
     MoveFocusStep, OpenStep DEF User
<1>2. CASE Browser
  BY <1>2, OpenStep, WalkStep DEF Browser
<1>3. CASE Network
  BY <1>3, AnsweredStep, FailedStep DEF Network
<1>4. CASE UNCHANGED vars
  <2>1. TypeOK'
    BY <1>4 DEF IndInv, TypeOK, vars
  <2>2. Sound(hist') /\ StateIsEntrys' /\ FocusIsShown'
    BY <1>4 DEF IndInv, StateIsEntrys, FocusIsShown, Here, vars
  <2> QED BY <2>1, <2>2 DEF IndInv
<1> QED BY <1>1, <1>2, <1>3, <1>4 DEF Next

LEMMA Invariant == Spec => []IndInv
<1>1. IndInv /\ [Next]_vars => IndInv'
  BY NextStep
<1> QED BY <1>1, InitHolds, PTL DEF Spec

\* Paging never computes a start before the first channel, and no step leaves
\* the types (setPage).
THEOREM TypeCorrect == Spec => []TypeOK
<1>1. IndInv => TypeOK
  BY DEF IndInv
<1> QED BY <1>1, Invariant, PTL

\* The view's own Back never leaves Programmes, wherever the user has walked
\* through history before (selectCategory, returnToCategories).
THEOREM BackSafe == Spec => []FlaggedFollowsItsList
<1>1. IndInv => FlaggedFollowsItsList
  BY DEF IndInv, Sound, Flagged, FlaggedFollowsItsList
<1> QED BY <1>1, Invariant, PTL

\* No entry remembers a channel of another page than its own (setPage,
\* rememberChannelInHistory).
THEOREM MemorySafe == Spec => []RememberedIsOnPage
<1>1. IndInv => RememberedIsOnPage
  BY DEF IndInv, Sound, Remembered, RememberedIsOnPage
<1> QED BY <1>1, Invariant, PTL

LEMMA InitFocuses == ASSUME Init PROVE FocusInv
<1>1. PICK e \in {Other(NoState), ListEntry(NoState)}
               \cup {ChannelsEntry(c, s, NoState) : c \in Categories, s \in Starts} :
        hist = <<e>>
  BY DEF Init
<1>2. e.usr = NoState
  BY <1>1, NoStateTyped, OtherIs, ListEntryIs, ChannelsEntryIs, PageAssumption
<1>3. /\ Len(hist) = 1 /\ hist[1] = e /\ Here = e
      /\ \A i \in 1..Len(hist) : i = 1
      /\ 2..Len(hist) = {}
  BY <1>1 DEF Init, Here
<1>4. Plain(hist) /\ Apart(hist)
  BY <1>2, <1>3, NoStateTyped DEF Plain, Apart
<1>5. RefIsWritten /\ StateIsPlain /\ ReturnIsState /\ NeverRemembersAnother
      /\ CategoryFocusRestored
  BY <1>2, <1>3, NoStateTyped
     DEF Init, RefIsWritten, StateIsPlain, ReturnIsState, NeverRemembersAnother,
         CategoryFocusRestored
<1> QED BY <1>4, <1>5 DEF FocusInv

LEMMA NextFocuses == ASSUME IndInv, FocusInv, [Next]_vars PROVE FocusInv'
<1>1. CASE User
  BY <1>1, SelectCategoryFocuses, ShowAllChannelsFocuses, ReturnToCategoriesFocuses,
     PagingFocuses, MoveFocusFocuses, OpenFocuses DEF User
<1>2. CASE Browser
  BY <1>2, OpenFocuses, BrowserFocuses DEF Browser
<1>3. CASE Network
  BY <1>3, AnsweredFocuses, FailedFocuses DEF Network
<1>4. CASE UNCHANGED vars
  BY <1>4 DEF FocusInv, RefIsWritten, StateIsPlain, ReturnIsState, NeverRemembersAnother,
              CategoryFocusRestored, Here, vars
<1> QED BY <1>1, <1>2, <1>3, <1>4 DEF Next

LEMMA FocusInvariant == Spec => []FocusInv
<1>1. Init => FocusInv
  BY InitFocuses
<1>2. IndInv /\ FocusInv /\ [Next]_vars => FocusInv'
  BY NextFocuses
<1> QED BY <1>1, <1>2, Invariant, PTL DEF Spec

\* The tile of the category the user comes back from has the focus as soon as
\* the list is there, by whatever way the user came (the focus effect,
\* returnToCategories).
THEOREM CategoryFocusSafe == Spec => []CategoryFocusRestored
<1>1. FocusInv => CategoryFocusRestored
  BY DEF FocusInv
<1> QED BY <1>1, FocusInvariant, PTL

\* No entry remembers another channel than the one that has the focus
\* (rememberChannelFocus, focusedChannelIdRef).
THEOREM RefSafe == Spec => []NeverRemembersAnother
<1>1. FocusInv => NeverRemembersAnother
  BY DEF FocusInv
<1> QED BY <1>1, FocusInvariant, PTL

=============================================================================
