---------------------------- MODULE ClientLists ----------------------------
(***************************************************************************)
(* What the clients make of the service's answers: each has a              *)
(* normalisation of the list of categories and a page size of its own.     *)
(* The independent page (browser-core.js), the legacy and the modern       *)
(* integration (livetvcategoriesModel.js, liveTvCategories.ts), the        *)
(* overlay of the earlier release (livetvsuggested.js) and the shared      *)
(* service (category-service.mjs), which the prototype of the builder      *)
(* (category-index.mjs) belongs to, are read side by side, on the          *)
(* answers CategorySnapshots builds.                                       *)
(*                                                                         *)
(* An entry that is not an object, or has a field of another type, is      *)
(* None; Blank is an empty text; a count of -1 stands for a number that    *)
(* is negative or no integer.                                              *)
(***************************************************************************)
EXTENDS CategorySnapshots

CONSTANTS
    AllChannels,        \* the id "all-channels"
    Blank,              \* the empty text
    Collation,          \* the order of names, numeric and by base letters
    LowerCollation,     \* the order of the names' lower-case forms
    DefaultLimit,       \* DEFAULT_PAGE_SIZE, and browser-core's PAGE_SIZE
    MaxLimit            \* MAX_PAGE_SIZE, and the controller's Range(1, 250)

ASSUME ClientAssumption ==
    /\ Collation \in [Names -> Nat]
    /\ LowerCollation \in [Names -> Nat]
    /\ Blank \notin Names
    /\ MaxLimit \in Nat
    /\ DefaultLimit \in 1..MaxLimit

\* The plugin's ids: they start with "category-" or "uncategorised-", and are
\* no text a client gives a meaning of its own (CreateCategoryId).
PluginIds == [named : BOOLEAN, name : Names]

ASSUME IdAssumption ==
    /\ {AllChannels, Blank} \cap PluginIds = {}
    /\ None \notin [id : PluginIds, name : Names, count : Nat]

-----------------------------------------------------------------------------
(* The list of categories. *)

\* LiveTvCategorySummary
Summary(category) == [id |-> category.id, name |-> category.name, count |-> Len(category.channels)]

Answer(view) == [i \in DOMAIN view |-> Summary(view[i])]

\* The entries that are accepted, the first of every id: the set "ids".
KeepFirst(entries, accepted) ==
    LET places == {i \in DOMAIN entries : entries[i] \in accepted}
    IN  Selected(entries,
            {i \in places : \A j \in places : j < i => entries[j].id # entries[i].id})

\* A stable sort; an empty name comes first.
SortedBy(rank, entries) ==
    LET place(i) == IF entries[i].name = Blank THEN -1 ELSE rank[entries[i].name]
        precedes == {pair \in (DOMAIN entries) \X (DOMAIN entries) :
                        \/ place(pair[1]) < place(pair[2])
                        \/ place(pair[1]) = place(pair[2]) /\ pair[1] < pair[2]}
        order == InOrder(DOMAIN entries, precedes)
    IN  [n \in DOMAIN entries |-> entries[order[n]]]

Usable(e) == e # None /\ e.id # Blank /\ e.name # Blank /\ e.count >= 0

Accepted(entries) == {e \in ToSet(entries) : Usable(e)}

Listed(entries) == [error |-> FALSE, entries |-> entries]

\* Every client then offers All channels alone, with a message.
Unavailable == [error |-> TRUE, entries |-> <<>>]

\* core.categories: an entry that would pass for All channels is dropped.
StandaloneCategories(entries) ==
    Listed(SortedBy(LowerCollation,
                    KeepFirst(entries, {e \in Accepted(entries) : e.id # AllChannels})))

\* Without the set of ids.
NormalizeRepeated(entries) == 
    Listed(SortedBy(Collation, Selected(entries, {i \in DOMAIN entries : Usable(entries[i])})))

\* normalizeCategories and normalizeLiveTvCategories
NormalizeCategories(entries) ==
    Listed(SortedBy(Collation, KeepFirst(entries, Accepted(entries))))

\* The overlay asks for texts, not for texts that are not empty.
OverlayCategories(entries) ==
    LET counted == {e \in ToSet(entries) \ {None} : e.count >= 0}
    IN  Listed(SortedBy(Collation, KeepFirst(entries, counted)))

\* normalizeCategoryPayload and getLandingEntries: one entry that cannot be
\* used fails the whole answer.
LandingEntries(entries) ==
    IF \A e \in ToSet(entries) : Usable(e)
    THEN NormalizeCategories(entries)
    ELSE Unavailable

Clients == {"standalone", "integration", "overlay", "service"}

\* What a client lists besides All channels.
ListOf(client, entries) ==
    CASE client = "standalone" -> StandaloneCategories(entries)
      [] client = "integration" -> NormalizeCategories(entries)
      [] client = "overlay" -> OverlayCategories(entries)
      [] client = "service" -> LandingEntries(entries)

-----------------------------------------------------------------------------
(* The pages of channels. *)

\* Range(1, 250), and GetCategoryChannels' own check of the same bounds.
ValidLimit(limit) == limit \in 1..MaxLimit

AtMost(bound, n) == IF n < bound THEN n ELSE bound

\* Without Math.min.
PageSizeUnbounded(configured) == IF configured >= 1 THEN configured ELSE DefaultLimit

\* categoryPageSize, getCategoryPageSize: the user's setting, within bounds.
CategoryPageSize(configured) ==
    IF configured >= 1 THEN AtMost(MaxLimit, configured) ELSE DefaultLimit

\* The overlay's categoryPageSize.
OverlayPageSize(configured) ==
    IF configured > 0 THEN AtMost(MaxLimit, configured) ELSE DefaultLimit

\* pageOptions and parsePageOptions raise a setting below one instead.
RequestedLimit(configured) ==
    AtMost(MaxLimit, IF configured < 1 THEN 1 ELSE configured)

LimitOf(client, configured) ==
    CASE client = "standalone" -> DefaultLimit
      [] client = "integration" -> CategoryPageSize(configured)
      [] client = "overlay" -> OverlayPageSize(configured)
      [] client = "service" -> RequestedLimit(configured)

\* The answer to one page: its items, and the total or -1.
PageAnswer(channels, start, limit) ==
    [items |-> PageOf(channels, start, limit), total |-> Len(channels)]

\* getCategoryChannels and fetchLiveTvCategoryChannels throw otherwise.
Readable(response) == response.total >= 0

\* Whether a client shows an answer: the overlay does not look at the total.
Shown(client, response) == client = "overlay" \/ Readable(response)

\* core.channelPage drops the items without an id or a name; the others show
\* what is there.
RowsOf(client, response) ==
    IF client = "standalone"
    THEN Selected(response.items, {i \in DOMAIN response.items : response.items[i] # None})
    ELSE response.items

\* Next is offered while a channel lies behind the page.
HasNext(response, start, limit) == start + limit < response.total

-----------------------------------------------------------------------------
(* The prototype of the builder. *)

\* Groups are looked for by their name.
AddToIndexByName(groups, entry) ==
    LET place == SelectInSeq(groups, LAMBDA g : g.name = Key(entry.group).name)
    IN  IF place = 0
        THEN Append(groups, [id |-> Key(entry.group), name |-> Key(entry.group).name,
                             channels |-> <<entry.channel>>])
        ELSE [groups EXCEPT ![place].channels = Append(@, entry.channel)]

\* One turn of buildCategoryIndex: it merges equal group-titles and, unlike
\* the builder, takes every channel as often as it is listed.
AddToIndex(groups, entry) ==
    LET place == SelectInSeq(groups, LAMBDA g : g.id = Key(entry.group))
    IN  IF place = 0
        THEN Append(groups, [id |-> Key(entry.group), name |-> Key(entry.group).name,
                             channels |-> <<entry.channel>>])
        ELSE [groups EXCEPT ![place].channels = Append(@, entry.channel)]

BuildCategoryIndex(channels) ==
    LET after[n \in 0..Len(channels)] ==
            IF n = 0 THEN <<>> ELSE AddToIndex(after[n - 1], channels[n])
    IN  SortedBy(Collation, after[Len(channels)])

\* getPage, with slice in place of Skip and Take.
PrototypePage(channels, start, configured) ==
    LET end == start + RequestedLimit(configured)
    IN  [items |-> SubSeq(channels, start + 1, AtMost(Len(channels), end)), total |-> Len(channels)]

-----------------------------------------------------------------------------
(* Properties. *)

Sent == Answer(Build(indexed))

\* What the clients get is a function of indexed, and every value of indexed
\* is reached by records that match: the others need not be looked at again.
AllMatched == unmatched = 0

\* What a faulty service or proxy might add to the list at one place.
Junk ==
    {None, [id |-> AllChannels, name |-> Uncategorised, count |-> 1]}
        \cup {[e EXCEPT !.name = Blank] : e \in ToSet(Sent)}
        \cup {[e EXCEPT !.count = -1] : e \in ToSet(Sent)}
        \cup {[e EXCEPT !.count = e.count + 1] : e \in ToSet(Sent)}

Ids(entries) == {entries[i].id : i \in DOMAIN entries}

\* A list with one broken, repeated or reserved entry costs no client a
\* category: every category the service has appears exactly once, as sent or
\* as the entry that repeats it first.  Only the shared service gives up the
\* list, and only for an entry it cannot use.  No client but the overlay
\* shows a category without a name, and the independent page never shows one
\* that would be taken for All channels (the clients' normalisations).
ListsAreComplete ==
    AllMatched =>
    \A junk \in Junk, place \in 1..(Len(Sent) + 1), client \in Clients :
        LET entries == InsertAt(Sent, place, junk)
            list == ListOf(client, entries)
            shown == list.entries
        IN  IF list.error THEN client = "service" /\ ~ Usable(junk)
            ELSE /\ Ids(Sent) \subseteq Ids(shown)
                 /\ Cardinality(Ids(shown)) = Len(shown)
                 /\ ToSet(shown) \subseteq ToSet(Sent) \cup {junk}
                 /\ client # "overlay" /\ junk \in ToSet(shown) => Usable(junk)
                 /\ client = "standalone" => AllChannels \notin Ids(shown)

\* The pages a client asks for, one behind the other while it offers Next.
PageStarts(limit, channels) ==
    {start \in 0..Len(channels) :
        /\ start % limit = 0
        /\ \A earlier \in 0..(start - 1) : earlier % limit = 0 =>
              HasNext(PageAnswer(channels, earlier, limit), earlier, limit)}

\* Whatever page size the user has set, every client asks for sizes the
\* controller accepts, and Next, pressed while it is offered, shows every
\* channel of a category once, in the service's order (categoryPageSize,
\* pageOptions, GetPage).
PagesAreReadable ==
    AllMatched =>
    \A client \in Clients, configured \in -1..(MaxLimit + 2) :
        LET limit == LimitOf(client, configured)
        IN  /\ ValidLimit(limit)
            /\ \A category \in ToSet(Build(indexed)) :
                  LET starts == Ascending(PageStarts(limit, category.channels))
                      page(i) == PageAnswer(category.channels, starts[i], limit)
                  IN  /\ \A i \in DOMAIN starts : Shown(client, page(i))
                      /\ Joined([i \in DOMAIN starts |-> RowsOf(client, page(i))]) =
                             category.channels

\* The prototype gives the categories, ids, channels and pages the plugin's
\* builder gives, for every list without a channel twice
\* (prototype/test/category-index.test.mjs tests the one, C# tests the other).
PrototypeAgrees ==
    AllMatched =>
    LET categories == ToSet(BuildCategoryIndex(indexed))
    IN  /\ categories = ToSet(Build(indexed))
        /\ \A category \in categories, start \in 0..MaxRecords, limit \in 1..MaxLimit :
              PrototypePage(category.channels, start, limit) =
                  PageAnswer(category.channels, start, limit)

=============================================================================
