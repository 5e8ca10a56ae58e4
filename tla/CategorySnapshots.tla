------------------------- MODULE CategorySnapshots -------------------------
(***************************************************************************)
(* From the records of the tuners to the pages a client reads: the match   *)
(* of records and persisted channels (ReadCategoriesAsync), the grouping   *)
(* and the order of the categories (CategorySnapshotBuilder.Build), a      *)
(* user's view of them (CreateUserView) and its pages (GetPage).           *)
(*                                                                         *)
(* The records arrive one by one, in any order the tuners answer in; the   *)
(* snapshot is a function of those that have arrived.  A group-title is a  *)
(* number, greater when it comes later in the ordinal order; IgnoreCase    *)
(* gives its place when case is ignored.  A category's id is the key it is *)
(* the digest of.                                                          *)
(***************************************************************************)
EXTENDS Integers, Sequences, FiniteSets, SequencesExt, TLC

CONSTANTS
    Names,              \* the group-titles
    Uncategorised,      \* the one that reads "Uncategorised"
    IgnoreCase,         \* the order of StringComparer.OrdinalIgnoreCase
    ExternalIds,        \* the tuners' channel identifiers
    Channels,           \* the GUIDs of the persisted channels
    Persisted,          \* the channel persisted for an identifier, or None
    MaxRecords,         \* bound: the records of one read
    None                \* null, or a blank group-title

ASSUME NamesAssumption ==
    /\ Names \subseteq Nat
    /\ Uncategorised \in Names
    /\ IgnoreCase \in [Names -> Nat]
    /\ None \notin Names

ASSUME PersistedAssumption ==
    /\ None \notin ExternalIds
    /\ None \notin Channels
    /\ Persisted \in [ExternalIds -> Channels \cup {None}]
    /\ MaxRecords \in Nat

VARIABLES
    records,            \* history: the records read so far
    indexed,            \* the matched records
    unmatched           \* how many records were not matched

vars == <<records, indexed, unmatched>>

SourceRecord == [externalId : ExternalIds \cup {None}, group : Names \cup {None}]
IndexedChannel == [channel : Channels, group : Names \cup {None}]

Init ==
    /\ records = <<>>
    /\ indexed = <<>>
    /\ unmatched = 0

-----------------------------------------------------------------------------
(* The match. *)

\* TryGetValue on persistedByExternalId.
ChannelOf(record) ==
    IF record.externalId = None THEN None ELSE Persisted[record.externalId]

\* Without matchedIds.
NoMatches(channels) == {}

\* matchedIds
Matched(channels) == {channels[i].channel : i \in DOMAIN channels}

\* One turn of the loop over tunerResult.Channels: a record without a channel,
\* or of a channel that has one already, only counts.
Match(record) ==
    LET channel == ChannelOf(record)
    IN  IF channel = None \/ channel \in Matched(indexed)
        THEN /\ unmatched' = unmatched + 1
             /\ UNCHANGED indexed
        ELSE /\ indexed' = Append(indexed, [channel |-> channel, group |-> record.group])
             /\ UNCHANGED unmatched

Read(record) ==
    /\ Len(records) < MaxRecords
    /\ records' = Append(records, record)
    /\ Match(record)

Next == \E record \in SourceRecord : Read(record)

Spec == Init /\ [][Next]_vars

-----------------------------------------------------------------------------
(* The snapshot. *)

\* Without the prefixes.
KeyByName(group) == [named |-> TRUE, name |-> IF group = None THEN Uncategorised ELSE group]

\* The key keeps a group-title "Uncategorised" apart from a missing one.
Key(group) == [named |-> group # None, name |-> IF group = None THEN Uncategorised ELSE group]

\* The groups in the order of their first channel, as the dictionary keeps
\* them.  A channel that is in a group already is passed over.
AddChannel(groups, entry) ==
    LET place == SelectInSeq(groups, LAMBDA g : g.id = Key(entry.group))
    IN  IF \E i \in DOMAIN groups : entry.channel \in ToSet(groups[i].channels)
        THEN groups
        ELSE IF place = 0
        THEN Append(groups, [id |-> Key(entry.group), name |-> Key(entry.group).name,
                             channels |-> <<entry.channel>>])
        ELSE [groups EXCEPT ![place].channels = Append(@, entry.channel)]

Groups(channels) ==
    LET after[n \in 0..Len(channels)] ==
            IF n = 0 THEN <<>> ELSE AddChannel(after[n - 1], channels[n])
    IN  after[Len(channels)]

\* Without ThenBy.
BeforeIgnoringCase(a, b) == IgnoreCase[a] < IgnoreCase[b]

\* OrderBy OrdinalIgnoreCase, ThenBy Ordinal.
Before(a, b) ==
    \/ IgnoreCase[a] < IgnoreCase[b]
    \/ IgnoreCase[a] = IgnoreCase[b] /\ a < b

\* The elements of a finite set in the order of a relation: each stands behind
\* as many as precede it.
InOrder(S, precedes) ==
    [n \in 1..Cardinality(S) |->
        CHOOSE x \in S : Cardinality({y \in S : <<y, x>> \in precedes}) = n - 1]

\* The sort is stable: groups that neither name puts first keep their order.
SortedFirst(groups) ==
    {pair \in (DOMAIN groups) \X (DOMAIN groups) :
        \/ Before(groups[pair[1]].name, groups[pair[2]].name)
        \/ /\ ~ Before(groups[pair[2]].name, groups[pair[1]].name)
           /\ pair[1] < pair[2]}

Build(channels) ==
    LET groups == Groups(channels)
        order == InOrder(DOMAIN groups, SortedFirst(groups))
    IN  [i \in DOMAIN groups |-> groups[order[i]]]

Ascending(S) == InOrder(S, {pair \in S \X S : pair[1] < pair[2]})

\* What a sequence has at some of its places.
Selected(s, places) == [n \in 1..Cardinality(places) |-> s[Ascending(places)[n]]]

SeenBy(visible, channels) == Selected(channels, {n \in DOMAIN channels : channels[n] \in visible})

\* Without ids.Length > 0.
ViewWithEmpty(snapshot, visible) ==
    [i \in DOMAIN snapshot |-> [snapshot[i] EXCEPT !.channels = SeenBy(visible, @)]]

\* A user's view keeps the order and drops what the user may not see, and the
\* categories nothing is left of.
CreateUserView(snapshot, visible) ==
    LET filtered == [i \in DOMAIN snapshot |-> [snapshot[i] EXCEPT !.channels = SeenBy(visible, @)]]
    IN  Selected(filtered, {i \in DOMAIN filtered : filtered[i].channels # <<>>})

\* Skip(startIndex).Take(limit)
PageOf(channels, start, limit) ==
    SubSeq(channels, start + 1,
           IF start + limit =< Len(channels) THEN start + limit ELSE Len(channels))

-----------------------------------------------------------------------------
(* Properties. *)

TotalOf(snapshot) ==
    LET total[n \in 0..Len(snapshot)] ==
            IF n = 0 THEN 0 ELSE total[n - 1] + Len(snapshot[n].channels)
    IN  total[Len(snapshot)]

\* The records that decide where a channel goes: its first one.
Decides(i) ==
    /\ ChannelOf(records[i]) # None
    /\ \A j \in 1..(i - 1) : ChannelOf(records[j]) # ChannelOf(records[i])

\* The loop keeps its types and counts every record once.
TypeOK ==
    /\ records \in Seq(SourceRecord)
    /\ indexed \in Seq(IndexedChannel)
    /\ unmatched \in Nat
    /\ Len(indexed) + unmatched = Len(records)

\* The snapshot against its definition: a category for every group of the
\* deciding records, with exactly their channels in the order they were read;
\* so no channel is lost, doubled, or in two categories, and the count in the
\* diagnostics is the snapshot's (Build, matchedIds).
SnapshotIsGrouping ==
    LET snapshot == Build(indexed)
        deciding == {i \in DOMAIN records : Decides(i)}
        channelsOf(key) ==
            LET own == {i \in deciding : Key(records[i].group) = key}
            IN  [n \in 1..Cardinality(own) |-> ChannelOf(records[Ascending(own)[n]])]
        keys == {Key(records[i].group) : i \in deciding}
    IN  /\ ToSet(snapshot) = {[id |-> key, name |-> key.name, channels |-> channelsOf(key)] : key \in keys}
        /\ Len(snapshot) = Cardinality(keys)
        /\ TotalOf(snapshot) = Len(indexed)

\* Titles that are not the same characters are never one category, also if
\* they differ in case only or read like the missing one
\* (docs/architecture.md:26).
IdsAreExact ==
    \A i \in DOMAIN indexed, j \in DOMAIN indexed :
        (\E c \in ToSet(Build(indexed)) :
            {indexed[i].channel, indexed[j].channel} \subseteq ToSet(c.channels))
        <=> indexed[i].group = indexed[j].group

\* Tuners that answer in another order change the order of the channels in a
\* category, never the list of the categories' names nor which channels each
\* category has: names that differ in case only still have one order (Build).
OrderIsByName ==
    LET snapshot == Build(indexed)
        names(s) == [i \in DOMAIN s |-> s[i].name]
        members(s) == {<<s[i].id, ToSet(s[i].channels)>> : i \in DOMAIN s}
    IN  \A p \in Bijection(DOMAIN indexed, DOMAIN indexed) :
            LET other == Build([i \in DOMAIN indexed |-> indexed[p[i]]])
            IN  names(other) = names(snapshot) /\ members(other) = members(snapshot)

Joined(pages) ==
    LET joined[n \in 0..Len(pages)] == IF n = 0 THEN <<>> ELSE joined[n - 1] \o pages[n]
    IN  joined[Len(pages)]

\* What a client gets that asks for page after page.
ReadInPages(channels, limit) ==
    Joined([n \in DOMAIN channels |-> PageOf(channels, (n - 1) * limit, limit)])

\* A user's view is the snapshot that would have been built had the tuners
\* listed the visible channels only: counts, order and membership carry no
\* trace of the others, and pages of any size, read one after the other, give
\* every channel once and in that order (CreateUserView, GetPage).
ViewIsOwnSnapshot ==
    \A visible \in SUBSET Channels :
        LET view == CreateUserView(Build(indexed), visible)
            own == Build(Selected(indexed, {i \in DOMAIN indexed : indexed[i].channel \in visible}))
        IN  /\ [i \in DOMAIN view |-> view[i].name] = [i \in DOMAIN own |-> own[i].name]
            /\ \A limit \in 1..Cardinality(Channels) :
                  {[c EXCEPT !.channels = ReadInPages(@, limit)] : c \in ToSet(view)} = ToSet(own)

=============================================================================
