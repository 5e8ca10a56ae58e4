------------------------ MODULE MCCategorySnapshots ------------------------
(* CategorySnapshots for TLC: three titles, two of which differ in case    *)
(* only, and four identifiers of which one has no channel.  Pages of at    *)
(* most two.                                                               *)
EXTENDS ClientLists

MCNames == 1..3

\* 1 reads "UNCATEGORISED", 2 "Uncategorised", 3 "news".
MCIgnoreCase == <<2, 2, 1>>

\* Base letters make 1 and 2 equal; so does the lower case.
MCCollation == <<2, 2, 1>>

MCPersisted == [x \in ExternalIds |-> IF x = "x0" THEN None ELSE x]

=============================================================================
