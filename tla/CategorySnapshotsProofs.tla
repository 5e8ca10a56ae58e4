---------------------- MODULE CategorySnapshotsProofs ----------------------
(***************************************************************************)
(* From the records to the pages, for any number of records, channels and  *)
(* titles: what was matched are the records that decide (IndInv), and the  *)
(* snapshot of any list without a channel twice is its groups, by name     *)
(* (SnapshotIs).  The properties of CategorySnapshots follow, and those of *)
(* ClientLists: a client keeps the first entry of every id and sorts what  *)
(* it keeps (FirstKept, SortedHas), and asks for the multiples of its page *)
(* size below a category's length (StartsAre).                             *)
(*                                                                         *)
(* Groups, TotalOf, Joined and BuildCategoryIndex are recursions over a    *)
(* sequence.  They are reasoned about by induction over the set of the     *)
(* places reached (Induction), after a solution of the recursion is shown  *)
(* to exist (Recursion).                                                   *)
(***************************************************************************)
EXTENDS ClientLists, FiniteSetTheorems, FunctionTheorems,
        SequenceTheorems, WellFoundedInduction, TLAPS

-----------------------------------------------------------------------------
(* Numbers. *)

LEMMA NatIsWellFounded ==
  \E R : IsWellFoundedOn(R, Nat) /\ \A x, y \in Nat : x < y => <<x, y>> \in R
<1>1. \A x, y \in Nat : x < y => <<x, y>> \in OpToRel(<, Nat)
  BY Zenon DEF OpToRel
<1> QED
  BY <1>1, NatLessThanWellFounded, Zenon

LEMMA LeastNumber ==
  ASSUME NEW T \in SUBSET Nat, T # {}
  PROVE  \E n \in T : \A m \in T : n =< m
<1>1. PICK R : IsWellFoundedOn(R, Nat) /\ \A x, y \in Nat : x < y => <<x, y>> \in R
  BY NatIsWellFounded
<1>2. T \subseteq Nat
  OBVIOUS
<1>3. \E x \in T : \A y \in T : ~ (<<y, x>> \in R)
  <2>1. IsWellFoundedOn(R, Nat)
    BY <1>1
  <2> QED
    BY <2>1, <1>2, WFMin
<1>4. PICK x \in T : \A y \in T : ~ (<<y, x>> \in R)
  BY <1>3
<1>5. \A y \in T : ~ (y < x)
  BY <1>1, <1>2, <1>4
<1>6. \A y \in T : x =< y
  BY <1>2, <1>5
<1> QED
  BY <1>6

\* Induction, over a set of numbers in place of a property.
LEMMA Induction ==
  ASSUME NEW T \in SUBSET Nat, 0 \in T, \A n \in T : n + 1 \in T
  PROVE  T = Nat
<1> SUFFICES ASSUME Nat \ T # {} PROVE FALSE
  OBVIOUS
<1>1. PICK n \in Nat \ T : \A m \in Nat \ T : n =< m
  BY LeastNumber
<1>2. n # 0 /\ n - 1 \in Nat
  BY <1>1
<1>3. n - 1 \in T
  BY <1>1, <1>2
<1> QED
  BY <1>1, <1>2, <1>3

\* A recursion over the places of a sequence has a solution.
Solvable(V, start, n, step) ==
    \E f \in [0..n -> V] : f[0] = start /\ \A k \in 1..n : f[k] = step[k][f[k - 1]]

LEMMA Recursion ==
  ASSUME NEW V, NEW start \in V, NEW n \in Nat, NEW step \in [1..n -> [V -> V]]
  PROVE  Solvable(V, start, n, step)
<1> DEFINE Solves(f, m) == f[0] = start /\ \A k \in 1..m : f[k] = step[k][f[k - 1]]
           T == {m \in Nat : m =< n => \E f \in [0..m -> V] : Solves(f, m)}
<1>1. 0 \in T
  <2> DEFINE f == [k \in 0..0 |-> start]
  <2>1. f \in [0..0 -> V] /\ f[0] = start
    OBVIOUS
  <2>2. 1..0 = {}
    OBVIOUS
  <2> HIDE DEF f
  <2>3. Solves(f, 0)
    BY <2>1, <2>2
  <2> QED
    BY <2>1, <2>3
<1>2. ASSUME NEW m \in T
      PROVE  m + 1 \in T
  <2> SUFFICES ASSUME m + 1 =< n
               PROVE  \E f \in [0..(m + 1) -> V] : Solves(f, m + 1)
    OBVIOUS
  <2>1. m \in Nat /\ m =< n /\ m + 1 \in 1..n
    OBVIOUS
  <2>2. PICK g \in [0..m -> V] : Solves(g, m)
    BY <2>1
  <2>3. step[m + 1][g[m]] \in V
    BY <2>1
  <2> DEFINE f == [k \in 0..(m + 1) |-> IF k = m + 1 THEN step[m + 1][g[m]] ELSE g[k]]
  <2>4. f \in [0..(m + 1) -> V]
    BY <2>1, <2>3
  <2>5. (\A k \in 0..m : f[k] = g[k]) /\ f[m + 1] = step[m + 1][g[m]]
    BY <2>1
  <2> HIDE DEF f
  <2>6. ASSUME NEW k \in 1..(m + 1)
        PROVE  f[k] = step[k][f[k - 1]]
    <3>1. CASE k = m + 1
      <4>1. k - 1 = m /\ f[k - 1] = g[m]
        BY <2>1, <2>5, <3>1
      <4> QED
        BY <2>5, <3>1, <4>1
    <3>2. CASE k # m + 1
      <4>1. k \in 1..m /\ k \in 0..m /\ k - 1 \in 0..m
        BY <2>1, <3>2
      <4> QED
        BY <2>2, <2>5, <4>1
    <3> QED
      BY <3>1, <3>2
  <2>7. Solves(f, m + 1)
    BY <2>1, <2>2, <2>5, <2>6
  <2> QED
    BY <2>4, <2>7
<1>3. T = Nat
  <2>1. T \in SUBSET Nat
    OBVIOUS
  <2> HIDE DEF T
  <2> QED
    BY <1>1, <1>2, <2>1, Induction
<1> QED
  BY <1>3 DEF Solvable

-----------------------------------------------------------------------------
(* Order. *)

StrictOrder(S, precedes) ==
    /\ \A x \in S : <<x, x>> \notin precedes
    /\ \A x, y \in S : x # y => <<x, y>> \in precedes \/ <<y, x>> \in precedes
    /\ \A x, y, z \in S :
          <<x, y>> \in precedes /\ <<y, z>> \in precedes => <<x, z>> \in precedes

Preceding(S, precedes, x) == {y \in S : <<y, x>> \in precedes}

\* Whoever comes later has more in front.
LEMMA LaterHasMore ==
  ASSUME NEW S, IsFiniteSet(S), NEW precedes, StrictOrder(S, precedes),
         NEW x \in S, NEW y \in S, <<x, y>> \in precedes
  PROVE  Cardinality(Preceding(S, precedes, x)) < Cardinality(Preceding(S, precedes, y))
<1> DEFINE A == Preceding(S, precedes, x)
           B == Preceding(S, precedes, y)
<1>1. A \subseteq B /\ x \in B /\ x \notin A /\ B \subseteq S
  BY DEF StrictOrder, Preceding
<1> HIDE DEF A, B
<1>2. IsFiniteSet(B) /\ Cardinality(B) \in Nat
  BY <1>1, FS_Subset, FS_CardinalityType
<1>3. IsFiniteSet(A) /\ Cardinality(A) \in Nat
  BY <1>1, <1>2, FS_Subset, FS_CardinalityType
<1>4. Cardinality(A) =< Cardinality(B) /\ Cardinality(A) # Cardinality(B)
  BY <1>1, <1>2, FS_Subset
<1> QED
  BY <1>2, <1>3, <1>4 DEF A, B

LEMMA PrecedingBounded ==
  ASSUME NEW S, IsFiniteSet(S), NEW precedes, StrictOrder(S, precedes), NEW x \in S
  PROVE  /\ Cardinality(S) \in Nat
         /\ Cardinality(Preceding(S, precedes, x)) \in 0..(Cardinality(S) - 1)
<1> DEFINE A == Preceding(S, precedes, x)
<1>1. A \subseteq S /\ x \notin A
  BY DEF StrictOrder, Preceding
<1> HIDE DEF A
<1>2. Cardinality(S) \in Nat /\ IsFiniteSet(A) /\ Cardinality(A) \in Nat
  BY <1>1, FS_Subset, FS_CardinalityType
<1>3. Cardinality(A) =< Cardinality(S) /\ Cardinality(A) # Cardinality(S)
  BY <1>1, FS_Subset
<1> QED
  BY <1>2, <1>3 DEF A

\* A finite set in order names each of its elements once, and what precedes
\* another first.
LEMMA InOrderOrders ==
  ASSUME NEW S, IsFiniteSet(S), NEW precedes, StrictOrder(S, precedes)
  PROVE  LET q == InOrder(S, precedes)
             n == Cardinality(S)
         IN  /\ n \in Nat
             /\ q \in [1..n -> S]
             /\ \A x \in S : \E i \in 1..n : q[i] = x
             /\ \A i, j \in 1..n : i < j => <<q[i], q[j]>> \in precedes
             /\ \A i, j \in 1..n : q[i] = q[j] => i = j
             /\ \A i \in 1..n : Cardinality(Preceding(S, precedes, q[i])) = i - 1
<1> DEFINE n == Cardinality(S)
           rank == [x \in S |-> Cardinality(Preceding(S, precedes, x)) + 1]
           q == InOrder(S, precedes)
<1>1. n \in Nat
  BY FS_CardinalityType
<1>2. \A x \in S : rank[x] \in 1..n
  BY <1>1, PrecedingBounded
<1>3. \A x, y \in S : <<x, y>> \in precedes => rank[x] < rank[y]
  <2> TAKE x, y \in S
  <2> HAVE <<x, y>> \in precedes
  <2>1. Cardinality(Preceding(S, precedes, x)) < Cardinality(Preceding(S, precedes, y))
    BY LaterHasMore
  <2>2. /\ Cardinality(Preceding(S, precedes, x)) \in Int
        /\ Cardinality(Preceding(S, precedes, y)) \in Int
    BY <1>1, PrecedingBounded
  <2> QED
    BY <2>1, <2>2
<1>4. \A i \in 1..n : q[i] = CHOOSE x \in S : Cardinality(Preceding(S, precedes, x)) = i - 1
  BY DEF InOrder, Preceding
<1>5. q = [i \in 1..n |-> CHOOSE x \in S : Cardinality(Preceding(S, precedes, x)) = i - 1]
  BY Zenon DEF InOrder, Preceding
<1>6. \A x \in S : Cardinality(Preceding(S, precedes, x)) = rank[x] - 1
  <2> TAKE x \in S
  <2>1. Cardinality(Preceding(S, precedes, x)) \in Int
    BY <1>1, PrecedingBounded
  <2>2. rank[x] = Cardinality(Preceding(S, precedes, x)) + 1
    OBVIOUS
  <2> QED
    BY <2>1, <2>2
<1>7. \A x, y \in S : x # y => <<x, y>> \in precedes \/ <<y, x>> \in precedes
  BY DEF StrictOrder
<1> HIDE DEF rank, q
<1>8. \A x, y \in S : rank[x] = rank[y] => x = y
  <2> SUFFICES ASSUME NEW x \in S, NEW y \in S, rank[x] = rank[y], x # y
               PROVE  FALSE
    OBVIOUS
  <2>1. rank[x] \in Int /\ rank[y] \in Int
    BY <1>1, <1>2
  <2>2. <<x, y>> \in precedes \/ <<y, x>> \in precedes
    BY <1>7
  <2>3. rank[x] < rank[y] \/ rank[y] < rank[x]
    BY <1>3, <2>2
  <2> QED
    BY <2>1, <2>3
<1>9. \A i \in 1..n : \E x \in S : rank[x] = i
  <2>1. rank \in [S -> 1..n]
    BY <1>2 DEF rank
  <2>2. rank \in Injection(S, 1..n)
    BY <1>8, <2>1, Fun_IsInj
  <2>3. IsFiniteSet(1..n) /\ Cardinality(1..n) = n
    BY <1>1, FS_Interval
  <2>4. rank \in Surjection(S, 1..n)
    BY <2>2, <2>3, FS_Injection
  <2> QED
    BY <2>4, Fun_SurjectionProperties
<1>10. \A i \in 1..n : q[i] \in S /\ rank[q[i]] = i
  <2> TAKE i \in 1..n
  <2>1. PICK x \in S : rank[x] = i
    BY <1>9
  <2>2. Cardinality(Preceding(S, precedes, x)) = i - 1
    BY <1>6, <2>1
  <2>3. q[i] \in S /\ Cardinality(Preceding(S, precedes, q[i])) = i - 1
    BY <1>4, <2>2
  <2>4. rank[q[i]] - 1 = i - 1 /\ rank[q[i]] \in Int
    BY <1>2, <1>6, <2>3
  <2> QED
    BY <2>3, <2>4
<1>11. q \in [1..n -> S]
  <2>1. \A i \in 1..n : (CHOOSE x \in S : Cardinality(Preceding(S, precedes, x)) = i - 1) \in S
    BY <1>4, <1>10
  <2> QED
    BY <1>5, <2>1, Zenon
<1>12. \A x \in S : \E i \in 1..n : q[i] = x
  <2> TAKE x \in S
  <2>1. rank[x] \in 1..n
    BY <1>2
  <2>2. q[rank[x]] \in S /\ rank[q[rank[x]]] = rank[x]
    BY <1>10, <2>1
  <2>3. q[rank[x]] = x
    BY <1>8, <2>2
  <2> QED
    BY <2>1, <2>3
<1>13. \A i, j \in 1..n : q[i] = q[j] => i = j
  BY <1>10
<1>14. \A i, j \in 1..n : i < j => <<q[i], q[j]>> \in precedes
  <2> SUFFICES ASSUME NEW i \in 1..n, NEW j \in 1..n, i < j
               PROVE  <<q[i], q[j]>> \in precedes
    OBVIOUS
  <2>1. q[i] \in S /\ q[j] \in S /\ rank[q[i]] = i /\ rank[q[j]] = j
    BY <1>10
  <2>2. q[i] # q[j]
    BY <1>1, <2>1
  <2>3. ~ (<<q[j], q[i]>> \in precedes)
    BY <1>1, <1>3, <2>1
  <2> QED
    BY <2>1, <2>2, <2>3 DEF StrictOrder
<1>15. \A i \in 1..n : Cardinality(Preceding(S, precedes, q[i])) = i - 1
  BY <1>6, <1>10
<1> QED
  BY <1>1, <1>11, <1>12, <1>13, <1>14, <1>15 DEF q

\* There is no other order.
LEMMA OrderIsUnique ==
  ASSUME NEW S, IsFiniteSet(S), NEW precedes, StrictOrder(S, precedes),
         NEW n \in Nat, NEW q \in [1..n -> S],
         \A x \in S : \E i \in 1..n : q[i] = x,
         \A i, j \in 1..n : i < j => <<q[i], q[j]>> \in precedes
  PROVE  q = InOrder(S, precedes) /\ n = Cardinality(S)
<1>1. \A i, j \in 1..n : q[i] = q[j] => i = j
  <2> SUFFICES ASSUME NEW i \in 1..n, NEW j \in 1..n, q[i] = q[j], i < j
               PROVE  FALSE
    OBVIOUS
  <2>1. <<q[i], q[j]>> \in precedes /\ q[i] \in S
    OBVIOUS
  <2> QED
    BY <2>1 DEF StrictOrder
<1>2. q \in Bijection(1..n, S)
  BY <1>1, Fun_IsBij
<1>3. n = Cardinality(S)
  <2>1. ExistsBijection(1..n, S)
    BY <1>2 DEF ExistsBijection
  <2>2. IsFiniteSet(1..n) /\ Cardinality(1..n) = n
    BY FS_Interval
  <2> QED
    BY <2>1, <2>2, FS_Bijection
<1>4. ASSUME NEW i \in 1..n
      PROVE  Cardinality(Preceding(S, precedes, q[i])) = i - 1
  <2> DEFINE part == [k \in 1..(i - 1) |-> q[k]]
             P == Preceding(S, precedes, q[i])
  <2>1. \A k \in 1..(i - 1) : k \in 1..n /\ part[k] = q[k] /\ q[k] \in P
    BY DEF Preceding
  <2>2. \A x \in P : \E k \in 1..(i - 1) : part[k] = x
    <3> SUFFICES ASSUME NEW x \in P PROVE \E k \in 1..(i - 1) : part[k] = x
      OBVIOUS
    <3>1. PICK k \in 1..n : q[k] = x
      BY DEF Preceding
    <3>2. <<q[k], q[i]>> \in precedes /\ q[i] \in S /\ q[k] \in S
      BY <3>1 DEF Preceding
    <3>3. ~ (k = i) /\ ~ (i < k)
      BY <3>2 DEF StrictOrder
    <3>4. k \in 1..(i - 1)
      BY <3>3
    <3> QED
      BY <2>1, <3>1, <3>4
  <2>3. part \in [1..(i - 1) -> P]
    BY <2>1
  <2>4. \A a, b \in 1..(i - 1) : part[a] = part[b] => a = b
    BY <1>1, <2>1
  <2> HIDE DEF part, P
  <2>5. part \in Bijection(1..(i - 1), P)
    BY <2>2, <2>3, <2>4, Fun_IsBij
  <2>6. ExistsBijection(1..(i - 1), P)
    BY <2>5 DEF ExistsBijection
  <2>7. IsFiniteSet(1..(i - 1)) /\ Cardinality(1..(i - 1)) = i - 1
    BY FS_Interval
  <2>8. Cardinality(P) = Cardinality(1..(i - 1))
    BY <2>6, <2>7, FS_Bijection
  <2> QED
    BY <2>7, <2>8 DEF P
<1> DEFINE r == InOrder(S, precedes)
<1>5. /\ r \in [1..n -> S]
      /\ \A i \in 1..n : Cardinality(Preceding(S, precedes, r[i])) = i - 1
  BY <1>3, InOrderOrders
<1> HIDE DEF r
<1>6. ASSUME NEW i \in 1..n
      PROVE  q[i] = r[i]
  <2>1. q[i] \in S /\ r[i] \in S
    BY <1>5
  <2>2. Cardinality(Preceding(S, precedes, q[i])) = Cardinality(Preceding(S, precedes, r[i]))
    BY <1>4, <1>5
  <2>3. ~ (<<q[i], r[i]>> \in precedes) /\ ~ (<<r[i], q[i]>> \in precedes)
    <3>1. /\ Cardinality(Preceding(S, precedes, q[i])) \in Int
          /\ Cardinality(Preceding(S, precedes, r[i])) \in Int
      BY <1>4, <1>5
    <3>2. ASSUME <<q[i], r[i]>> \in precedes PROVE FALSE
      BY <2>1, <2>2, <3>1, <3>2, LaterHasMore
    <3>3. ASSUME <<r[i], q[i]>> \in precedes PROVE FALSE
      BY <2>1, <2>2, <3>1, <3>3, LaterHasMore
    <3> QED
      BY <3>2, <3>3
  <2> QED
    BY <2>1, <2>3 DEF StrictOrder
<1>7. q = r
  BY <1>5, <1>6
<1> QED
  BY <1>3, <1>7 DEF r

-----------------------------------------------------------------------------
(* The groups. *)

Group == [id : PluginIds, name : Names, channels : Seq(Channels)]

LEMMA KeyTyped ==
  ASSUME NEW group \in Names \cup {None}
  PROVE  Key(group) \in PluginIds
  BY NamesAssumption DEF Key, PluginIds

\* Key loses nothing.
LEMMA KeyIsExact ==
  ASSUME NEW a \in Names \cup {None}, NEW b \in Names \cup {None}
  PROVE  Key(a) = Key(b) <=> a = b
<1>1. CASE a = b
  BY <1>1
<1>2. CASE a # b /\ a # None /\ b # None
  BY <1>2 DEF Key
<1>3. CASE a # b /\ (a = None \/ b = None)
  BY <1>3, NamesAssumption DEF Key
<1> QED
  BY <1>1, <1>2, <1>3

PlaceOf(groups, key) == SelectInSeq(groups, LAMBDA g : g.id = key)

LEMMA PlaceFound ==
  ASSUME NEW groups \in Seq(Group), NEW key
  PROVE  \/ /\ PlaceOf(groups, key) = 0
            /\ \A i \in DOMAIN groups : groups[i].id # key
         \/ /\ PlaceOf(groups, key) \in DOMAIN groups
            /\ groups[PlaceOf(groups, key)].id = key
<1> DEFINE I == {i \in 1..Len(groups) : groups[i].id = key}
<1>1. PlaceOf(groups, key) = IF I # {} THEN Min(I) ELSE 0
  BY DEF PlaceOf, SelectInSeq
<1>2. DOMAIN groups = 1..Len(groups) /\ Len(groups) \in Nat
  OBVIOUS
<1>3. CASE I = {}
  BY <1>1, <1>2, <1>3
<1>4. CASE I # {}
  <2>1. I \in SUBSET Nat
    BY <1>2
  <2> HIDE DEF I
  <2>2. \E n \in I : \A m \in I : n =< m
    BY <1>4, <2>1, LeastNumber
  <2>3. Min(I) \in I
    BY <2>2 DEF Min
  <2>4. PlaceOf(groups, key) \in I
    BY <1>1, <1>4, <2>3
  <2> QED
    BY <1>2, <2>4 DEF I
<1> QED
  BY <1>3, <1>4

Grouped(groups, channel) == \E i \in DOMAIN groups : channel \in ToSet(groups[i].channels)

\* The three things a channel can do to the groups.
LEMMA AddCases ==
  ASSUME NEW groups \in Seq(Group), NEW entry \in IndexedChannel
  PROVE  LET added == AddChannel(groups, entry)
             key == Key(entry.group)
         IN  \/ Grouped(groups, entry.channel) /\ added = groups
             \/ /\ ~ Grouped(groups, entry.channel)
                /\ \A i \in DOMAIN groups : groups[i].id # key
                /\ added = Append(groups, [id |-> key, name |-> key.name,
                                           channels |-> <<entry.channel>>])
             \/ /\ ~ Grouped(groups, entry.channel)
                /\ \E p \in DOMAIN groups :
                      /\ groups[p].id = key
                      /\ added = [groups EXCEPT ![p].channels = Append(@, entry.channel)]
<1> DEFINE key == Key(entry.group)
           place == PlaceOf(groups, key)
<1>1. AddChannel(groups, entry) =
        IF Grouped(groups, entry.channel)
        THEN groups
        ELSE IF place = 0
        THEN Append(groups, [id |-> key, name |-> key.name, channels |-> <<entry.channel>>])
        ELSE [groups EXCEPT ![place].channels = Append(@, entry.channel)]
  BY DEF AddChannel, PlaceOf, Grouped
<1> HIDE DEF place
<1>2. \/ place = 0 /\ \A i \in DOMAIN groups : groups[i].id # key
      \/ place \in DOMAIN groups /\ groups[place].id = key
  BY PlaceFound DEF place
<1>3. 0 \notin DOMAIN groups
  OBVIOUS
<1> QED
  BY <1>1, <1>2, <1>3

LEMMA ExceptNested ==
  ASSUME NEW groups, NEW p, NEW channel
  PROVE  [groups EXCEPT ![p].channels = Append(@, channel)]
           = [groups EXCEPT ![p] = [groups[p] EXCEPT !.channels = Append(@, channel)]]
  OBVIOUS

LEMMA AddTyped ==
  ASSUME NEW groups \in Seq(Group), NEW entry \in IndexedChannel
  PROVE  AddChannel(groups, entry) \in Seq(Group)
<1> DEFINE key == Key(entry.group)
           new == [id |-> key, name |-> key.name, channels |-> <<entry.channel>>]
<1>1. entry.channel \in Channels /\ key \in PluginIds /\ key.name \in Names
  BY KeyTyped DEF IndexedChannel, PluginIds
<1>2. new \in Group
  BY <1>1 DEF Group
<1>3. Append(groups, new) \in Seq(Group)
  BY <1>2
<1>4. ASSUME NEW p \in DOMAIN groups
      PROVE  [groups EXCEPT ![p].channels = Append(@, entry.channel)] \in Seq(Group)
  <2>1. groups[p] \in Group
    OBVIOUS
  <2> DEFINE larger == [groups[p] EXCEPT !.channels = Append(@, entry.channel)]
  <2>2. larger \in Group
    <3>1. Append(groups[p].channels, entry.channel) \in Seq(Channels)
      BY <1>1, <2>1 DEF Group
    <3>2. larger = [groups[p] EXCEPT !.channels = Append(groups[p].channels, entry.channel)]
      OBVIOUS
    <3> HIDE DEF larger
    <3> QED
      BY <2>1, <3>1, <3>2 DEF Group
  <2>3. [groups EXCEPT ![p].channels = Append(@, entry.channel)]
          = [groups EXCEPT ![p] = larger]
    BY ExceptNested
  <2> HIDE DEF larger
  <2>4. [groups EXCEPT ![p] = larger] \in Seq(Group)
    BY <2>2, ExceptSeq
  <2> QED
    BY <2>3, <2>4
<1> HIDE DEF key
<1>5. \/ AddChannel(groups, entry) = groups
      \/ AddChannel(groups, entry) = Append(groups, new)
      \/ \E p \in DOMAIN groups :
            AddChannel(groups, entry) = [groups EXCEPT ![p].channels = Append(@, entry.channel)]
  BY AddCases DEF key
<1> QED
  BY <1>3, <1>4, <1>5

-----------------------------------------------------------------------------
(* Groups is a recursion over a sequence: it exists, and it unfolds. *)

Steps(channels, n, f) ==
    /\ f[0] = <<>>
    /\ \A k \in 1..n : f[k] = AddChannel(f[k - 1], channels[k])

LEMMA GroupsSteps ==
  ASSUME NEW channels \in Seq(IndexedChannel)
  PROVE  \E f : /\ Steps(channels, Len(channels), f)
                /\ Groups(channels) = f[Len(channels)]
<1> DEFINE n == Len(channels)
           Is(f) == f = [k \in 0..n |->
                            IF k = 0 THEN <<>> ELSE AddChannel(f[k - 1], channels[k])]
           after == CHOOSE f : Is(f)
<1>1. n \in Nat /\ n \in 0..n
  OBVIOUS
<1>2. \E g \in [0..n -> Seq(Group)] : Steps(channels, n, g)
  <2> DEFINE step == [k \in 1..n |-> [groups \in Seq(Group) |-> AddChannel(groups, channels[k])]]
  <2>1. step \in [1..n -> [Seq(Group) -> Seq(Group)]]
    <3> SUFFICES ASSUME NEW k \in 1..n, NEW groups \in Seq(Group)
                 PROVE  AddChannel(groups, channels[k]) \in Seq(Group)
      OBVIOUS
    <3>1. channels[k] \in IndexedChannel
      OBVIOUS
    <3> QED
      BY <3>1, AddTyped
  <2>2. <<>> \in Seq(Group)
    OBVIOUS
  <2>3. \A k \in 1..n, groups \in Seq(Group) : step[k][groups] = AddChannel(groups, channels[k])
    OBVIOUS
  <2> HIDE DEF step
  <2>4. Solvable(Seq(Group), <<>>, n, step)
    BY <1>1, <2>1, <2>2, Recursion
  <2>5. PICK g \in [0..n -> Seq(Group)] : g[0] = <<>> /\ \A k \in 1..n : g[k] = step[k][g[k - 1]]
    BY <2>4 DEF Solvable
  <2>6. \A k \in 1..n : g[k - 1] \in Seq(Group)
    BY <1>1
  <2>7. \A k \in 1..n : g[k] = AddChannel(g[k - 1], channels[k])
    BY <2>3, <2>5, <2>6
  <2> QED
    BY <2>5, <2>7 DEF Steps
<1>3. PICK g \in [0..n -> Seq(Group)] : Steps(channels, n, g)
  BY <1>2
<1>4. Is(g)
  <2>1. \A k \in 0..n : g[k] = IF k = 0 THEN <<>> ELSE AddChannel(g[k - 1], channels[k])
    BY <1>1, <1>3 DEF Steps
  <2> QED
    BY <2>1
<1>5. Groups(channels) = after[n]
  BY DEF Groups
<1>6. Is(after)
  BY <1>4
<1> HIDE DEF after
<1>7. Steps(channels, n, after)
  BY <1>1, <1>6 DEF Steps
<1> QED
  BY <1>5, <1>7

LEMMA GroupsEmpty == Groups(<<>>) = <<>>
<1>1. <<>> \in Seq(IndexedChannel) /\ Len(<<>>) = 0
  OBVIOUS
<1> QED
  BY <1>1, GroupsSteps DEF Steps

LEMMA GroupsAppend ==
  ASSUME NEW channels \in Seq(IndexedChannel), NEW entry \in IndexedChannel
  PROVE  Groups(Append(channels, entry)) = AddChannel(Groups(channels), entry)
<1> DEFINE longer == Append(channels, entry)
           n == Len(channels)
<1>1. /\ longer \in Seq(IndexedChannel)
      /\ Len(longer) = n + 1 /\ n \in Nat
      /\ \A k \in 1..n : longer[k] = channels[k]
      /\ longer[n + 1] = entry
  OBVIOUS
<1> HIDE DEF longer
<1>2. PICK f : Steps(longer, n + 1, f) /\ Groups(longer) = f[n + 1]
  BY <1>1, GroupsSteps
<1>3. PICK g : Steps(channels, n, g) /\ Groups(channels) = g[n]
  BY GroupsSteps
<1> DEFINE T == {k \in Nat : k =< n => f[k] = g[k]}
<1>4. 0 \in T
  BY <1>2, <1>3 DEF Steps
<1>5. ASSUME NEW k \in T
      PROVE  k + 1 \in T
  <2> SUFFICES ASSUME k + 1 =< n
               PROVE  f[k + 1] = g[k + 1]
    OBVIOUS
  <2>1. k \in Nat /\ k + 1 \in 1..n /\ k + 1 \in 1..(n + 1) /\ (k + 1) - 1 = k
    BY <1>1
  <2>2. f[k] = g[k]
    BY <1>1, <2>1
  <2>3. f[k + 1] = AddChannel(f[k], longer[k + 1])
    BY <1>2, <2>1 DEF Steps
  <2>4. g[k + 1] = AddChannel(g[k], channels[k + 1])
    BY <1>3, <2>1 DEF Steps
  <2> QED
    BY <1>1, <2>1, <2>2, <2>3, <2>4
<1>6. T = Nat
  <2>1. T \in SUBSET Nat
    OBVIOUS
  <2> HIDE DEF T
  <2> QED
    BY <1>4, <1>5, <2>1, Induction
<1>7. f[n] = g[n]
  BY <1>1, <1>6
<1>8. f[n + 1] = AddChannel(f[(n + 1) - 1], longer[n + 1])
  BY <1>1, <1>2 DEF Steps
<1>9. (n + 1) - 1 = n
  BY <1>1
<1> QED
  BY <1>1, <1>2, <1>3, <1>7, <1>8, <1>9 DEF longer

-----------------------------------------------------------------------------
(* What the groups of a sequence of channels are. *)

\* The channels whose group-title has a key, and the order they were read in.
Own(channels, n, key) == {i \in 1..n : Key(channels[i].group) = key}
ChannelsAt(channels, own) == [k \in 1..Cardinality(own) |-> channels[Ascending(own)[k]].channel]

Distinct(channels) ==
    \A i, j \in DOMAIN channels : channels[i].channel = channels[j].channel => i = j

GroupsOf(channels, n, groups) ==
    /\ groups \in Seq(Group)
    /\ \A p \in DOMAIN groups :
          /\ groups[p].name = groups[p].id.name
          /\ Own(channels, n, groups[p].id) # {}
          /\ groups[p].channels = ChannelsAt(channels, Own(channels, n, groups[p].id))
    /\ \A p, r \in DOMAIN groups : groups[p].id = groups[r].id => p = r
    /\ \A i \in 1..n : \E p \in DOMAIN groups : groups[p].id = Key(channels[i].group)

\* Numbers have an order.
LEMMA NumbersOrdered ==
  ASSUME NEW S \in SUBSET Int
  PROVE  StrictOrder(S, {pair \in S \X S : pair[1] < pair[2]})
<1> DEFINE R == {pair \in S \X S : pair[1] < pair[2]}
<1>1. \A x, y \in S : <<x, y>> \in R <=> x < y
  OBVIOUS
<1>2. \A x, y, z \in S : /\ ~ (x < x)
                         /\ x # y => x < y \/ y < x
                         /\ x < y /\ y < z => x < z
  OBVIOUS
<1> HIDE DEF R
<1>3. StrictOrder(S, R)
  BY <1>1, <1>2 DEF StrictOrder
<1> QED
  BY <1>3 DEF R

LEMMA AscendingOrders ==
  ASSUME NEW S \in SUBSET Int, IsFiniteSet(S)
  PROVE  LET q == Ascending(S)
             n == Cardinality(S)
         IN  /\ n \in Nat
             /\ q \in [1..n -> S]
             /\ \A x \in S : \E i \in 1..n : q[i] = x
             /\ \A i, j \in 1..n : i < j => q[i] < q[j]
             /\ \A i, j \in 1..n : q[i] = q[j] => i = j
<1> DEFINE R == {pair \in S \X S : pair[1] < pair[2]}
           q == InOrder(S, R)
           n == Cardinality(S)
<1>1. StrictOrder(S, R)
  BY NumbersOrdered
<1>2. \A x, y : <<x, y>> \in R => x < y
  OBVIOUS
<1> HIDE DEF R
<1>3. /\ n \in Nat
      /\ q \in [1..n -> S]
      /\ \A x \in S : \E i \in 1..n : q[i] = x
      /\ \A i, j \in 1..n : i < j => <<q[i], q[j]>> \in R
      /\ \A i, j \in 1..n : q[i] = q[j] => i = j
  BY <1>1, InOrderOrders
<1>4. \A i, j \in 1..n : i < j => q[i] < q[j]
  BY <1>2, <1>3
<1>5. Ascending(S) = q
  BY DEF Ascending, R
<1> HIDE DEF q, n
<1> QED
  BY <1>3, <1>4, <1>5 DEF n

LEMMA AscendingIsUnique ==
  ASSUME NEW S \in SUBSET Int, IsFiniteSet(S), NEW n \in Nat, NEW q \in [1..n -> S],
         \A x \in S : \E i \in 1..n : q[i] = x,
         \A i, j \in 1..n : i < j => q[i] < q[j]
  PROVE  q = Ascending(S) /\ n = Cardinality(S)
<1> DEFINE R == {pair \in S \X S : pair[1] < pair[2]}
<1>1. StrictOrder(S, R)
  BY NumbersOrdered
<1>2. \A x, y \in S : x < y => <<x, y>> \in R
  OBVIOUS
<1>3. Ascending(S) = InOrder(S, R)
  BY DEF Ascending
<1> HIDE DEF R
<1>4. \A i, j \in 1..n : i < j => <<q[i], q[j]>> \in R
  BY <1>2
<1>5. n \in Nat /\ q \in [1..n -> S] /\ \A x \in S : \E i \in 1..n : q[i] = x
  OBVIOUS
<1>6. q = InOrder(S, R) /\ n = Cardinality(S)
  BY <1>1, <1>4, <1>5, OrderIsUnique, ZenonT(60)
<1> QED
  BY <1>3, <1>6

\* A number past all others comes last.
LEMMA AscendingAppend ==
  ASSUME NEW n \in Nat, NEW S \in SUBSET (1..n)
  PROVE  LET T == S \cup {n + 1}
             c == Cardinality(S)
         IN  /\ c \in Nat
             /\ Cardinality(T) = c + 1
             /\ \A k \in 1..c : Ascending(T)[k] = Ascending(S)[k]
             /\ Ascending(T)[c + 1] = n + 1
<1> DEFINE T == S \cup {n + 1}
           c == Cardinality(S)
           q == Ascending(S)
           longer == [k \in 1..(c + 1) |-> IF k = c + 1 THEN n + 1 ELSE q[k]]
<1>1. IsFiniteSet(1..n) /\ IsFiniteSet(1..(n + 1))
  BY FS_Interval
<1>2. S \subseteq 1..n /\ T \subseteq 1..(n + 1) /\ S \in SUBSET Int /\ T \in SUBSET Int
  OBVIOUS
<1>3. IsFiniteSet(S) /\ IsFiniteSet(T)
  <2> HIDE DEF T
  <2> QED
    BY <1>1, <1>2, FS_Subset, Zenon
<1>4. /\ c \in Nat
      /\ q \in [1..c -> S]
      /\ \A x \in S : \E i \in 1..c : q[i] = x
      /\ \A i, j \in 1..c : i < j => q[i] < q[j]
  BY <1>2, <1>3, AscendingOrders
<1> HIDE DEF q, c
<1>5. /\ \A k \in 1..c : longer[k] = q[k]
      /\ longer[c + 1] = n + 1
      /\ longer \in [1..(c + 1) -> T]
  BY <1>4
<1> HIDE DEF longer
<1>6. \A x \in T : \E i \in 1..(c + 1) : longer[i] = x
  <2> TAKE x \in T
  <2>1. CASE x = n + 1
    BY <1>4, <1>5, <2>1
  <2>2. CASE x \in S
    <3>1. PICK i \in 1..c : q[i] = x
      BY <1>4, <2>2
    <3> QED
      BY <1>4, <1>5, <3>1
  <2> QED
    BY <2>1, <2>2
<1>7. \A i, j \in 1..(c + 1) : i < j => longer[i] < longer[j]
  <2> SUFFICES ASSUME NEW i \in 1..(c + 1), NEW j \in 1..(c + 1), i < j
               PROVE  longer[i] < longer[j]
    OBVIOUS
  <2>1. i \in 1..c
    BY <1>4
  <2>2. q[i] \in 1..n /\ q[i] \in S
    BY <1>2, <1>4, <2>1
  <2>3. CASE j = c + 1
    BY <1>5, <2>1, <2>2, <2>3
  <2>4. CASE j \in 1..c
    BY <1>4, <1>5, <2>1, <2>2, <2>4
  <2> QED
    BY <1>4, <2>3, <2>4
<1>8. longer = Ascending(T) /\ c + 1 = Cardinality(T)
  <2> HIDE DEF T
  <2>1. c + 1 \in Nat
    BY <1>4
  <2> QED
    BY <1>2, <1>3, <1>5, <1>6, <1>7, <2>1, AscendingIsUnique
<1> QED
  BY <1>4, <1>5, <1>8 DEF c, q

\* Positions of a sequence of channels.
LEMMA OwnFinite ==
  ASSUME NEW channels, NEW n \in Nat, NEW key
  PROVE  /\ Own(channels, n, key) \in SUBSET (1..n)
         /\ Own(channels, n, key) \in SUBSET Int
         /\ IsFiniteSet(Own(channels, n, key))
<1>1. Own(channels, n, key) \subseteq 1..n
  BY DEF Own
<1>2. IsFiniteSet(1..n)
  BY FS_Interval
<1>3. IsFiniteSet(Own(channels, n, key))
  BY <1>1, <1>2, FS_Subset, Zenon
<1> QED
  BY <1>1, <1>3

\* A listing has the channels of its positions, each once.
LEMMA ChannelsAtHas ==
  ASSUME NEW channels, NEW S \in SUBSET Int, IsFiniteSet(S)
  PROVE  LET l == ChannelsAt(channels, S)
             c == Cardinality(S)
         IN  /\ c \in Nat
             /\ DOMAIN l = 1..c
             /\ l = [k \in 1..c |-> channels[Ascending(S)[k]].channel]
             /\ \A i \in S : \E k \in 1..c : l[k] = channels[i].channel
             /\ \A k \in 1..c : Ascending(S)[k] \in S /\ l[k] = channels[Ascending(S)[k]].channel
<1> DEFINE c == Cardinality(S)
           q == Ascending(S)
           l == ChannelsAt(channels, S)
<1>1. /\ c \in Nat
      /\ q \in [1..c -> S]
      /\ \A x \in S : \E i \in 1..c : q[i] = x
  BY AscendingOrders
<1>2. l = [k \in 1..c |-> channels[q[k]].channel]
  BY DEF ChannelsAt
<1> HIDE DEF q, l, c
<1>3. DOMAIN l = 1..c /\ \A k \in 1..c : q[k] \in S /\ l[k] = channels[q[k]].channel
  BY <1>1, <1>2
<1>4. \A i \in S : \E k \in 1..c : l[k] = channels[i].channel
  BY <1>1, <1>3
<1> QED
  BY <1>1, <1>2, <1>3, <1>4 DEF q, l, c

\* A sequence is as long as its positions.
LEMMA LenIs ==
  ASSUME NEW T, NEW s \in Seq(T), NEW c \in Nat, DOMAIN s = 1..c
  PROVE  Len(s) = c
<1> DEFINE n == Len(s)
<1>1. n \in Nat /\ DOMAIN s = 1..n
  OBVIOUS
<1> HIDE DEF n
<1>2. 1..c = 1..n
  BY <1>1, Zenon
<1>3. \A k \in Int : k \in 1..c <=> k \in 1..n
  BY <1>2, Zenon
<1>4. ~ (c < n)
  <2>1. ASSUME c < n PROVE c + 1 \in 1..n /\ c + 1 \notin 1..c
    BY <1>1, <2>1
  <2> QED
    BY <1>3, <2>1
<1>5. ~ (n < c)
  <2>1. ASSUME n < c PROVE n + 1 \in 1..c /\ n + 1 \notin 1..n
    BY <1>1, <2>1
  <2> QED
    BY <1>1, <1>3, <2>1
<1>6. n = c
  BY <1>1, <1>4, <1>5
<1> QED
  BY <1>6 DEF n

LEMMA ChannelsAtAppend ==
  ASSUME NEW n \in Nat, NEW S \in SUBSET (1..n), NEW channels,
         ChannelsAt(channels, S) \in Seq(Channels), channels[n + 1].channel \in Channels
  PROVE  ChannelsAt(channels, S \cup {n + 1})
           = Append(ChannelsAt(channels, S), channels[n + 1].channel)
<1> DEFINE T == S \cup {n + 1}
           c == Cardinality(S)
           d == Cardinality(T)
           before == ChannelsAt(channels, S)
           after == ChannelsAt(channels, T)
           p == Ascending(S)
           q == Ascending(T)
<1>1. /\ c \in Nat
      /\ d = c + 1
      /\ \A k \in 1..c : q[k] = p[k]
      /\ q[c + 1] = n + 1
  BY AscendingAppend
<1>2. /\ before = [k \in 1..c |-> channels[p[k]].channel]
      /\ after = [k \in 1..d |-> channels[q[k]].channel]
  BY DEF ChannelsAt
<1>3. before \in Seq(Channels)
  OBVIOUS
<1> HIDE DEF c, d, before, after, p, q, T
<1>4. Len(before) = c
  <2>1. DOMAIN before = 1..c
    BY <1>2, Zenon
  <2> QED
    BY <1>1, <1>3, <2>1, LenIs
<1>5. after = [k \in 1..(c + 1) |-> IF k = c + 1 THEN channels[n + 1].channel ELSE before[k]]
  BY <1>1, <1>2
<1>6. Append(before, channels[n + 1].channel)
        = [k \in 1..(c + 1) |-> IF k = c + 1 THEN channels[n + 1].channel ELSE before[k]]
  BY <1>1, <1>3, <1>4
<1> QED
  BY <1>5, <1>6 DEF before, after, T

LEMMA ChannelsAtOne ==
  ASSUME NEW n \in Nat, NEW channels
  PROVE  ChannelsAt(channels, {n}) = <<channels[n].channel>>
<1> DEFINE q == [k \in 1..1 |-> n]
<1>1. Cardinality({n}) = 1 /\ IsFiniteSet({n})
  BY FS_Singleton
<1>2. q = Ascending({n})
  <2>1. q \in [1..1 -> {n}] /\ 1 \in Nat /\ {n} \in SUBSET Int
    OBVIOUS
  <2>2. \A x \in {n} : \E i \in 1..1 : q[i] = x
    BY <2>1
  <2>3. \A i, j \in 1..1 : i < j => q[i] < q[j]
    OBVIOUS
  <2> HIDE DEF q
  <2> QED
    BY <1>1, <2>1, <2>2, <2>3, AscendingIsUnique
<1>3. Ascending({n})[1] = n
  BY <1>2
<1> QED
  BY <1>1, <1>3 DEF ChannelsAt

-----------------------------------------------------------------------------
\* A channel is new to the groups of those before it.
LEMMA NotYetGrouped ==
  ASSUME NEW channels \in Seq(IndexedChannel), Distinct(channels),
         NEW n \in Nat, n + 1 =< Len(channels),
         NEW groups, GroupsOf(channels, n, groups)
  PROVE  ~ Grouped(groups, channels[n + 1].channel)
<1> SUFFICES ASSUME Grouped(groups, channels[n + 1].channel) PROVE FALSE
  OBVIOUS
<1>1. PICK p \in DOMAIN groups : channels[n + 1].channel \in ToSet(groups[p].channels)
  BY DEF Grouped
<1> DEFINE own == Own(channels, n, groups[p].id)
           l == ChannelsAt(channels, own)
<1>2. groups[p].channels = l
  BY DEF GroupsOf
<1>3. own \in SUBSET (1..n) /\ own \in SUBSET Int /\ IsFiniteSet(own)
  BY OwnFinite
<1> HIDE DEF own
<1>4. /\ DOMAIN l = 1..Cardinality(own)
      /\ \A k \in 1..Cardinality(own) :
            Ascending(own)[k] \in own /\ l[k] = channels[Ascending(own)[k]].channel
  BY <1>3, ChannelsAtHas
<1> HIDE DEF l
<1>5. PICK k \in DOMAIN l : l[k] = channels[n + 1].channel
  BY <1>1, <1>2 DEF ToSet
<1>6. PICK i \in 1..n : channels[i].channel = channels[n + 1].channel
  BY <1>3, <1>4, <1>5
<1>7. i \in DOMAIN channels /\ n + 1 \in DOMAIN channels /\ i # n + 1
  OBVIOUS
<1> QED
  BY <1>6, <1>7 DEF Distinct

LEMMA GroupsOfStep ==
  ASSUME NEW channels \in Seq(IndexedChannel), Distinct(channels),
         NEW n \in Nat, n + 1 =< Len(channels),
         NEW groups, GroupsOf(channels, n, groups)
  PROVE  GroupsOf(channels, n + 1, AddChannel(groups, channels[n + 1]))
<1> DEFINE entry == channels[n + 1]
           key == Key(entry.group)
           added == AddChannel(groups, entry)
           Before_(id) == Own(channels, n, id)
           After_(id) == Own(channels, n + 1, id)
<1>1. /\ entry \in IndexedChannel /\ entry.channel \in Channels
      /\ entry.group \in Names \cup {None}
  <2>1. n + 1 \in 1..Len(channels)
    OBVIOUS
  <2>2. entry \in IndexedChannel
    BY <2>1
  <2> HIDE DEF entry
  <2> QED
    BY <2>2 DEF IndexedChannel
<1>2. key \in PluginIds
  BY <1>1, KeyTyped
<1>3. groups \in Seq(Group)
  BY DEF GroupsOf
<1>4. \A id : After_(id) = IF id = key THEN Before_(id) \cup {n + 1} ELSE Before_(id)
  <2> TAKE id
  <2>1. 1..(n + 1) = 1..n \cup {n + 1} /\ n + 1 \notin 1..n
    OBVIOUS
  <2>2. CASE id = key
    BY <2>1, <2>2 DEF Own
  <2>3. CASE id # key
    BY <2>1, <2>3 DEF Own
  <2> QED
    BY <2>2, <2>3
<1>5. ~ Grouped(groups, entry.channel)
  BY NotYetGrouped
<1>6. added \in Seq(Group)
  BY <1>1, <1>3, AddTyped
<1>7. \/ /\ \A i \in DOMAIN groups : groups[i].id # key
         /\ added = Append(groups, [id |-> key, name |-> key.name,
                                    channels |-> <<entry.channel>>])
      \/ \E p \in DOMAIN groups :
            /\ groups[p].id = key
            /\ added = [groups EXCEPT ![p].channels = Append(@, entry.channel)]
  BY <1>1, <1>3, <1>5, AddCases
<1>8. /\ \A p \in DOMAIN groups :
            /\ groups[p].name = groups[p].id.name
            /\ Before_(groups[p].id) # {}
            /\ groups[p].channels = ChannelsAt(channels, Before_(groups[p].id))
            /\ groups[p] \in Group
      /\ \A p, r \in DOMAIN groups : groups[p].id = groups[r].id => p = r
      /\ \A i \in 1..n : \E p \in DOMAIN groups : groups[p].id = Key(channels[i].group)
  BY <1>3 DEF GroupsOf
<1>9. \A id : /\ Before_(id) \in SUBSET (1..n)
  BY OwnFinite
<1> DEFINE new == [id |-> key, name |-> key.name, channels |-> <<entry.channel>>]
<1>10. CASE /\ \A i \in DOMAIN groups : groups[i].id # key
            /\ added = Append(groups, new)
  <2>1. Before_(key) = {}
    BY <1>8, <1>10 DEF Own
  <2>2. After_(key) = {n + 1}
    BY <1>4, <2>1
  <2>3. ChannelsAt(channels, After_(key)) = <<entry.channel>>
    BY <2>2, ChannelsAtOne
  <2>4. /\ new.id = key /\ new.name = key.name /\ new.channels = <<entry.channel>>
    OBVIOUS
  <2> DEFINE m == Len(groups)
  <2>5. /\ m \in Nat /\ DOMAIN groups = 1..m /\ DOMAIN added = 1..(m + 1)
        /\ \A p \in 1..m : added[p] = groups[p]
        /\ added[m + 1] = new
    <3> HIDE DEF new, added
    <3> QED
      BY <1>3, <1>10
  <2> HIDE DEF added, new, Before_, After_, key, entry, m
  <2>6. \A p \in DOMAIN added :
           /\ added[p].name = added[p].id.name
           /\ After_(added[p].id) # {}
           /\ added[p].channels = ChannelsAt(channels, After_(added[p].id))
    <3> TAKE p \in DOMAIN added
    <3>1. CASE p = m + 1
      <4>1. added[p] = new
        BY <2>5, <3>1
      <4> QED
        BY <4>1, <2>2, <2>3, <2>4
    <3>2. CASE p \in 1..m
      <4>1. added[p] = groups[p] /\ groups[p].id # key
        BY <2>5, <3>2, <1>10
      <4>2. After_(groups[p].id) = Before_(groups[p].id)
        BY <1>4, <4>1
      <4> QED
        BY <1>8, <2>5, <3>2, <4>1, <4>2
    <3> QED
      BY <2>5, <3>1, <3>2
  <2>7. \A p, r \in DOMAIN added : added[p].id = added[r].id => p = r
    <3> SUFFICES ASSUME NEW p \in DOMAIN added, NEW r \in DOMAIN added, added[p].id = added[r].id
                 PROVE  p = r
      OBVIOUS
    <3>1. CASE p \in 1..m /\ r \in 1..m
      BY <1>8, <2>5, <3>1
    <3>2. CASE p = m + 1 /\ r \in 1..m
      BY <1>10, <2>4, <2>5, <3>2
    <3>3. CASE p \in 1..m /\ r = m + 1
      BY <1>10, <2>4, <2>5, <3>3
    <3>4. CASE p = m + 1 /\ r = m + 1
      BY <3>4
    <3> QED
      BY <2>5, <3>1, <3>2, <3>3, <3>4
  <2>8. \A i \in 1..(n + 1) : \E p \in DOMAIN added : added[p].id = Key(channels[i].group)
    <3> TAKE i \in 1..(n + 1)
    <3>1. CASE i = n + 1
      <4>1. added[m + 1].id = Key(channels[i].group) /\ m + 1 \in DOMAIN added
        BY <2>4, <2>5, <3>1 DEF key, entry
      <4> QED
        BY <4>1
    <3>2. CASE i \in 1..n
      <4>1. PICK p \in 1..m : groups[p].id = Key(channels[i].group)
        BY <1>8, <2>5, <3>2
      <4>2. p \in DOMAIN added /\ added[p] = groups[p]
        BY <2>5
      <4> QED
        BY <4>1, <4>2
    <3> QED
      BY <3>1, <3>2
  <2> QED
    BY <1>6, <2>6, <2>7, <2>8 DEF GroupsOf, After_, added, entry
<1>11. CASE \E p \in DOMAIN groups :
               /\ groups[p].id = key
               /\ added = [groups EXCEPT ![p].channels = Append(@, entry.channel)]
  <2>1. PICK w \in DOMAIN groups :
               /\ groups[w].id = key
               /\ added = [groups EXCEPT ![w].channels = Append(@, entry.channel)]
    BY <1>11
  <2>2. /\ DOMAIN added = DOMAIN groups
        /\ \A p \in DOMAIN groups : p # w => added[p] = groups[p]
        /\ added[w] = [groups[w] EXCEPT !.channels = Append(@, entry.channel)]
    <3> HIDE DEF added, entry, key
    <3> QED
      BY <2>1
  <2>3. /\ added[w].id = groups[w].id /\ added[w].name = groups[w].name
        /\ added[w].channels = Append(groups[w].channels, entry.channel)
        /\ groups[w].channels \in Seq(Channels)
    <3>1. groups[w] \in Group
      BY <1>8
    <3> HIDE DEF added, entry, key
    <3> QED
      BY <2>2, <3>1 DEF Group
  <2>4. ChannelsAt(channels, After_(key)) = Append(ChannelsAt(channels, Before_(key)), entry.channel)
    <3>1. After_(key) = Before_(key) \cup {n + 1}
      BY <1>4
    <3>2. ChannelsAt(channels, Before_(key)) \in Seq(Channels)
      BY <1>8, <2>1, <2>3
    <3> DEFINE own == Before_(key)
    <3>3. own \in SUBSET (1..n)
      BY <1>9
    <3>4. channels[n + 1].channel \in Channels
      BY <1>1
    <3> HIDE DEF own
    <3>5. ChannelsAt(channels, own \cup {n + 1})
            = Append(ChannelsAt(channels, own), channels[n + 1].channel)
      BY <3>2, <3>3, <3>4, ChannelsAtAppend DEF own
    <3> QED
      BY <3>1, <3>5 DEF own
  <2> HIDE DEF added, Before_, After_, key, entry
  <2>5. \A p \in DOMAIN added : added[p].id = groups[p].id /\ added[p].name = groups[p].name
    BY <2>2, <2>3
  <2>6. \A p \in DOMAIN added :
           /\ added[p].name = added[p].id.name
           /\ After_(added[p].id) # {}
           /\ added[p].channels = ChannelsAt(channels, After_(added[p].id))
    <3> TAKE p \in DOMAIN added
    <3>1. added[p].name = added[p].id.name
      BY <1>8, <2>2, <2>5
    <3>2. Before_(groups[p].id) # {} /\ groups[p].channels = ChannelsAt(channels, Before_(groups[p].id))
      BY <1>8, <2>2
    <3>3. CASE p = w
      BY <1>4, <2>1, <2>3, <2>4, <3>1, <3>2, <3>3
    <3>4. CASE p # w
      <4>1. groups[p].id # key /\ added[p] = groups[p]
        BY <1>8, <2>1, <2>2, <3>4
      <4> QED
        BY <1>4, <3>1, <3>2, <4>1
    <3> QED
      BY <3>3, <3>4
  <2>7. \A p, r \in DOMAIN added : added[p].id = added[r].id => p = r
    BY <1>8, <2>2, <2>5
  <2>8. \A i \in 1..(n + 1) : \E p \in DOMAIN added : added[p].id = Key(channels[i].group)
    <3> TAKE i \in 1..(n + 1)
    <3>1. CASE i = n + 1
      BY <2>1, <2>2, <2>5, <3>1 DEF key, entry
    <3>2. CASE i \in 1..n
      BY <1>8, <2>2, <2>5, <3>2
    <3> QED
      BY <3>1, <3>2
  <2> QED
    BY <1>6, <2>6, <2>7, <2>8 DEF GroupsOf, After_, added, entry
<1> QED
  BY <1>7, <1>10, <1>11

LEMMA GroupsAt ==
  ASSUME NEW channels \in Seq(IndexedChannel), Distinct(channels),
         NEW f, Steps(channels, Len(channels), f)
  PROVE  \A k \in 0..Len(channels) : GroupsOf(channels, k, f[k])
<1> DEFINE n == Len(channels)
           T == {k \in Nat : k =< n => GroupsOf(channels, k, f[k])}
<1>1. 0 \in T
  <2>1. GroupsOf(channels, 0, <<>>)
    BY DEF GroupsOf
  <2> QED
    BY <2>1 DEF Steps
<1>2. ASSUME NEW k \in T
      PROVE  k + 1 \in T
  <2> SUFFICES ASSUME k + 1 =< n
               PROVE  GroupsOf(channels, k + 1, f[k + 1])
    OBVIOUS
  <2>1. k \in Nat /\ k + 1 \in 1..n /\ (k + 1) - 1 = k /\ GroupsOf(channels, k, f[k])
    OBVIOUS
  <2>2. f[k + 1] = AddChannel(f[(k + 1) - 1], channels[k + 1])
    BY <2>1 DEF Steps
  <2> HIDE DEF T
  <2>3. GroupsOf(channels, k + 1, AddChannel(f[k], channels[k + 1]))
    BY <2>1, GroupsOfStep
  <2> QED
    BY <2>1, <2>2, <2>3
<1>3. T = Nat
  <2>1. T \in SUBSET Nat
    OBVIOUS
  <2> HIDE DEF T
  <2> QED
    BY <1>1, <1>2, <2>1, Induction
<1> QED
  BY <1>3

LEMMA GroupsAre ==
  ASSUME NEW channels \in Seq(IndexedChannel), Distinct(channels)
  PROVE  GroupsOf(channels, Len(channels), Groups(channels))
<1>1. PICK f : Steps(channels, Len(channels), f) /\ Groups(channels) = f[Len(channels)]
  BY GroupsSteps
<1>2. Len(channels) \in 0..Len(channels)
  OBVIOUS
<1> QED
  BY <1>1, <1>2, GroupsAt

-----------------------------------------------------------------------------
(* The snapshot is its groups in the order of their names. *)

LEMMA NamesOrdered ==
  /\ \A a \in Names : ~ Before(a, a)
  /\ \A a, b \in Names : a # b => Before(a, b) \/ Before(b, a)
  /\ \A a, b \in Names : Before(a, b) => ~ Before(b, a)
  /\ \A a, b, c \in Names : Before(a, b) /\ Before(b, c) => Before(a, c)
<1>1. \A a \in Names : a \in Nat /\ IgnoreCase[a] \in Nat
  BY NamesAssumption
<1> QED
  BY <1>1 DEF Before

LEMMA GroupsOrdered ==
  ASSUME NEW groups \in Seq(Group)
  PROVE  StrictOrder(DOMAIN groups, SortedFirst(groups))
<1> DEFINE D == DOMAIN groups
           First(p, r) == \/ Before(groups[p].name, groups[r].name)
                          \/ /\ ~ Before(groups[r].name, groups[p].name)
                             /\ p < r
<1>1. \A p, r \in D : <<p, r>> \in SortedFirst(groups) <=> First(p, r)
  BY DEF SortedFirst
<1>2. \A p \in D : p \in Nat /\ groups[p].name \in Names
  <2>1. \A p \in D : p \in Nat /\ groups[p] \in Group
    OBVIOUS
  <2> QED
    BY <2>1 DEF Group
<1> HIDE DEF D
<1>3. \A p \in D : ~ First(p, p)
  BY <1>2, NamesOrdered
<1>4. \A p, r \in D : p # r => First(p, r) \/ First(r, p)
  <2> SUFFICES ASSUME NEW p \in D, NEW r \in D, p # r
               PROVE  First(p, r) \/ First(r, p)
    OBVIOUS
  <2>1. p < r \/ r < p
    BY <1>2
  <2> QED
    BY <2>1
<1>5. \A p, r, t \in D : First(p, r) /\ First(r, t) => First(p, t)
  <2> SUFFICES ASSUME NEW p \in D, NEW r \in D, NEW t \in D, First(p, r), First(r, t)
               PROVE  First(p, t)
    OBVIOUS
  <2> DEFINE a == groups[p].name
             b == groups[r].name
             c == groups[t].name
  <2>1. a \in Names /\ b \in Names /\ c \in Names
    BY <1>2
  <2>2. /\ Before(a, b) \/ (~ Before(b, a) /\ p < r)
        /\ Before(b, c) \/ (~ Before(c, b) /\ r < t)
    OBVIOUS
  <2>3. p < r /\ r < t => p < t
    BY <1>2
  <2> HIDE DEF a, b, c
  <2>4. Before(a, c) \/ (~ Before(c, a) /\ p < t)
    <3>1. CASE a = b
      BY <2>1, <2>2, <2>3, <3>1, NamesOrdered
    <3>2. CASE b = c
      BY <2>1, <2>2, <2>3, <3>2, NamesOrdered
    <3>3. CASE a # b /\ b # c
      <4>1. Before(a, b) /\ Before(b, c)
        BY <2>1, <2>2, <3>3, NamesOrdered
      <4> QED
        BY <2>1, <4>1, NamesOrdered
    <3> QED
      BY <3>1, <3>2, <3>3
  <2> QED
    BY <2>4 DEF a, c
<1> HIDE DEF First
<1>6. StrictOrder(D, SortedFirst(groups))
  BY <1>1, <1>3, <1>4, <1>5 DEF StrictOrder
<1> QED
  BY <1>6 DEF D

SortedByName(snapshot) ==
    \A i, j \in DOMAIN snapshot : i < j => ~ Before(snapshot[j].name, snapshot[i].name)

LEMMA SnapshotIs ==
  ASSUME NEW channels \in Seq(IndexedChannel), Distinct(channels)
  PROVE  /\ GroupsOf(channels, Len(channels), Build(channels))
         /\ SortedByName(Build(channels))
<1> DEFINE groups == Groups(channels)
           n == Len(channels)
           m == Len(groups)
           first == SortedFirst(groups)
           order == InOrder(DOMAIN groups, first)
           snapshot == Build(channels)
<1>1. GroupsOf(channels, n, groups)
  BY GroupsAre
<1>2. groups \in Seq(Group)
  BY <1>1 DEF GroupsOf
<1>3. m \in Nat /\ DOMAIN groups = 1..m /\ IsFiniteSet(DOMAIN groups) /\ Cardinality(DOMAIN groups) = m
  <2>1. m \in Nat /\ DOMAIN groups = 1..m
    <3> HIDE DEF groups
    <3> QED
      BY <1>2
  <2>2. IsFiniteSet(1..m) /\ Cardinality(1..m) = m
    <3> HIDE DEF m
    <3> QED
      BY <2>1, FS_Interval
  <2> QED
    BY <2>1, <2>2
<1>4. StrictOrder(DOMAIN groups, first)
  <2> HIDE DEF groups
  <2> QED
    BY <1>2, GroupsOrdered
<1>5. /\ order \in [1..m -> 1..m]
      /\ \A p \in 1..m : \E i \in 1..m : order[i] = p
      /\ \A i, j \in 1..m : i < j => <<order[i], order[j]>> \in first
      /\ \A i, j \in 1..m : order[i] = order[j] => i = j
  <2> DEFINE D == DOMAIN groups
  <2>1. D = 1..m /\ IsFiniteSet(D) /\ Cardinality(D) = m /\ StrictOrder(D, first)
    BY <1>3, <1>4
  <2>2. order = InOrder(D, first)
    OBVIOUS
  <2> HIDE DEF groups, m, first, D, order
  <2>3. /\ order \in [1..Cardinality(D) -> D]
        /\ \A p \in D : \E i \in 1..Cardinality(D) : order[i] = p
        /\ \A i, j \in 1..Cardinality(D) : i < j => <<order[i], order[j]>> \in first
        /\ \A i, j \in 1..Cardinality(D) : order[i] = order[j] => i = j
    BY <2>1, <2>2, InOrderOrders
  <2> QED
    BY <2>1, <2>3
<1>6. snapshot = [i \in 1..m |-> groups[order[i]]]
  <2>1. snapshot = [i \in DOMAIN groups |-> groups[order[i]]]
    BY DEF Build
  <2> QED
    BY <1>3, <2>1, Zenon
<1> HIDE DEF groups, m, order, snapshot, n
<1>7. /\ snapshot \in Seq(Group) /\ DOMAIN snapshot = 1..m
      /\ \A i \in 1..m : snapshot[i] \in Group
  <2>1. \A i \in 1..m : groups[order[i]] \in Group
    BY <1>2, <1>3, <1>5
  <2>2. snapshot \in [1..m -> Group]
    BY <1>6, <2>1
  <2> QED
    BY <1>3, <2>2
<1>8. \A i \in 1..m : order[i] \in DOMAIN groups /\ snapshot[i] = groups[order[i]]
  BY <1>3, <1>5, <1>6
<1>9. GroupsOf(channels, n, snapshot)
  <2>1. \A i \in DOMAIN snapshot :
           /\ snapshot[i].name = snapshot[i].id.name
           /\ Own(channels, n, snapshot[i].id) # {}
           /\ snapshot[i].channels = ChannelsAt(channels, Own(channels, n, snapshot[i].id))
    <3> TAKE i \in DOMAIN snapshot
    <3>1. order[i] \in DOMAIN groups /\ snapshot[i] = groups[order[i]]
      BY <1>7, <1>8
    <3>2. /\ groups[order[i]].name = groups[order[i]].id.name
          /\ Own(channels, n, groups[order[i]].id) # {}
          /\ groups[order[i]].channels = ChannelsAt(channels, Own(channels, n, groups[order[i]].id))
      BY <1>1, <3>1 DEF GroupsOf
    <3> QED
      BY <3>1, <3>2
  <2>2. \A i, j \in DOMAIN snapshot : snapshot[i].id = snapshot[j].id => i = j
    <3> SUFFICES ASSUME NEW i \in 1..m, NEW j \in 1..m, snapshot[i].id = snapshot[j].id
                 PROVE  i = j
      BY <1>7
    <3>1. order[i] = order[j]
      BY <1>1, <1>8 DEF GroupsOf
    <3> QED
      BY <1>5, <3>1
  <2>3. \A k \in 1..n : \E i \in DOMAIN snapshot : snapshot[i].id = Key(channels[k].group)
    <3> TAKE k \in 1..n
    <3>1. PICK p \in 1..m : groups[p].id = Key(channels[k].group)
      BY <1>1, <1>3 DEF GroupsOf
    <3>2. PICK i \in 1..m : order[i] = p
      BY <1>5
    <3> QED
      BY <1>7, <1>8, <3>1, <3>2
  <2> QED
    BY <1>7, <2>1, <2>2, <2>3 DEF GroupsOf
<1>10. SortedByName(snapshot)
  <2> SUFFICES ASSUME NEW i \in 1..m, NEW j \in 1..m, i < j
               PROVE  ~ Before(snapshot[j].name, snapshot[i].name)
    BY <1>7 DEF SortedByName
  <2>1. <<order[i], order[j]>> \in first
    BY <1>5
  <2>2. \/ Before(groups[order[i]].name, groups[order[j]].name)
        \/ ~ Before(groups[order[j]].name, groups[order[i]].name)
    BY <2>1 DEF SortedFirst
  <2>3. snapshot[i].name \in Names /\ snapshot[j].name \in Names
    <3>1. snapshot[i] \in Group /\ snapshot[j] \in Group
      BY <1>7
    <3> QED
      BY <3>1 DEF Group
  <2> QED
    BY <1>8, <2>2, <2>3, NamesOrdered
<1> QED
  BY <1>9, <1>10 DEF n, snapshot

\* A channel is in the category of its group-title, and in no other.
LEMMA ChannelPlaced ==
  ASSUME NEW channels \in Seq(IndexedChannel), Distinct(channels),
         NEW snapshot, GroupsOf(channels, Len(channels), snapshot),
         NEW p \in DOMAIN snapshot, NEW i \in DOMAIN channels
  PROVE  channels[i].channel \in ToSet(snapshot[p].channels)
           <=> Key(channels[i].group) = snapshot[p].id
<1> DEFINE n == Len(channels)
           own == Own(channels, n, snapshot[p].id)
           l == ChannelsAt(channels, own)
<1>1. n \in Nat /\ DOMAIN channels = 1..n
  OBVIOUS
<1>2. snapshot[p].channels = l
  BY DEF GroupsOf
<1>3. own \in SUBSET (1..n) /\ own \in SUBSET Int /\ IsFiniteSet(own)
  BY <1>1, OwnFinite
<1>4. i \in own <=> Key(channels[i].group) = snapshot[p].id
  BY <1>1 DEF Own
<1> HIDE DEF own, n
<1>5. /\ DOMAIN l = 1..Cardinality(own)
      /\ \A k \in own : \E j \in 1..Cardinality(own) : l[j] = channels[k].channel
      /\ \A j \in 1..Cardinality(own) :
            Ascending(own)[j] \in own /\ l[j] = channels[Ascending(own)[j]].channel
  BY <1>3, ChannelsAtHas
<1> HIDE DEF l
<1>6. ASSUME i \in own PROVE channels[i].channel \in ToSet(l)
  BY <1>5, <1>6 DEF ToSet
<1>7. ASSUME channels[i].channel \in ToSet(l) PROVE i \in own
  <2>1. PICK j \in DOMAIN l : l[j] = channels[i].channel
    BY <1>7 DEF ToSet
  <2>2. PICK k \in own : channels[k].channel = channels[i].channel
    BY <1>5, <2>1
  <2>3. k \in DOMAIN channels
    BY <1>1, <1>3
  <2>4. k = i
    BY <2>2, <2>3 DEF Distinct
  <2> QED
    BY <2>4
<1> QED
  BY <1>2, <1>4, <1>6, <1>7

LEMMA IdsHold ==
  ASSUME indexed \in Seq(IndexedChannel), Distinct(indexed)
  PROVE  IdsAreExact
<1> DEFINE snapshot == Build(indexed)
           n == Len(indexed)
<1>1. GroupsOf(indexed, n, snapshot)
  BY SnapshotIs
<1>2. DOMAIN indexed = 1..n
  OBVIOUS
<1> HIDE DEF snapshot, n
<1> SUFFICES ASSUME NEW i \in DOMAIN indexed, NEW j \in DOMAIN indexed
             PROVE  (\E c \in ToSet(snapshot) :
                        {indexed[i].channel, indexed[j].channel} \subseteq ToSet(c.channels))
                    <=> indexed[i].group = indexed[j].group
  BY DEF IdsAreExact, snapshot
<1>3. indexed[i].group \in Names \cup {None} /\ indexed[j].group \in Names \cup {None}
  <2>1. indexed[i] \in IndexedChannel /\ indexed[j] \in IndexedChannel
    OBVIOUS
  <2> QED
    BY <2>1 DEF IndexedChannel
<1>4. \A p \in DOMAIN snapshot :
         /\ indexed[i].channel \in ToSet(snapshot[p].channels)
              <=> Key(indexed[i].group) = snapshot[p].id
         /\ indexed[j].channel \in ToSet(snapshot[p].channels)
              <=> Key(indexed[j].group) = snapshot[p].id
  BY <1>1, ChannelPlaced DEF n
<1>5. ASSUME NEW c \in ToSet(snapshot),
             {indexed[i].channel, indexed[j].channel} \subseteq ToSet(c.channels)
      PROVE  indexed[i].group = indexed[j].group
  <2>1. PICK p \in DOMAIN snapshot : snapshot[p] = c
    BY DEF ToSet
  <2>2. Key(indexed[i].group) = Key(indexed[j].group)
    BY <1>4, <1>5, <2>1
  <2> QED
    BY <1>3, <2>2, KeyIsExact
<1>6. ASSUME indexed[i].group = indexed[j].group
      PROVE  \E c \in ToSet(snapshot) :
                {indexed[i].channel, indexed[j].channel} \subseteq ToSet(c.channels)
  <2>1. PICK p \in DOMAIN snapshot : snapshot[p].id = Key(indexed[i].group)
    BY <1>1, <1>2 DEF GroupsOf
  <2>2. snapshot[p] \in ToSet(snapshot)
    BY DEF ToSet
  <2> QED
    BY <1>4, <1>6, <2>1, <2>2
<1> QED
  BY <1>5, <1>6

-----------------------------------------------------------------------------
(* The matched records are the deciding ones, in the order they were read. *)

Deciding(recs) ==
    {i \in DOMAIN recs :
        /\ ChannelOf(recs[i]) # None
        /\ \A j \in 1..(i - 1) : ChannelOf(recs[j]) # ChannelOf(recs[i])}

EntryOf(record) == [channel |-> ChannelOf(record), group |-> record.group]

EntriesOf(recs) ==
    [k \in 1..Cardinality(Deciding(recs)) |-> EntryOf(recs[Ascending(Deciding(recs))[k]])]

LEMMA EntryTyped ==
  ASSUME NEW record \in SourceRecord, ChannelOf(record) # None
  PROVE  EntryOf(record) \in IndexedChannel
<1>1. ChannelOf(record) \in Channels \cup {None}
  BY PersistedAssumption DEF SourceRecord, ChannelOf
<1> QED
  BY <1>1 DEF EntryOf, IndexedChannel, SourceRecord

LEMMA EntryFields ==
  ASSUME NEW record
  PROVE  EntryOf(record).channel = ChannelOf(record) /\ EntryOf(record).group = record.group
  BY DEF EntryOf

LEMMA DecidingFinite ==
  ASSUME NEW recs \in Seq(SourceRecord)
  PROVE  /\ Deciding(recs) \in SUBSET (1..Len(recs))
         /\ Deciding(recs) \in SUBSET Int
         /\ IsFiniteSet(Deciding(recs))
<1>1. DOMAIN recs = 1..Len(recs) /\ Len(recs) \in Nat
  OBVIOUS
<1>2. Deciding(recs) \subseteq 1..Len(recs)
  BY <1>1 DEF Deciding
<1>3. IsFiniteSet(1..Len(recs))
  BY <1>1, FS_Interval
<1>4. IsFiniteSet(Deciding(recs))
  BY <1>2, <1>3, FS_Subset, Zenon
<1> QED
  BY <1>1, <1>2, <1>4

\* Every channel that is found has a record that decides.
LEMMA DecidingFirst ==
  ASSUME NEW recs \in Seq(SourceRecord), NEW i \in DOMAIN recs, ChannelOf(recs[i]) # None
  PROVE  \E d \in Deciding(recs) : ChannelOf(recs[d]) = ChannelOf(recs[i])
<1> DEFINE T == {j \in 1..Len(recs) : ChannelOf(recs[j]) = ChannelOf(recs[i])}
<1>1. DOMAIN recs = 1..Len(recs) /\ Len(recs) \in Nat
  OBVIOUS
<1>2. T \in SUBSET Nat /\ T # {}
  BY <1>1
<1>3. \A j : j \in T <=> j \in 1..Len(recs) /\ ChannelOf(recs[j]) = ChannelOf(recs[i])
  OBVIOUS
<1> HIDE DEF T
<1>4. PICK d \in T : \A m \in T : d =< m
  BY <1>2, LeastNumber
<1>5. d \in DOMAIN recs /\ ChannelOf(recs[d]) = ChannelOf(recs[i])
  BY <1>1, <1>3
<1>6. ASSUME NEW j \in 1..(d - 1) PROVE ChannelOf(recs[j]) # ChannelOf(recs[d])
  <2>1. j \in 1..Len(recs) /\ ~ (d =< j)
    BY <1>1, <1>5
  <2> QED
    BY <1>3, <1>4, <1>5, <2>1
<1> QED
  BY <1>5, <1>6 DEF Deciding

LEMMA DecidingAppend ==
  ASSUME NEW recs \in Seq(SourceRecord), NEW record \in SourceRecord
  PROVE  Deciding(Append(recs, record)) =
           IF ChannelOf(record) # None /\ \A j \in 1..Len(recs) : ChannelOf(recs[j]) # ChannelOf(record)
           THEN Deciding(recs) \cup {Len(recs) + 1}
           ELSE Deciding(recs)
<1> DEFINE longer == Append(recs, record)
           n == Len(recs)
           Late == ChannelOf(record) # None /\ \A j \in 1..n : ChannelOf(recs[j]) # ChannelOf(record)
<1>1. /\ n \in Nat /\ DOMAIN recs = 1..n /\ DOMAIN longer = 1..(n + 1)
      /\ \A k \in 1..n : longer[k] = recs[k]
      /\ longer[n + 1] = record
  OBVIOUS
<1> HIDE DEF longer, n
<1>2. \A i \in 1..n : i \in Deciding(longer) <=> i \in Deciding(recs)
  <2> TAKE i \in 1..n
  <2>1. \A j \in 1..(i - 1) : j \in 1..n
    BY <1>1
  <2>2. i \in DOMAIN recs /\ i \in DOMAIN longer
    BY <1>1
  <2> QED
    BY <1>1, <2>1, <2>2 DEF Deciding
<1>3. n + 1 \in Deciding(longer) <=> Late
  <2>1. n + 1 \in DOMAIN longer /\ (n + 1) - 1 = n
    BY <1>1
  <2> QED
    BY <1>1, <2>1 DEF Deciding
<1>4. Deciding(recs) \subseteq 1..n /\ Deciding(longer) \subseteq 1..n \cup {n + 1} /\ n + 1 \notin 1..n
  BY <1>1 DEF Deciding
<1>5. CASE Late
  <2>1. Deciding(longer) = Deciding(recs) \cup {n + 1}
    BY <1>2, <1>3, <1>4, <1>5
  <2> QED
    BY <1>5, <2>1 DEF longer, n
<1>6. CASE ~ Late
  <2>1. Deciding(longer) = Deciding(recs)
    BY <1>2, <1>3, <1>4, <1>6
  <2> QED
    BY <1>6, <2>1 DEF longer, n
<1> QED
  BY <1>5, <1>6

LEMMA EntriesTyped ==
  ASSUME NEW recs \in Seq(SourceRecord)
  PROVE  LET d == Deciding(recs)
             c == Cardinality(d)
             a == Ascending(d)
             e == EntriesOf(recs)
         IN  /\ c \in Nat /\ e \in Seq(IndexedChannel) /\ Len(e) = c /\ DOMAIN e = 1..c
             /\ a \in [1..c -> d]
             /\ \A i \in d : \E k \in 1..c : a[k] = i
             /\ \A k, l \in 1..c : k < l => a[k] < a[l]
             /\ \A k \in 1..c : e[k].channel = ChannelOf(recs[a[k]]) /\ e[k].group = recs[a[k]].group
<1> DEFINE d == Deciding(recs)
           c == Cardinality(d)
           a == Ascending(d)
           e == EntriesOf(recs)
<1>1. d \in SUBSET (1..Len(recs)) /\ d \in SUBSET Int /\ IsFiniteSet(d)
  BY DecidingFinite
<1>2. \A i \in d : recs[i] \in SourceRecord /\ ChannelOf(recs[i]) # None
  BY DEF Deciding
<1>3. e = [k \in 1..c |-> EntryOf(recs[a[k]])]
  BY Zenon DEF EntriesOf
<1> HIDE DEF d, c, a, e
<1>4. /\ c \in Nat
      /\ a \in [1..c -> d]
      /\ \A i \in d : \E k \in 1..c : a[k] = i
      /\ \A k, l \in 1..c : k < l => a[k] < a[l]
  BY <1>1, AscendingOrders DEF c, a
<1>5. \A k \in 1..c : e[k] = EntryOf(recs[a[k]]) /\ EntryOf(recs[a[k]]) \in IndexedChannel
  BY <1>2, <1>3, <1>4, EntryTyped
<1>6. e \in [1..c -> IndexedChannel]
  BY <1>3, <1>5
<1>7. e \in Seq(IndexedChannel) /\ Len(e) = c /\ DOMAIN e = 1..c
  BY <1>4, <1>6
<1>8. \A k \in 1..c : e[k].channel = ChannelOf(recs[a[k]]) /\ e[k].group = recs[a[k]].group
  <2> TAKE k \in 1..c
  <2>1. e[k] = EntryOf(recs[a[k]])
    BY <1>5
  <2> QED
    BY <2>1, EntryFields
<1> QED
  BY <1>4, <1>7, <1>8 DEF d, c, a, e

LEMMA AppendIs ==
  ASSUME NEW T, NEW s \in Seq(T), NEW x \in T
  PROVE  Append(s, x) = [k \in 1..(Len(s) + 1) |-> IF k = Len(s) + 1 THEN x ELSE s[k]]
<1> DEFINE n == Len(s)
           t == Append(s, x)
<1>1. n \in Nat /\ t \in Seq(T) /\ Len(t) = n + 1 /\ t[n + 1] = x /\ \A k \in 1..n : t[k] = s[k]
  OBVIOUS
<1> HIDE DEF n, t
<1>2. t \in [1..(n + 1) -> T]
  BY <1>1
<1>3. \A k \in 1..(n + 1) : t[k] = IF k = n + 1 THEN x ELSE s[k]
  BY <1>1
<1>4. t = [k \in 1..(n + 1) |-> t[k]]
  BY <1>2
<1>5. t = [k \in 1..(n + 1) |-> IF k = n + 1 THEN x ELSE s[k]]
  BY <1>3, <1>4
<1> QED
  BY <1>5 DEF n, t

LEMMA EntriesAppend ==
  ASSUME NEW recs \in Seq(SourceRecord), NEW record \in SourceRecord
  PROVE  EntriesOf(Append(recs, record)) =
           IF ChannelOf(record) = None \/ ChannelOf(record) \in Matched(EntriesOf(recs))
           THEN EntriesOf(recs)
           ELSE Append(EntriesOf(recs), EntryOf(record))
<1> DEFINE longer == Append(recs, record)
           n == Len(recs)
           d == Deciding(recs)
           c == Cardinality(d)
           a == Ascending(d)
           e == EntriesOf(recs)
           Late == ChannelOf(record) # None /\ \A j \in 1..n : ChannelOf(recs[j]) # ChannelOf(record)
<1>1. /\ n \in Nat /\ DOMAIN recs = 1..n
      /\ \A k \in 1..n : longer[k] = recs[k]
      /\ longer[n + 1] = record
  OBVIOUS
<1>2. /\ c \in Nat /\ e \in Seq(IndexedChannel) /\ Len(e) = c /\ DOMAIN e = 1..c
      /\ a \in [1..c -> d]
      /\ \A i \in d : \E k \in 1..c : a[k] = i
      /\ \A k \in 1..c : e[k].channel = ChannelOf(recs[a[k]]) /\ e[k].group = recs[a[k]].group
  BY EntriesTyped
<1>3. d \in SUBSET (1..n) /\ \A i \in d : ChannelOf(recs[i]) # None
  BY DecidingFinite DEF Deciding
<1>4. Deciding(longer) = IF Late THEN d \cup {n + 1} ELSE d
  BY DecidingAppend
<1>5. \A i \in 1..n : ChannelOf(recs[i]) # None => \E x \in d : ChannelOf(recs[x]) = ChannelOf(recs[i])
  BY <1>1, DecidingFirst
<1>6. EntriesOf(longer) = [k \in 1..Cardinality(Deciding(longer)) |->
                             EntryOf(longer[Ascending(Deciding(longer))[k]])]
  BY Zenon DEF EntriesOf
<1>7. e = [k \in 1..c |-> EntryOf(recs[a[k]])]
  BY Zenon DEF EntriesOf
<1>8. d \in SUBSET (1..n) => /\ Cardinality(d \cup {n + 1}) = c + 1
                             /\ \A k \in 1..c : Ascending(d \cup {n + 1})[k] = a[k]
                             /\ Ascending(d \cup {n + 1})[c + 1] = n + 1
  <2> HIDE DEF d
  <2> QED
    BY <1>1, AscendingAppend
<1> HIDE DEF longer, n, d, c, a, e
<1>9. ChannelOf(record) \in Matched(e) <=> \E i \in d : ChannelOf(recs[i]) = ChannelOf(record)
  <2>1. ASSUME ChannelOf(record) \in Matched(e)
        PROVE  \E i \in d : ChannelOf(recs[i]) = ChannelOf(record)
    <3>1. PICK k \in 1..c : e[k].channel = ChannelOf(record)
      BY <1>2, <2>1 DEF Matched
    <3> QED
      BY <1>2, <3>1
  <2>2. ASSUME NEW i \in d, ChannelOf(recs[i]) = ChannelOf(record)
        PROVE  ChannelOf(record) \in Matched(e)
    <3>1. PICK k \in 1..c : a[k] = i
      BY <1>2
    <3>2. k \in DOMAIN e /\ e[k].channel = ChannelOf(record)
      BY <1>2, <2>2, <3>1
    <3> QED
      BY <3>2 DEF Matched
  <2> QED
    BY <2>1, <2>2
<1>10. (ChannelOf(record) = None \/ ChannelOf(record) \in Matched(e)) <=> ~ Late
  BY <1>3, <1>5, <1>9
<1>11. CASE ~ Late
  <2>1. Deciding(longer) = d
    BY <1>4, <1>11
  <2>2. EntriesOf(longer) = [k \in 1..c |-> EntryOf(longer[a[k]])]
    BY <1>6, <2>1 DEF c, a
  <2>3. \A k \in 1..c : longer[a[k]] = recs[a[k]]
    BY <1>1, <1>2, <1>3
  <2>4. EntriesOf(longer) = e
    BY <1>7, <2>2, <2>3
  <2> QED
    BY <1>10, <1>11, <2>4 DEF longer, e
<1>12. CASE Late
  <2> DEFINE t == d \cup {n + 1}
  <2>1. Deciding(longer) = t
    BY <1>4, <1>12
  <2>2. /\ Cardinality(t) = c + 1
        /\ \A k \in 1..c : Ascending(t)[k] = a[k]
        /\ Ascending(t)[c + 1] = n + 1
    BY <1>3, <1>8
  <2> HIDE DEF t
  <2>3. EntriesOf(longer) = [k \in 1..(c + 1) |-> EntryOf(longer[Ascending(t)[k]])]
    BY <1>6, <2>1, <2>2
  <2>4. \A k \in 1..c : longer[a[k]] = recs[a[k]] /\ e[k] = EntryOf(recs[a[k]])
    <3> TAKE k \in 1..c
    <3>1. a[k] \in 1..n
      BY <1>2, <1>3
    <3> QED
      BY <1>1, <1>7, <3>1
  <2>5. \A k \in 1..(c + 1) : EntryOf(longer[Ascending(t)[k]])
                                = IF k = c + 1 THEN EntryOf(record) ELSE e[k]
    <3> TAKE k \in 1..(c + 1)
    <3>1. CASE k = c + 1
      BY <1>1, <2>2, <3>1
    <3>2. CASE k \in 1..c
      <4>1. longer[Ascending(t)[k]] = recs[a[k]]
        BY <2>2, <2>4, <3>2
      <4>2. k # c + 1
        BY <1>2, <3>2
      <4> QED
        BY <2>4, <3>2, <4>1, <4>2
    <3> QED
      BY <1>2, <3>1, <3>2
  <2>6. EntriesOf(longer) = [k \in 1..(c + 1) |-> IF k = c + 1 THEN EntryOf(record) ELSE e[k]]
    BY <2>3, <2>5
  <2>7. Append(e, EntryOf(record)) = [k \in 1..(c + 1) |-> IF k = c + 1 THEN EntryOf(record) ELSE e[k]]
    <3>1. EntryOf(record) \in IndexedChannel
      BY <1>12, EntryTyped
    <3>2. e \in Seq(IndexedChannel) /\ Len(e) = c
      BY <1>2
    <3> DEFINE new == EntryOf(record)
    <3>3. new \in IndexedChannel
      BY <3>1
    <3> HIDE DEF new
    <3>4. Append(e, new) = [k \in 1..(Len(e) + 1) |-> IF k = Len(e) + 1 THEN new ELSE e[k]]
      BY <3>2, <3>3, AppendIs
    <3> QED
      BY <3>2, <3>4, Zenon DEF new
  <2> QED
    BY <1>10, <1>12, <2>6, <2>7 DEF longer, e
<1> QED
  BY <1>11, <1>12

-----------------------------------------------------------------------------
(* The number of channels of a snapshot, a recursion as well. *)

Sums(snapshot, n, f) ==
    /\ f[0] = 0
    /\ \A k \in 1..n : f[k] = f[k - 1] + Len(snapshot[k].channels)

LEMMA TotalSums ==
  ASSUME NEW snapshot \in Seq(Group)
  PROVE  \E f : Sums(snapshot, Len(snapshot), f) /\ TotalOf(snapshot) = f[Len(snapshot)]
<1> DEFINE n == Len(snapshot)
           Is(f) == f = [k \in 0..n |->
                            IF k = 0 THEN 0 ELSE f[k - 1] + Len(snapshot[k].channels)]
           total == CHOOSE f : Is(f)
<1>1. n \in Nat /\ n \in 0..n
  OBVIOUS
<1>2. \E g \in [0..n -> Nat] : Sums(snapshot, n, g)
  <2> DEFINE step == [k \in 1..n |-> [sum \in Nat |-> sum + Len(snapshot[k].channels)]]
  <2>1. \A k \in 1..n : Len(snapshot[k].channels) \in Nat
    <3> TAKE k \in 1..n
    <3>1. snapshot[k] \in Group
      OBVIOUS
    <3> QED
      BY <3>1 DEF Group
  <2>2. step \in [1..n -> [Nat -> Nat]]
    BY <2>1
  <2>3. \A k \in 1..n, sum \in Nat : step[k][sum] = sum + Len(snapshot[k].channels)
    OBVIOUS
  <2> HIDE DEF step
  <2>4. Solvable(Nat, 0, n, step)
    BY <1>1, <2>2, Recursion
  <2>5. PICK g \in [0..n -> Nat] : g[0] = 0 /\ \A k \in 1..n : g[k] = step[k][g[k - 1]]
    BY <2>4 DEF Solvable
  <2>6. \A k \in 1..n : g[k - 1] \in Nat
    BY <1>1
  <2> QED
    BY <2>3, <2>5, <2>6 DEF Sums
<1>3. PICK g \in [0..n -> Nat] : Sums(snapshot, n, g)
  BY <1>2
<1>4. Is(g)
  <2>1. \A k \in 0..n : g[k] = IF k = 0 THEN 0 ELSE g[k - 1] + Len(snapshot[k].channels)
    BY <1>1, <1>3 DEF Sums
  <2> QED
    BY <2>1
<1>5. TotalOf(snapshot) = total[n]
  BY DEF TotalOf
<1>6. Is(total)
  BY <1>4
<1> HIDE DEF total
<1>7. Sums(snapshot, n, total)
  BY <1>1, <1>6 DEF Sums
<1> QED
  BY <1>5, <1>7

\* Every channel is counted in its category, and in no other.
LEMMA TotalIs ==
  ASSUME NEW channels \in Seq(IndexedChannel),
         NEW snapshot, GroupsOf(channels, Len(channels), snapshot)
  PROVE  TotalOf(snapshot) = Len(channels)
<1> DEFINE n == Len(channels)
           m == Len(snapshot)
           Counted(k) == {i \in 1..n : \E p \in 1..k : snapshot[p].id = Key(channels[i].group)}
<1>1. snapshot \in Seq(Group)
  BY DEF GroupsOf
<1>2. n \in Nat /\ m \in Nat /\ DOMAIN snapshot = 1..m
  BY <1>1
<1>3. PICK f : Sums(snapshot, m, f) /\ TotalOf(snapshot) = f[m]
  BY <1>1, TotalSums
<1>4. IsFiniteSet(1..n) /\ Cardinality(1..n) = n
  <2>1. \A k \in Nat : IsFiniteSet(1..k) /\ Cardinality(1..k) = k
    BY FS_Interval
  <2> QED
    BY <1>2, <2>1
<1> DEFINE T == {k \in Nat : k =< m => f[k] = Cardinality(Counted(k))}
<1>5. 0 \in T
  <2>1. Counted(0) = {}
    OBVIOUS
  <2>2. Cardinality(Counted(0)) = 0
    BY <2>1, FS_EmptySet
  <2>3. f[0] = 0
    BY <1>3 DEF Sums
  <2> QED
    BY <2>2, <2>3
<1>6. ASSUME NEW k \in T
      PROVE  k + 1 \in T
  <2> SUFFICES ASSUME k + 1 =< m
               PROVE  f[k + 1] = Cardinality(Counted(k + 1))
    OBVIOUS
  <2>1. k \in Nat /\ k + 1 \in 1..m /\ (k + 1) - 1 = k /\ f[k] = Cardinality(Counted(k))
    OBVIOUS
  <2> DEFINE own == Own(channels, n, snapshot[k + 1].id)
  <2>2. f[k + 1] = f[k] + Len(snapshot[k + 1].channels)
    BY <1>3, <2>1 DEF Sums
  <2>3. own \subseteq 1..n /\ own \in SUBSET Int /\ IsFiniteSet(own)
    BY <1>2, OwnFinite
  <2>4. snapshot[k + 1].channels = ChannelsAt(channels, own)
    BY <1>2, <2>1 DEF GroupsOf
  <2>5. Len(snapshot[k + 1].channels) = Cardinality(own) /\ Cardinality(own) \in Nat
    <3>1. /\ Cardinality(own) \in Nat
          /\ DOMAIN ChannelsAt(channels, own) = 1..Cardinality(own)
      <4> HIDE DEF own
      <4> QED
        BY <2>3, ChannelsAtHas
    <3>2. snapshot[k + 1] \in Group
      BY <1>1, <1>2, <2>1
    <3>3. snapshot[k + 1].channels \in Seq(Channels)
      BY <3>2 DEF Group
    <3> HIDE DEF own
    <3> QED
      BY <2>4, <3>1, <3>3, LenIs
  <2>6. Counted(k + 1) = Counted(k) \cup own /\ Counted(k) \cap own = {}
    <3>1. \A i \in 1..n : i \in own <=> snapshot[k + 1].id = Key(channels[i].group)
      BY DEF Own
    <3>2. \A p \in 1..k : p \in DOMAIN snapshot /\ p # k + 1
      BY <1>2, <2>1
    <3>3. \A p, r \in DOMAIN snapshot : snapshot[p].id = snapshot[r].id => p = r
      BY DEF GroupsOf
    <3>4. 1..(k + 1) = 1..k \cup {k + 1} /\ k + 1 \in DOMAIN snapshot
      BY <1>2, <2>1
    <3> HIDE DEF own
    <3>5. Counted(k + 1) = Counted(k) \cup own
      BY <2>3, <3>1, <3>4
    <3>6. Counted(k) \cap own = {}
      BY <3>1, <3>2, <3>3, <3>4
    <3> QED
      BY <3>5, <3>6
  <2>7. Counted(k) \subseteq 1..n
    OBVIOUS
  <2> DEFINE counted == Counted(k)
  <2> HIDE DEF own, counted
  <2>8. IsFiniteSet(counted)
    BY <1>4, <2>7, FS_Subset, Zenon DEF counted
  <2>9. Cardinality(counted) \in Nat
    BY <2>8, FS_CardinalityType
  <2>10. Cardinality(counted \cup own) = Cardinality(counted) + Cardinality(own)
    <3>1. counted \cap own = {}
      BY <2>6 DEF counted
    <3>2. Cardinality(counted \cup own)
            = Cardinality(counted) + Cardinality(own) - Cardinality(counted \cap own)
      BY <2>3, <2>8, FS_Union
    <3>3. Cardinality(counted \cap own) = 0
      BY <3>1, FS_EmptySet
    <3> QED
      BY <2>5, <2>9, <3>2, <3>3
  <2> QED
    BY <2>1, <2>2, <2>5, <2>6, <2>10 DEF counted
<1>7. T = Nat
  <2>1. T \in SUBSET Nat
    OBVIOUS
  <2> HIDE DEF T
  <2> QED
    BY <1>5, <1>6, <2>1, Induction
<1>8. f[m] = Cardinality(Counted(m))
  <2>1. m \in T
    <3> HIDE DEF T, m
    <3> QED
      BY <1>2, <1>7
  <2>2. m =< m => f[m] = Cardinality(Counted(m))
    BY <2>1
  <2>3. m =< m
    BY <1>2
  <2> QED
    BY <2>2, <2>3
<1>9. Counted(m) = 1..n
  BY <1>2 DEF GroupsOf
<1> QED
  BY <1>3, <1>4, <1>8, <1>9

\* The channels of a key, by the records and by what was matched of them.
LEMMA SameListing ==
  ASSUME records \in Seq(SourceRecord), indexed = EntriesOf(records), NEW key
  PROVE  LET own == {i \in Deciding(records) : Key(records[i].group) = key}
         IN  [k \in 1..Cardinality(own) |-> ChannelOf(records[Ascending(own)[k]])]
               = ChannelsAt(indexed, Own(indexed, Len(indexed), key))
<1> DEFINE d == Deciding(records)
           n == Cardinality(d)
           a == Ascending(d)
           own == {i \in d : Key(records[i].group) = key}
           O == Own(indexed, n, key)
           c == Cardinality(O)
           b == Ascending(O)
           q == [k \in 1..c |-> a[b[k]]]
<1>1. /\ n \in Nat /\ Len(indexed) = n /\ DOMAIN indexed = 1..n
      /\ a \in [1..n -> d]
      /\ \A i \in d : \E k \in 1..n : a[k] = i
      /\ \A k, l \in 1..n : k < l => a[k] < a[l]
      /\ \A k \in 1..n : indexed[k].channel = ChannelOf(records[a[k]]) /\ indexed[k].group = records[a[k]].group
  BY EntriesTyped
<1>2. d \in SUBSET Int /\ IsFiniteSet(d) /\ d \in SUBSET (1..Len(records))
  BY DecidingFinite
<1> HIDE DEF n, d, a
<1>3. own \subseteq d
  OBVIOUS
<1>4. \A i : i \in own <=> i \in d /\ Key(records[i].group) = key
  OBVIOUS
<1>5. \A k : k \in O <=> k \in 1..n /\ Key(indexed[k].group) = key
  BY DEF Own
<1>6. O \in SUBSET (1..n) /\ O \in SUBSET Int /\ IsFiniteSet(O)
  BY <1>1, OwnFinite
<1> HIDE DEF own, O
<1>7. IsFiniteSet(own) /\ own \in SUBSET Int
  <2>1. IsFiniteSet(own)
    BY <1>2, <1>3, FS_Subset, Zenon
  <2> QED
    BY <1>2, <1>3, <2>1
<1>8. /\ c \in Nat
      /\ b \in [1..c -> O]
      /\ \A k \in O : \E l \in 1..c : b[l] = k
      /\ \A k, l \in 1..c : k < l => b[k] < b[l]
  BY <1>6, AscendingOrders
<1>9. \A k \in 1..n : a[k] \in own <=> k \in O
  BY <1>1, <1>4, <1>5
<1> HIDE DEF c, b
<1>10. \A k \in 1..c : b[k] \in O /\ b[k] \in 1..n
  BY <1>6, <1>8
<1>11. q \in [1..c -> own] /\ \A k \in 1..c : q[k] = a[b[k]]
  BY <1>9, <1>10
<1> HIDE DEF q
<1>12. \A i \in own : \E k \in 1..c : q[k] = i
  <2> TAKE i \in own
  <2>1. PICK k \in 1..n : a[k] = i
    BY <1>1, <1>4
  <2>2. PICK l \in 1..c : b[l] = k
    BY <1>8, <1>9, <2>1
  <2> QED
    BY <1>11, <2>1, <2>2
<1>13. \A k, l \in 1..c : k < l => q[k] < q[l]
  <2> SUFFICES ASSUME NEW k \in 1..c, NEW l \in 1..c, k < l PROVE q[k] < q[l]
    OBVIOUS
  <2>1. b[k] < b[l]
    BY <1>8
  <2> QED
    BY <1>1, <1>10, <1>11, <2>1
<1>14. q = Ascending(own) /\ c = Cardinality(own)
  BY <1>7, <1>8, <1>11, <1>12, <1>13, AscendingIsUnique
<1>15. ChannelsAt(indexed, O) = [k \in 1..c |-> indexed[b[k]].channel]
  BY Zenon DEF ChannelsAt, c, b
<1>16. \A k \in 1..c : indexed[b[k]].channel = ChannelOf(records[q[k]])
  BY <1>1, <1>10, <1>11
<1>17. [k \in 1..Cardinality(own) |-> ChannelOf(records[Ascending(own)[k]])] = ChannelsAt(indexed, O)
  BY <1>14, <1>15, <1>16
<1>18. O = Own(indexed, Len(indexed), key)
  BY <1>1 DEF O
<1> QED
  BY <1>17, <1>18 DEF own, d

LEMMA GroupingHolds ==
  ASSUME records \in Seq(SourceRecord), indexed = EntriesOf(records), Distinct(indexed)
  PROVE  SnapshotIsGrouping
<1> DEFINE snapshot == Build(indexed)
           n == Len(indexed)
           m == Len(snapshot)
           d == Deciding(records)
           channelsOf(key) ==
             LET own == {i \in d : Key(records[i].group) = key}
             IN  [k \in 1..Cardinality(own) |-> ChannelOf(records[Ascending(own)[k]])]
           keys == {Key(records[i].group) : i \in d}
           category(key) == [id |-> key, name |-> key.name, channels |-> channelsOf(key)]
<1>1. indexed \in Seq(IndexedChannel)
  BY EntriesTyped
<1>2. GroupsOf(indexed, n, snapshot)
  BY <1>1, SnapshotIs
<1>3. snapshot \in Seq(Group)
  BY <1>2 DEF GroupsOf
<1>4. TotalOf(snapshot) = n
  BY <1>1, <1>2, TotalIs
<1>5. \A key : channelsOf(key) = ChannelsAt(indexed, Own(indexed, n, key))
  BY SameListing
<1>6. d = {i \in DOMAIN records : Decides(i)}
  BY DEF Deciding, Decides
<1>7. keys = {Key(indexed[k].group) : k \in 1..n}
  <2> DEFINE a == Ascending(d)
             c == Cardinality(d)
  <2>1. /\ c = n /\ a \in [1..c -> d]
        /\ \A i \in d : \E k \in 1..c : a[k] = i
        /\ \A k \in 1..c : indexed[k].group = records[a[k]].group
    BY EntriesTyped
  <2> HIDE DEF a, c, d, n
  <2>2. ASSUME NEW i \in d PROVE Key(records[i].group) \in {Key(indexed[k].group) : k \in 1..n}
    <3>1. PICK k \in 1..n : a[k] = i
      BY <2>1
    <3> QED
      BY <2>1, <3>1
  <2>3. ASSUME NEW k \in 1..n PROVE Key(indexed[k].group) \in keys
    BY <2>1
  <2> QED
    BY <2>2, <2>3
<1>8. m \in Nat /\ DOMAIN snapshot = 1..m
  <2> HIDE DEF snapshot
  <2> QED
    BY <1>3
<1> HIDE DEF snapshot, n, m, d, channelsOf, keys
<1>9. \A p \in 1..m : /\ snapshot[p].id \in keys
                      /\ snapshot[p] = category(snapshot[p].id)
  <2> TAKE p \in 1..m
  <2>1. snapshot[p] \in Group
    BY <1>3, <1>8
  <2>2. /\ snapshot[p].name = snapshot[p].id.name
        /\ Own(indexed, n, snapshot[p].id) # {}
        /\ snapshot[p].channels = channelsOf(snapshot[p].id)
    BY <1>2, <1>5, <1>8 DEF GroupsOf
  <2>3. PICK k \in 1..n : Key(indexed[k].group) = snapshot[p].id
    BY <2>2 DEF Own
  <2>4. snapshot[p] = [id |-> snapshot[p].id, name |-> snapshot[p].name, channels |-> snapshot[p].channels]
    BY <2>1 DEF Group
  <2> QED
    BY <1>7, <2>2, <2>3, <2>4
<1>10. \A key \in keys : \E p \in 1..m : snapshot[p].id = key
  BY <1>2, <1>7, <1>8 DEF GroupsOf
<1>11. ToSet(snapshot) = {category(key) : key \in keys}
  <2> HIDE DEF category
  <2>1. ToSet(snapshot) = {snapshot[p] : p \in 1..m}
    BY <1>8 DEF ToSet
  <2>2. ASSUME NEW key \in keys PROVE category(key) \in {snapshot[p] : p \in 1..m}
    <3>1. PICK p \in 1..m : snapshot[p].id = key
      BY <1>10
    <3> QED
      BY <1>9, <3>1
  <2> QED
    BY <1>9, <2>1, <2>2
<1>12. m = Cardinality(keys)
  <2> DEFINE f == [p \in 1..m |-> snapshot[p].id]
  <2>1. f \in [1..m -> keys] /\ \A p \in 1..m : f[p] = snapshot[p].id
    BY <1>9
  <2>2. \A p, r \in 1..m : f[p] = f[r] => p = r
    BY <1>2, <1>8, <2>1 DEF GroupsOf
  <2>3. \A key \in keys : \E p \in 1..m : f[p] = key
    BY <1>10, <2>1
  <2> HIDE DEF f
  <2>4. f \in Bijection(1..m, keys)
    BY <2>1, <2>2, <2>3, Fun_IsBij
  <2>5. ExistsBijection(1..m, keys)
    BY <2>4 DEF ExistsBijection
  <2>6. IsFiniteSet(1..m) /\ Cardinality(1..m) = m
    BY <1>8, FS_Interval
  <2> QED
    BY <2>5, <2>6, FS_Bijection
<1> QED
  BY <1>4, <1>6, <1>11, <1>12, Zenon DEF SnapshotIsGrouping, snapshot, n, m, keys, channelsOf

-----------------------------------------------------------------------------
(* The order of the tuners. *)

\* Two snapshots with the same ids.
SameIds(one, other) ==
    \A i \in DOMAIN one : \E j \in DOMAIN other : other[j].id = one[i].id

Categories(snapshot) ==
    /\ snapshot \in Seq(Group)
    /\ \A i \in DOMAIN snapshot : snapshot[i].name = snapshot[i].id.name
    /\ \A i, j \in DOMAIN snapshot : snapshot[i].id = snapshot[j].id => i = j

LEMMA CategoriesTyped ==
  ASSUME NEW snapshot, Categories(snapshot)
  PROVE  /\ Len(snapshot) \in Nat
         /\ DOMAIN snapshot = 1..Len(snapshot)
         /\ \A i \in DOMAIN snapshot : snapshot[i].name \in Names
<1>1. snapshot \in Seq(Group)
  BY DEF Categories
<1>2. \A i \in DOMAIN snapshot : snapshot[i] \in Group
  BY <1>1
<1> QED
  BY <1>1, <1>2 DEF Group

\* The names up to a place of the one leave no room for a later name at that
\* place of the other.
LEMMA NameNotBefore ==
  ASSUME NEW one, NEW other, Categories(one), Categories(other),
         SortedByName(one), SortedByName(other), SameIds(one, other),
         NEW i \in DOMAIN one, i \in DOMAIN other
  PROVE  ~ Before(one[i].name, other[i].name)
<1> SUFFICES ASSUME Before(one[i].name, other[i].name) PROVE FALSE
  OBVIOUS
<1> DEFINE n == Len(one)
           m == Len(other)
           f == [k \in 1..i |-> CHOOSE j \in 1..m : other[j].id = one[k].id]
<1>1. /\ n \in Nat /\ DOMAIN one = 1..n /\ \A k \in 1..n : one[k].name \in Names
      /\ m \in Nat /\ DOMAIN other = 1..m /\ \A j \in 1..m : other[j].name \in Names
  BY CategoriesTyped
<1> HIDE DEF n, m
<1>2. i \in 1..n /\ i \in 1..m /\ i \in Int /\ i - 1 \in Int
  BY <1>1
<1>3. \A k \in 1..i : k \in 1..n /\ k \in DOMAIN one
  BY <1>1, <1>2
<1>4. \A k \in 1..i : f[k] \in 1..m /\ other[f[k]].id = one[k].id
  BY <1>1, <1>3 DEF SameIds
<1>5. f \in [1..i -> 1..m]
  BY <1>4
<1> HIDE DEF f
<1>6. ASSUME NEW k \in 1..i PROVE f[k] \in 1..(i - 1)
  <2> DEFINE j == f[k]
             a == one[k].name
             b == one[i].name
             c == other[i].name
  <2>1. j \in 1..m /\ other[j].id = one[k].id
    BY <1>4
  <2>2. other[j].name = a
    BY <1>1, <1>3, <2>1 DEF Categories
  <2>3. a \in Names /\ b \in Names /\ c \in Names
    BY <1>1, <1>2, <1>3
  <2>4. ~ Before(b, a)
    <3>1. CASE k = i
      BY <2>3, <3>1, NamesOrdered
    <3>2. CASE k # i
      <4>1. k \in DOMAIN one /\ i \in DOMAIN one /\ k < i
        BY <1>1, <1>2, <1>3, <3>2
      <4> QED
        BY <4>1 DEF SortedByName
    <3> QED
      BY <3>1, <3>2
  <2>5. ASSUME i =< j PROVE FALSE
    <3>1. ~ Before(a, c)
      <4>1. CASE i = j
        <5>1. a = c
          BY <2>2, <4>1
        <5> QED
          BY <2>3, <5>1, NamesOrdered
      <4>2. CASE i # j
        <5>1. i \in DOMAIN other /\ j \in DOMAIN other /\ i < j
          BY <1>1, <1>2, <2>1, <2>5, <4>2
        <5>2. ~ Before(other[j].name, other[i].name)
          BY <5>1 DEF SortedByName
        <5> QED
          BY <2>2, <5>2
      <4> QED
        BY <4>1, <4>2
    <3>2. Before(b, c)
      OBVIOUS
    <3>3. a = b \/ Before(a, b)
      BY <2>3, <2>4, NamesOrdered
    <3> QED
      BY <2>3, <3>1, <3>2, <3>3, NamesOrdered
  <2>6. j \in 1..(i - 1)
    BY <1>1, <1>2, <2>1, <2>5
  <2> QED
    BY <2>6
<1>7. f \in [1..i -> 1..(i - 1)]
  BY <1>5, <1>6
<1>8. \A k, l \in 1..i : k # l => f[k] # f[l]
  BY <1>3, <1>4 DEF Categories
<1>9. /\ IsFiniteSet(1..i) /\ IsFiniteSet(1..(i - 1))
      /\ Cardinality(1..i) = i /\ Cardinality(1..(i - 1)) = i - 1
  <2>1. \A k \in Nat : IsFiniteSet(1..k) /\ Cardinality(1..k) = k
    BY FS_Interval
  <2>2. i \in Nat /\ i - 1 \in Nat
    BY <1>1, <1>2
  <2> QED
    BY <2>1, <2>2
<1>10. Cardinality(1..(i - 1)) < Cardinality(1..i)
  BY <1>2, <1>9
<1>11. \E k, l \in 1..i : k # l /\ f[k] = f[l]
  BY <1>7, <1>9, <1>10, FS_PigeonHole
<1> QED
  BY <1>8, <1>11

\* As many categories, too.
LEMMA SameLength ==
  ASSUME NEW one, NEW other, Categories(one), Categories(other), SameIds(one, other)
  PROVE  Len(one) =< Len(other)
<1> DEFINE n == Len(one)
           m == Len(other)
           f == [k \in 1..n |-> CHOOSE j \in 1..m : other[j].id = one[k].id]
<1>1. n \in Nat /\ DOMAIN one = 1..n /\ m \in Nat /\ DOMAIN other = 1..m
  BY CategoriesTyped
<1> HIDE DEF n, m
<1>2. \A k \in 1..n : f[k] \in 1..m /\ other[f[k]].id = one[k].id
  BY <1>1 DEF SameIds
<1>3. f \in [1..n -> 1..m]
  BY <1>2
<1> HIDE DEF f
<1>4. \A k, l \in 1..n : f[k] = f[l] => k = l
  BY <1>1, <1>2 DEF Categories
<1>5. f \in Injection(1..n, 1..m)
  BY <1>3, <1>4, Fun_IsInj
<1>6. /\ IsFiniteSet(1..m) /\ Cardinality(1..m) = m /\ Cardinality(1..n) = n
  <2>1. \A k \in Nat : IsFiniteSet(1..k) /\ Cardinality(1..k) = k
    BY FS_Interval
  <2> QED
    BY <1>1, <2>1
<1>7. Cardinality(1..n) =< Cardinality(1..m)
  BY <1>5, <1>6, FS_Injection
<1> QED
  BY <1>6, <1>7 DEF n, m

LEMMA SameNames ==
  ASSUME NEW one, NEW other, Categories(one), Categories(other),
         SortedByName(one), SortedByName(other), SameIds(one, other), SameIds(other, one)
  PROVE  /\ DOMAIN one = DOMAIN other
         /\ \A i \in DOMAIN one : one[i].name = other[i].name
<1>1. /\ DOMAIN one = 1..Len(one) /\ DOMAIN other = 1..Len(other)
      /\ Len(one) \in Nat /\ Len(other) \in Nat
      /\ \A i \in DOMAIN one : one[i].name \in Names
      /\ \A i \in DOMAIN other : other[i].name \in Names
  BY CategoriesTyped
<1>2. Len(one) =< Len(other) /\ Len(other) =< Len(one)
  BY SameLength
<1>3. DOMAIN one = DOMAIN other
  <2> DEFINE n == Len(one)
             m == Len(other)
  <2>1. n \in Nat /\ m \in Nat /\ n =< m /\ m =< n /\ DOMAIN one = 1..n /\ DOMAIN other = 1..m
    BY <1>1, <1>2
  <2> HIDE DEF n, m
  <2>2. n = m
    BY <2>1
  <2> QED
    BY <2>1, <2>2
<1>4. ASSUME NEW i \in DOMAIN one PROVE one[i].name = other[i].name
  <2>1. i \in DOMAIN other
    BY <1>3
  <2>2. ~ Before(one[i].name, other[i].name) /\ ~ Before(other[i].name, one[i].name)
    BY <2>1, NameNotBefore
  <2> QED
    BY <1>1, <2>1, <2>2, NamesOrdered
<1> QED
  BY <1>3, <1>4

\* The channels of a category, as a set.
Sharing(channels, key) == {k \in DOMAIN channels : Key(channels[k].group) = key}

LEMMA MembersAre ==
  ASSUME NEW channels \in Seq(IndexedChannel),
         NEW snapshot, GroupsOf(channels, Len(channels), snapshot),
         NEW p \in DOMAIN snapshot
  PROVE  ToSet(snapshot[p].channels)
           = {channels[i].channel : i \in Sharing(channels, snapshot[p].id)}
<1> DEFINE n == Len(channels)
           own == Own(channels, n, snapshot[p].id)
           l == ChannelsAt(channels, own)
<1>1. n \in Nat /\ DOMAIN channels = 1..n
  OBVIOUS
<1>2. snapshot[p].channels = l
  BY DEF GroupsOf
<1>3. own \in SUBSET (1..n) /\ own \in SUBSET Int /\ IsFiniteSet(own)
  BY <1>1, OwnFinite
<1>4. own = Sharing(channels, snapshot[p].id)
  BY <1>1 DEF Own, Sharing
<1> HIDE DEF own, n
<1>5. /\ DOMAIN l = 1..Cardinality(own)
      /\ \A k \in own : \E j \in 1..Cardinality(own) : l[j] = channels[k].channel
      /\ \A j \in 1..Cardinality(own) :
            Ascending(own)[j] \in own /\ l[j] = channels[Ascending(own)[j]].channel
  BY <1>3, ChannelsAtHas
<1> HIDE DEF l
<1>6. ToSet(l) = {channels[i].channel : i \in own}
  <2>1. ASSUME NEW x \in ToSet(l) PROVE x \in {channels[i].channel : i \in own}
    <3>1. PICK j \in DOMAIN l : l[j] = x
      BY DEF ToSet
    <3> QED
      BY <1>5, <3>1
  <2>2. ASSUME NEW i \in own PROVE channels[i].channel \in ToSet(l)
    <3>1. PICK j \in DOMAIN l : l[j] = channels[i].channel
      BY <1>5
    <3> QED
      BY <3>1 DEF ToSet
  <2> QED
    BY <2>1, <2>2
<1> QED
  BY <1>2, <1>4, <1>6

Shuffled(channels, p) == [i \in DOMAIN channels |-> channels[p[i]]]

LEMMA ShuffledTyped ==
  ASSUME NEW channels \in Seq(IndexedChannel), Distinct(channels),
         NEW p \in Bijection(DOMAIN channels, DOMAIN channels)
  PROVE  LET other == Shuffled(channels, p)
         IN  /\ other \in Seq(IndexedChannel) /\ Distinct(other)
             /\ DOMAIN other = DOMAIN channels
             /\ \A i \in DOMAIN channels : p[i] \in DOMAIN channels /\ other[i] = channels[p[i]]
             /\ \A k \in DOMAIN channels : \E i \in DOMAIN channels : p[i] = k
<1> DEFINE D == DOMAIN channels
           n == Len(channels)
           other == Shuffled(channels, p)
<1>1. D = 1..n /\ n \in Nat /\ \A i \in D : channels[i] \in IndexedChannel
  OBVIOUS
<1>2. /\ p \in [D -> D]
      /\ \A i, j \in D : p[i] = p[j] => i = j
      /\ \A k \in D : \E i \in D : p[i] = k
  <2> HIDE DEF D
  <2>1. p \in Bijection(D, D)
    BY DEF D
  <2>2. p \in Injection(D, D) /\ p \in Surjection(D, D)
    BY <2>1, Fun_BijectionProperties DEF Bijection
  <2>3. /\ p \in [D -> D]
        /\ \A i, j \in D : p[i] = p[j] => i = j
    BY <2>2 DEF Injection, IsInjective
  <2>4. \A k \in D : \E i \in D : p[i] = k
    BY <2>2 DEF Surjection
  <2> QED
    BY <2>3, <2>4
<1>3. other = [i \in D |-> channels[p[i]]]
  BY DEF Shuffled
<1> HIDE DEF D, n, other
<1>4. \A i \in D : p[i] \in D /\ other[i] = channels[p[i]]
  BY <1>2, <1>3
<1>5. other \in [1..n -> IndexedChannel]
  BY <1>1, <1>2, <1>3
<1>6. other \in Seq(IndexedChannel) /\ DOMAIN other = D
  BY <1>1, <1>3, <1>5
<1>7. Distinct(other)
  <2> SUFFICES ASSUME NEW i \in D, NEW j \in D, other[i].channel = other[j].channel
               PROVE  i = j
    BY <1>6 DEF Distinct
  <2>1. p[i] \in D /\ p[j] \in D /\ channels[p[i]].channel = channels[p[j]].channel
    BY <1>4
  <2>2. p[i] = p[j]
    BY <2>1 DEF Distinct, D
  <2> QED
    BY <1>2, <2>2
<1> QED
  BY <1>2, <1>4, <1>6, <1>7 DEF D, other

LEMMA OrderHolds ==
  ASSUME indexed \in Seq(IndexedChannel), Distinct(indexed)
  PROVE  OrderIsByName
<1> DEFINE one == Build(indexed)
           names(s) == [i \in DOMAIN s |-> s[i].name]
           members(s) == {<<s[i].id, ToSet(s[i].channels)>> : i \in DOMAIN s}
<1> SUFFICES ASSUME NEW p \in Bijection(DOMAIN indexed, DOMAIN indexed)
             PROVE  LET other == Build([i \in DOMAIN indexed |-> indexed[p[i]]])
                    IN  names(other) = names(one) /\ members(other) = members(one)
  BY Zenon DEF OrderIsByName
<1> DEFINE D == DOMAIN indexed
           shuffled == Shuffled(indexed, p)
           other == Build(shuffled)
<1>1. /\ shuffled \in Seq(IndexedChannel) /\ Distinct(shuffled)
      /\ DOMAIN shuffled = D
      /\ \A i \in D : p[i] \in D /\ shuffled[i] = indexed[p[i]]
      /\ \A k \in D : \E i \in D : p[i] = k
  BY ShuffledTyped
<1>2. shuffled = [i \in DOMAIN indexed |-> indexed[p[i]]]
  BY DEF Shuffled
<1>3. GroupsOf(indexed, Len(indexed), one) /\ SortedByName(one)
  BY SnapshotIs
<1>4. GroupsOf(shuffled, Len(shuffled), other) /\ SortedByName(other)
  <2> HIDE DEF shuffled
  <2> QED
    BY <1>1, SnapshotIs
<1>5. Categories(one) /\ Categories(other)
  BY <1>3, <1>4 DEF GroupsOf, Categories
<1>6. DOMAIN indexed = 1..Len(indexed) /\ DOMAIN shuffled = 1..Len(shuffled)
  <2> HIDE DEF shuffled
  <2> QED
    BY <1>1
<1> HIDE DEF one, other, shuffled, D
<1>7. /\ \A i \in DOMAIN one : \E k \in D : Key(indexed[k].group) = one[i].id
      /\ \A i \in DOMAIN other : \E k \in D : Key(shuffled[k].group) = other[i].id
      /\ \A k \in D : \E i \in DOMAIN one : one[i].id = Key(indexed[k].group)
      /\ \A k \in D : \E i \in DOMAIN other : other[i].id = Key(shuffled[k].group)
  <2> DEFINE n == Len(indexed)
             m == Len(shuffled)
  <2>1. D = 1..n /\ D = 1..m
    BY <1>1, <1>6 DEF D
  <2> HIDE DEF n, m
  <2>2. GroupsOf(indexed, n, one) /\ GroupsOf(shuffled, m, other)
    BY <1>3, <1>4 DEF n, m
  <2>3. \A i \in DOMAIN one : Own(indexed, n, one[i].id) # {}
    BY <2>2 DEF GroupsOf
  <2>4. \A i \in DOMAIN other : Own(shuffled, m, other[i].id) # {}
    BY <2>2 DEF GroupsOf
  <2>5. \A i \in DOMAIN one : \E k \in D : Key(indexed[k].group) = one[i].id
    BY <2>1, <2>3 DEF Own
  <2>6. \A i \in DOMAIN other : \E k \in D : Key(shuffled[k].group) = other[i].id
    BY <2>1, <2>4 DEF Own
  <2>7. \A k \in D : \E i \in DOMAIN one : one[i].id = Key(indexed[k].group)
    BY <2>1, <2>2 DEF GroupsOf
  <2>8. \A k \in D : \E i \in DOMAIN other : other[i].id = Key(shuffled[k].group)
    BY <2>1, <2>2 DEF GroupsOf
  <2> QED
    BY <2>5, <2>6, <2>7, <2>8
<1>8. SameIds(one, other)
  <2> SUFFICES ASSUME NEW i \in DOMAIN one PROVE \E j \in DOMAIN other : other[j].id = one[i].id
    BY DEF SameIds
  <2>1. PICK k \in D : Key(indexed[k].group) = one[i].id
    BY <1>7
  <2>2. PICK l \in D : p[l] = k
    BY <1>1
  <2>3. Key(shuffled[l].group) = one[i].id
    BY <1>1, <2>1, <2>2
  <2> QED
    BY <1>7, <2>3
<1>9. SameIds(other, one)
  <2> SUFFICES ASSUME NEW i \in DOMAIN other PROVE \E j \in DOMAIN one : one[j].id = other[i].id
    BY DEF SameIds
  <2>1. PICK k \in D : Key(shuffled[k].group) = other[i].id
    BY <1>7
  <2>2. p[k] \in D /\ Key(indexed[p[k]].group) = other[i].id
    BY <1>1, <2>1
  <2> QED
    BY <1>7, <2>2
<1>10. /\ DOMAIN one = DOMAIN other
       /\ \A i \in DOMAIN one : one[i].name = other[i].name
  BY <1>3, <1>4, <1>5, <1>8, <1>9, SameNames
<1>11. names(other) = names(one)
  BY <1>10
<1>12. \A key : {indexed[k].channel : k \in Sharing(indexed, key)}
                  = {shuffled[k].channel : k \in Sharing(shuffled, key)}
  <2> TAKE key
  <2>1. ASSUME NEW k \in Sharing(indexed, key)
        PROVE  indexed[k].channel \in {shuffled[l].channel : l \in Sharing(shuffled, key)}
    <3>1. k \in D /\ Key(indexed[k].group) = key
      BY DEF D, Sharing
    <3>2. PICK l \in D : p[l] = k
      BY <1>1, <3>1
    <3>3. l \in Sharing(shuffled, key) /\ shuffled[l].channel = indexed[k].channel
      BY <1>1, <3>1, <3>2 DEF Sharing
    <3> QED
      BY <3>3
  <2>2. ASSUME NEW l \in Sharing(shuffled, key)
        PROVE  shuffled[l].channel \in {indexed[k].channel : k \in Sharing(indexed, key)}
    <3>1. l \in D /\ Key(shuffled[l].group) = key
      BY <1>1 DEF Sharing
    <3>2. p[l] \in D /\ shuffled[l] = indexed[p[l]]
      BY <1>1, <3>1
    <3>3. p[l] \in Sharing(indexed, key) /\ indexed[p[l]].channel = shuffled[l].channel
      BY <3>1, <3>2 DEF D, Sharing
    <3> QED
      BY <3>3
  <2> QED
    BY <2>1, <2>2
<1>13. /\ \A i \in DOMAIN one : ToSet(one[i].channels) = {indexed[k].channel : k \in Sharing(indexed, one[i].id)}
       /\ \A i \in DOMAIN other : ToSet(other[i].channels) = {shuffled[k].channel : k \in Sharing(shuffled, other[i].id)}
  <2>1. ASSUME NEW i \in DOMAIN one
        PROVE  ToSet(one[i].channels) = {indexed[k].channel : k \in Sharing(indexed, one[i].id)}
    BY <1>3, MembersAre
  <2>2. ASSUME NEW i \in DOMAIN other
        PROVE  ToSet(other[i].channels) = {shuffled[k].channel : k \in Sharing(shuffled, other[i].id)}
    BY <1>1, <1>4, MembersAre
  <2> QED
    BY <2>1, <2>2
<1>14. members(other) = members(one)
  <2>1. ASSUME NEW i \in DOMAIN one PROVE <<one[i].id, ToSet(one[i].channels)>> \in members(other)
    <3>1. PICK j \in DOMAIN other : other[j].id = one[i].id
      BY <1>8 DEF SameIds
    <3>2. ToSet(other[j].channels) = ToSet(one[i].channels)
      BY <1>12, <1>13, <3>1
    <3> QED
      BY <3>1, <3>2
  <2>2. ASSUME NEW i \in DOMAIN other PROVE <<other[i].id, ToSet(other[i].channels)>> \in members(one)
    <3>1. PICK j \in DOMAIN one : one[j].id = other[i].id
      BY <1>9 DEF SameIds
    <3>2. ToSet(one[j].channels) = ToSet(other[i].channels)
      BY <1>12, <1>13, <3>1
    <3> QED
      BY <3>1, <3>2
  <2> QED
    BY <2>1, <2>2
<1> QED
  BY <1>2, <1>11, <1>14 DEF other

-----------------------------------------------------------------------------
(* What is selected, and selected again. *)

LEMMA SelectedHas ==
  ASSUME NEW T, NEW s \in Seq(T), NEW places \in SUBSET (DOMAIN s)
  PROVE  LET r == Selected(s, places)
             c == Cardinality(places)
             a == Ascending(places)
         IN  /\ c \in Nat
             /\ r \in Seq(T) /\ Len(r) = c /\ DOMAIN r = 1..c
             /\ a \in [1..c -> places]
             /\ \A k \in 1..c : r[k] = s[a[k]]
             /\ \A i \in places : \E k \in 1..c : a[k] = i
             /\ \A k, l \in 1..c : k < l => a[k] < a[l]
             /\ \A k, l \in 1..c : a[k] = a[l] => k = l
<1> DEFINE r == Selected(s, places)
           c == Cardinality(places)
           a == Ascending(places)
<1>1. places \subseteq 1..Len(s) /\ Len(s) \in Nat /\ DOMAIN s = 1..Len(s) /\ places \in SUBSET Int
  OBVIOUS
<1>2. IsFiniteSet(places)
  <2>1. IsFiniteSet(1..Len(s))
    BY <1>1, FS_Interval
  <2> QED
    BY <1>1, <2>1, FS_Subset, Zenon
<1>3. /\ c \in Nat
      /\ a \in [1..c -> places]
      /\ \A i \in places : \E k \in 1..c : a[k] = i
      /\ \A k, l \in 1..c : k < l => a[k] < a[l]
      /\ \A k, l \in 1..c : a[k] = a[l] => k = l
  BY <1>1, <1>2, AscendingOrders
<1>4. r = [k \in 1..c |-> s[a[k]]]
  BY Zenon DEF Selected
<1> HIDE DEF r, c, a
<1>5. \A k \in 1..c : r[k] = s[a[k]] /\ s[a[k]] \in T
  BY <1>1, <1>3, <1>4
<1>6. r \in [1..c -> T]
  BY <1>4, <1>5
<1>7. r \in Seq(T) /\ DOMAIN r = 1..c /\ Len(r) = c
  BY <1>3, <1>6
<1> QED
  BY <1>3, <1>5, <1>7 DEF r, c, a

\* To select among what was selected is to select once.
SelectsOnce(S, P, Q) ==
    /\ Cardinality(P) \in Nat /\ Cardinality(Q) = Cardinality(P)
    /\ \A k \in 1..Cardinality(P) :
          /\ Ascending(P)[k] \in P
          /\ Ascending(Q)[k] = Ascending(S)[Ascending(P)[k]]

LEMMA AscendingTwice ==
  ASSUME NEW S \in SUBSET Int, IsFiniteSet(S), NEW P \in SUBSET (1..Cardinality(S)),
         NEW Q, Q = {Ascending(S)[k] : k \in P}
  PROVE  SelectsOnce(S, P, Q)
<1> DEFINE n == Cardinality(S)
           a == Ascending(S)
           c == Cardinality(P)
           b == Ascending(P)
           q == [k \in 1..c |-> a[b[k]]]
<1>1. /\ n \in Nat
      /\ a \in [1..n -> S]
      /\ \A k, l \in 1..n : k < l => a[k] < a[l]
  BY AscendingOrders
<1>2. P \subseteq 1..n /\ P \in SUBSET Int
  OBVIOUS
<1>3. IsFiniteSet(P)
  <2>1. IsFiniteSet(1..n)
    <3> HIDE DEF n
    <3> QED
      BY <1>1, FS_Interval
  <2> QED
    BY <1>2, <2>1, FS_Subset, Zenon
<1>4. /\ c \in Nat
      /\ b \in [1..c -> P]
      /\ \A k \in P : \E l \in 1..c : b[l] = k
      /\ \A k, l \in 1..c : k < l => b[k] < b[l]
  BY <1>2, <1>3, AscendingOrders
<1>5. Q = {a[k] : k \in P}
  OBVIOUS
<1> HIDE DEF n, a, c, b
<1>6. Q \subseteq S
  BY <1>1, <1>2, <1>5
<1>7. IsFiniteSet(Q) /\ Q \in SUBSET Int
  BY <1>6, FS_Subset, Zenon
<1>8. \A k \in 1..c : b[k] \in P /\ b[k] \in 1..n
  BY <1>2, <1>4
<1>9. q \in [1..c -> Q] /\ \A k \in 1..c : q[k] = a[b[k]]
  BY <1>5, <1>8
<1> HIDE DEF q
<1>10. \A x \in Q : \E k \in 1..c : q[k] = x
  <2> TAKE x \in Q
  <2>1. PICK k \in P : a[k] = x
    BY <1>5
  <2>2. PICK l \in 1..c : b[l] = k
    BY <1>4
  <2> QED
    BY <1>9, <2>1, <2>2
<1>11. \A k, l \in 1..c : k < l => q[k] < q[l]
  <2> SUFFICES ASSUME NEW k \in 1..c, NEW l \in 1..c, k < l PROVE q[k] < q[l]
    OBVIOUS
  <2>1. b[k] < b[l] /\ b[k] \in 1..n /\ b[l] \in 1..n
    BY <1>4, <1>8
  <2>2. a[b[k]] < a[b[l]]
    BY <1>1, <2>1
  <2> QED
    BY <1>9, <2>2
<1>12. q = Ascending(Q) /\ c = Cardinality(Q)
  <2>1. c \in Nat /\ q \in [1..c -> Q]
    BY <1>4, <1>9
  <2> QED
    BY <1>7, <1>10, <1>11, <2>1, AscendingIsUnique
<1>13. /\ c \in Nat /\ Cardinality(Q) = c
       /\ \A k \in 1..c : b[k] \in P /\ Ascending(Q)[k] = a[b[k]]
  BY <1>4, <1>8, <1>9, <1>12
<1> QED
  BY <1>13 DEF SelectsOnce, a, c, b

-----------------------------------------------------------------------------
(* A user's view. *)

Visible(channels, visible) == {i \in DOMAIN channels : channels[i].channel \in visible}

LEMMA ChannelsAtTyped ==
  ASSUME NEW channels \in Seq(IndexedChannel), NEW S \in SUBSET (DOMAIN channels)
  PROVE  /\ ChannelsAt(channels, S) \in Seq(Channels)
         /\ S \in SUBSET Int /\ IsFiniteSet(S)
<1>1. S \subseteq 1..Len(channels) /\ Len(channels) \in Nat /\ S \in SUBSET Int
  OBVIOUS
<1>2. IsFiniteSet(S)
  <2>1. IsFiniteSet(1..Len(channels))
    BY <1>1, FS_Interval
  <2> QED
    BY <1>1, <2>1, FS_Subset, Zenon
<1> DEFINE c == Cardinality(S)
           l == ChannelsAt(channels, S)
<1>3. /\ c \in Nat
      /\ l = [k \in 1..c |-> channels[Ascending(S)[k]].channel]
      /\ \A k \in 1..c : Ascending(S)[k] \in S
  BY <1>1, <1>2, ChannelsAtHas
<1>4. \A i \in DOMAIN channels : channels[i].channel \in Channels
  <2> TAKE i \in DOMAIN channels
  <2>1. channels[i] \in IndexedChannel
    OBVIOUS
  <2> QED
    BY <2>1 DEF IndexedChannel
<1> HIDE DEF c, l
<1>5. l \in [1..c -> Channels]
  BY <1>3, <1>4
<1>6. l \in Seq(Channels)
  BY <1>3, <1>5
<1> QED
  BY <1>1, <1>2, <1>6 DEF l

LEMMA SeenOf ==
  ASSUME NEW channels \in Seq(IndexedChannel), NEW S \in SUBSET (DOMAIN channels), NEW visible
  PROVE  SeenBy(visible, ChannelsAt(channels, S))
           = ChannelsAt(channels, S \cap Visible(channels, visible))
<1> DEFINE n == Cardinality(S)
           a == Ascending(S)
           l == ChannelsAt(channels, S)
           P == {k \in DOMAIN l : l[k] \in visible}
           Q == S \cap Visible(channels, visible)
<1>1. S \in SUBSET Int /\ IsFiniteSet(S) /\ S \subseteq DOMAIN channels
  BY ChannelsAtTyped
<1>2. /\ n \in Nat /\ DOMAIN l = 1..n
      /\ \A k \in 1..n : a[k] \in S /\ l[k] = channels[a[k]].channel
  BY <1>1, ChannelsAtHas
<1>3. \A i \in S : \E k \in 1..n : a[k] = i
  BY <1>1, AscendingOrders
<1> HIDE DEF n, a, l
<1>4. P \in SUBSET (1..n)
  BY <1>2
<1>5. Q = {a[k] : k \in P}
  <2>1. ASSUME NEW i \in Q PROVE i \in {a[k] : k \in P}
    <3>1. i \in S /\ channels[i].channel \in visible
      BY DEF Visible
    <3>2. PICK k \in 1..n : a[k] = i
      BY <1>3, <3>1
    <3>3. k \in P
      BY <1>2, <3>1, <3>2
    <3> QED
      BY <3>2, <3>3
  <2>2. ASSUME NEW k \in P PROVE a[k] \in Q
    <3>1. k \in 1..n /\ l[k] \in visible
      BY <1>2
    <3>2. a[k] \in S /\ channels[a[k]].channel \in visible
      BY <1>2, <3>1
    <3> QED
      BY <1>1, <3>2 DEF Visible
  <2> HIDE DEF P, Q
  <2> QED
    BY <2>1, <2>2
<1> HIDE DEF P, Q
<1>6. /\ Cardinality(P) \in Nat /\ Cardinality(Q) = Cardinality(P)
      /\ \A k \in 1..Cardinality(P) : Ascending(P)[k] \in P /\ Ascending(Q)[k] = a[Ascending(P)[k]]
  <2>1. P \in SUBSET (1..Cardinality(S)) /\ Q = {Ascending(S)[k] : k \in P}
    BY <1>4, <1>5 DEF n, a
  <2>2. SelectsOnce(S, P, Q)
    BY <1>1, <2>1, AscendingTwice
  <2> QED
    BY <2>2 DEF SelectsOnce, a
<1>7. SeenBy(visible, l) = [k \in 1..Cardinality(P) |-> l[Ascending(P)[k]]]
  BY Zenon DEF SeenBy, Selected, P
<1>8. ChannelsAt(channels, Q) = [k \in 1..Cardinality(Q) |-> channels[Ascending(Q)[k]].channel]
  BY Zenon DEF ChannelsAt
<1>9. \A k \in 1..Cardinality(P) : l[Ascending(P)[k]] = channels[Ascending(Q)[k]].channel
  BY <1>2, <1>4, <1>6
<1>10. SeenBy(visible, l) = ChannelsAt(channels, Q)
  BY <1>6, <1>7, <1>8, <1>9
<1> QED
  BY <1>10 DEF l, Q

LEMMA ChannelsAtSelected ==
  ASSUME NEW channels \in Seq(IndexedChannel), NEW V \in SUBSET (DOMAIN channels), NEW key
  PROVE  LET sub == Selected(channels, V)
             R == Own(sub, Len(sub), key)
             Q == V \cap Own(channels, Len(channels), key)
         IN  /\ ChannelsAt(sub, R) = ChannelsAt(channels, Q)
             /\ R = {} <=> Q = {}
<1> DEFINE sub == Selected(channels, V)
           n == Cardinality(V)
           a == Ascending(V)
           R == Own(sub, n, key)
           Q == V \cap Own(channels, Len(channels), key)
<1>1. /\ n \in Nat
      /\ sub \in Seq(IndexedChannel) /\ Len(sub) = n /\ DOMAIN sub = 1..n
      /\ a \in [1..n -> V]
      /\ \A k \in 1..n : sub[k] = channels[a[k]]
      /\ \A i \in V : \E k \in 1..n : a[k] = i
  BY SelectedHas
<1>2. V \in SUBSET Int /\ IsFiniteSet(V) /\ DOMAIN channels = 1..Len(channels)
  BY ChannelsAtTyped
<1>3. \A i \in V : i \in Q <=> Key(channels[i].group) = key
  BY <1>2 DEF Own
<1>4. R \in SUBSET (1..n) /\ \A k \in 1..n : k \in R <=> Key(sub[k].group) = key
  BY DEF Own
<1>5. Q \subseteq V
  OBVIOUS
<1> HIDE DEF sub, n, a, R, Q
<1>6. Q = {a[k] : k \in R}
  <2>1. ASSUME NEW i \in Q PROVE i \in {a[k] : k \in R}
    <3>1. PICK k \in 1..n : a[k] = i
      BY <1>1, <1>5
    <3>2. k \in R
      BY <1>1, <1>3, <1>4, <1>5, <3>1
    <3> QED
      BY <3>1, <3>2
  <2>2. ASSUME NEW k \in R PROVE a[k] \in Q
    <3>1. k \in 1..n /\ a[k] \in V /\ Key(channels[a[k]].group) = key
      BY <1>1, <1>4
    <3> QED
      BY <1>3, <3>1
  <2> QED
    BY <2>1, <2>2
<1>7. /\ Cardinality(R) \in Nat /\ Cardinality(Q) = Cardinality(R)
      /\ \A k \in 1..Cardinality(R) : Ascending(R)[k] \in R /\ Ascending(Q)[k] = a[Ascending(R)[k]]
  <2>1. R \in SUBSET (1..Cardinality(V)) /\ Q = {Ascending(V)[k] : k \in R}
    BY <1>4, <1>6 DEF n, a
  <2>2. SelectsOnce(V, R, Q)
    BY <1>2, <2>1, AscendingTwice
  <2> QED
    BY <2>2 DEF SelectsOnce, a
<1>8. ChannelsAt(sub, R) = [k \in 1..Cardinality(R) |-> sub[Ascending(R)[k]].channel]
  BY Zenon DEF ChannelsAt
<1>9. ChannelsAt(channels, Q) = [k \in 1..Cardinality(Q) |-> channels[Ascending(Q)[k]].channel]
  BY Zenon DEF ChannelsAt
<1>10. \A k \in 1..Cardinality(R) : sub[Ascending(R)[k]].channel = channels[Ascending(Q)[k]].channel
  <2> TAKE k \in 1..Cardinality(R)
  <2>1. Ascending(R)[k] \in 1..n /\ Ascending(Q)[k] = a[Ascending(R)[k]]
    BY <1>4, <1>7
  <2>2. sub[Ascending(R)[k]] = channels[a[Ascending(R)[k]]]
    BY <1>1, <2>1
  <2> QED
    BY <2>1, <2>2
<1>11. ChannelsAt(sub, R) = ChannelsAt(channels, Q)
  BY <1>7, <1>8, <1>9, <1>10
<1>12. R = {} <=> Q = {}
  BY <1>6
<1>13. R = Own(sub, Len(sub), key)
  BY <1>1 DEF R
<1> QED
  BY <1>11, <1>12, <1>13 DEF sub, Q

\* A user's view has the categories of the channels the user may see.
LEMMA ViewIs ==
  ASSUME NEW channels \in Seq(IndexedChannel),
         NEW snapshot, GroupsOf(channels, Len(channels), snapshot), SortedByName(snapshot),
         NEW visible
  PROVE  LET sub == Selected(channels, Visible(channels, visible))
             view == CreateUserView(snapshot, visible)
         IN  GroupsOf(sub, Len(sub), view) /\ SortedByName(view)
<1> DEFINE n == Len(channels)
           m == Len(snapshot)
           V == Visible(channels, visible)
           sub == Selected(channels, V)
           seen(i) == [snapshot[i] EXCEPT !.channels = SeenBy(visible, @)]
           filtered == [i \in DOMAIN snapshot |-> seen(i)]
           P == {i \in DOMAIN filtered : filtered[i].channels # <<>>}
           view == CreateUserView(snapshot, visible)
           c == Cardinality(P)
           a == Ascending(P)
           own(i) == V \cap Own(channels, n, snapshot[i].id)
<1>1. /\ snapshot \in Seq(Group)
      /\ \A i \in DOMAIN snapshot :
            /\ snapshot[i].name = snapshot[i].id.name
            /\ snapshot[i].channels = ChannelsAt(channels, Own(channels, n, snapshot[i].id))
      /\ \A i, j \in DOMAIN snapshot : snapshot[i].id = snapshot[j].id => i = j
      /\ \A k \in 1..n : \E i \in DOMAIN snapshot : snapshot[i].id = Key(channels[k].group)
  BY DEF GroupsOf
<1>2. m \in Nat /\ DOMAIN snapshot = 1..m /\ \A i \in 1..m : snapshot[i] \in Group
  BY <1>1
<1>3. V \subseteq DOMAIN channels /\ DOMAIN channels = 1..n /\ n \in Nat
  BY DEF Visible
<1>4. ASSUME NEW i \in 1..m
      PROVE  /\ seen(i).id = snapshot[i].id /\ seen(i).name = snapshot[i].name
             /\ seen(i).channels = ChannelsAt(channels, own(i))
             /\ seen(i) \in Group
             /\ seen(i).channels # <<>> <=> own(i) # {}
  <2> DEFINE O == Own(channels, n, snapshot[i].id)
             l == SeenBy(visible, snapshot[i].channels)
  <2>1. snapshot[i] \in Group /\ snapshot[i].channels = ChannelsAt(channels, O)
    BY <1>1, <1>2
  <2>2. O \subseteq DOMAIN channels
    BY <1>3 DEF Own
  <2>3. l = ChannelsAt(channels, own(i))
    <3>1. own(i) = O \cap Visible(channels, visible)
      OBVIOUS
    <3> HIDE DEF O
    <3>2. SeenBy(visible, ChannelsAt(channels, O)) = ChannelsAt(channels, O \cap Visible(channels, visible))
      BY <2>2, SeenOf
    <3> QED
      BY <2>1, <3>1, <3>2
  <2>4. own(i) \in SUBSET (DOMAIN channels)
    BY <1>3
  <2> DEFINE Q == own(i)
  <2>5. /\ l \in Seq(Channels)
        /\ Q \in SUBSET Int /\ IsFiniteSet(Q)
    <3> HIDE DEF Q
    <3>1. Q \in SUBSET (DOMAIN channels) /\ l = ChannelsAt(channels, Q)
      BY <2>3, <2>4 DEF Q
    <3> HIDE DEF l
    <3> QED
      BY <3>1, ChannelsAtTyped
  <2>6. l # <<>> <=> Q # {}
    <3> HIDE DEF Q
    <3>1. l = ChannelsAt(channels, Q)
      BY <2>3 DEF Q
    <3> HIDE DEF l
    <3>2. Cardinality(Q) \in Nat /\ DOMAIN l = 1..Cardinality(Q)
      BY <2>5, <3>1, ChannelsAtHas
    <3>3. Len(l) = Cardinality(Q)
      BY <2>5, <3>2, LenIs
    <3>4. Cardinality(Q) = 0 <=> Q = {}
      BY <2>5, FS_EmptySet
    <3>5. l = <<>> <=> Len(l) = 0
      BY <2>5
    <3> QED
      BY <3>3, <3>4, <3>5
  <2>7. seen(i) = [snapshot[i] EXCEPT !.channels = l]
    OBVIOUS
  <2> HIDE DEF l, Q, seen
  <2>8. /\ seen(i).id = snapshot[i].id /\ seen(i).name = snapshot[i].name
        /\ seen(i).channels = l
        /\ seen(i) \in Group
    BY <2>1, <2>5, <2>7 DEF Group
  <2> QED
    BY <2>3, <2>6, <2>8 DEF Q
<1>5. filtered = [i \in 1..m |-> seen(i)]
  BY <1>2
<1>6. view = Selected(filtered, P)
  BY DEF CreateUserView
<1>7. filtered \in Seq(Group) /\ DOMAIN filtered = 1..m
  <2> HIDE DEF seen
  <2>1. filtered \in [1..m -> Group]
    BY <1>4, <1>5
  <2> QED
    BY <1>2, <2>1
<1>8. P \in SUBSET (1..m) /\ \A i \in 1..m : i \in P <=> own(i) # {}
  <2> HIDE DEF seen
  <2> QED
    BY <1>4, <1>5
<1>9. \A i \in 1..m : filtered[i] = seen(i)
  <2> HIDE DEF seen
  <2> QED
    BY <1>5
<1> HIDE DEF filtered, seen, P, view, c, a, m, n, V
<1>10. /\ c \in Nat
       /\ view \in Seq(Group) /\ Len(view) = c /\ DOMAIN view = 1..c
       /\ a \in [1..c -> P]
       /\ \A k \in 1..c : view[k] = filtered[a[k]]
       /\ \A i \in P : \E k \in 1..c : a[k] = i
       /\ \A k, l \in 1..c : k < l => a[k] < a[l]
       /\ \A k, l \in 1..c : a[k] = a[l] => k = l
  <2>1. filtered \in Seq(Group) /\ P \in SUBSET (DOMAIN filtered)
    BY <1>7, <1>8
  <2> QED
    BY <1>6, <2>1, SelectedHas DEF c, a
<1>11. \A k \in 1..c : a[k] \in P /\ a[k] \in 1..m /\ view[k] = seen(a[k])
  BY <1>8, <1>9, <1>10
<1>12. \A key : /\ ChannelsAt(sub, Own(sub, Len(sub), key)) = ChannelsAt(channels, V \cap Own(channels, n, key))
                /\ Own(sub, Len(sub), key) = {} <=> V \cap Own(channels, n, key) = {}
  BY <1>3, ChannelsAtSelected DEF n
<1>13. /\ Len(sub) \in Nat /\ \A k \in 1..Len(sub) : \E i \in V : sub[k] = channels[i]
  <2>1. /\ Cardinality(V) \in Nat /\ Len(sub) = Cardinality(V)
        /\ Ascending(V) \in [1..Cardinality(V) -> V]
        /\ \A k \in 1..Cardinality(V) : sub[k] = channels[Ascending(V)[k]]
    BY <1>3, SelectedHas
  <2> HIDE DEF sub
  <2> QED
    BY <2>1
<1> HIDE DEF sub
<1>14. GroupsOf(sub, Len(sub), view)
  <2>1. ASSUME NEW k \in DOMAIN view
        PROVE  /\ view[k].name = view[k].id.name
               /\ Own(sub, Len(sub), view[k].id) # {}
               /\ view[k].channels = ChannelsAt(sub, Own(sub, Len(sub), view[k].id))
    <3>1. a[k] \in P /\ a[k] \in 1..m /\ view[k] = seen(a[k])
      BY <1>10, <1>11
    <3>2. view[k].id = snapshot[a[k]].id /\ view[k].name = snapshot[a[k]].name
      BY <1>4, <3>1
    <3>3. view[k].channels = ChannelsAt(channels, own(a[k])) /\ own(a[k]) # {}
      BY <1>4, <1>8, <3>1
    <3>4. snapshot[a[k]].name = snapshot[a[k]].id.name
      BY <1>1, <1>2, <3>1
    <3> QED
      BY <1>12, <3>2, <3>3, <3>4
  <2>2. ASSUME NEW k \in DOMAIN view, NEW l \in DOMAIN view, view[k].id = view[l].id
        PROVE  k = l
    <3>1. /\ a[k] \in 1..m /\ view[k] = seen(a[k])
          /\ a[l] \in 1..m /\ view[l] = seen(a[l])
      BY <1>10, <1>11
    <3>2. snapshot[a[k]].id = snapshot[a[l]].id
      BY <1>4, <2>2, <3>1
    <3>3. a[k] = a[l]
      BY <1>1, <1>2, <3>1, <3>2
    <3> QED
      BY <1>10, <3>3
  <2>3. ASSUME NEW k \in 1..Len(sub)
        PROVE  \E l \in DOMAIN view : view[l].id = Key(sub[k].group)
    <3>1. PICK x \in V : sub[k] = channels[x]
      BY <1>13
    <3>2. x \in 1..n
      BY <1>3
    <3>3. PICK i \in 1..m : snapshot[i].id = Key(channels[x].group)
      BY <1>1, <1>2, <3>2
    <3>4. x \in own(i)
      BY <3>2, <3>3 DEF Own
    <3>5. PICK l \in 1..c : a[l] = i
      BY <1>8, <1>10, <3>4
    <3>6. view[l].id = snapshot[i].id
      BY <1>4, <1>11, <3>5
    <3> QED
      BY <1>10, <3>1, <3>3, <3>6
  <2> QED
    BY <1>10, <2>1, <2>2, <2>3 DEF GroupsOf
<1>15. SortedByName(view)
  <2> SUFFICES ASSUME NEW k \in DOMAIN view, NEW l \in DOMAIN view, k < l
               PROVE  ~ Before(view[l].name, view[k].name)
    BY DEF SortedByName
  <2>1. /\ a[k] \in 1..m /\ view[k] = seen(a[k])
        /\ a[l] \in 1..m /\ view[l] = seen(a[l])
        /\ a[k] < a[l]
    BY <1>10, <1>11
  <2>2. view[k].name = snapshot[a[k]].name /\ view[l].name = snapshot[a[l]].name
    BY <1>4, <2>1
  <2> QED
    BY <1>2, <2>1, <2>2 DEF SortedByName
<1> QED
  BY <1>14, <1>15 DEF view, sub, V

\* The groups of some channels are the same groups, in whatever order.
LEMMA SameGroups ==
  ASSUME NEW channels, NEW n, NEW one, NEW other,
         GroupsOf(channels, n, one), GroupsOf(channels, n, other)
  PROVE  SameIds(one, other) /\ SameIds(other, one) /\ ToSet(one) = ToSet(other)
<1>1. \A s : GroupsOf(channels, n, s) =>
         \A i \in DOMAIN s : \E k \in 1..n : Key(channels[k].group) = s[i].id
  BY DEF GroupsOf, Own
<1>2. \A s : GroupsOf(channels, n, s) =>
         \A k \in 1..n : \E i \in DOMAIN s : s[i].id = Key(channels[k].group)
  BY DEF GroupsOf
<1>3. SameIds(one, other) /\ SameIds(other, one)
  BY <1>1, <1>2 DEF SameIds
<1>4. \A s : GroupsOf(channels, n, s) =>
         \A i \in DOMAIN s : s[i] = [id |-> s[i].id, name |-> s[i].id.name,
                                     channels |-> ChannelsAt(channels, Own(channels, n, s[i].id))]
  <2> SUFFICES ASSUME NEW s, GroupsOf(channels, n, s), NEW i \in DOMAIN s
               PROVE  s[i] = [id |-> s[i].id, name |-> s[i].id.name,
                              channels |-> ChannelsAt(channels, Own(channels, n, s[i].id))]
    OBVIOUS
  <2>1. s \in Seq(Group)
    BY DEF GroupsOf
  <2>2. s[i] \in Group
    BY <2>1
  <2>3. s[i] = [id |-> s[i].id, name |-> s[i].name, channels |-> s[i].channels]
    BY <2>2 DEF Group
  <2>4. /\ s[i].name = s[i].id.name
        /\ s[i].channels = ChannelsAt(channels, Own(channels, n, s[i].id))
    BY DEF GroupsOf
  <2> QED
    BY <2>3, <2>4
<1>5. ASSUME NEW s, NEW t, GroupsOf(channels, n, s), GroupsOf(channels, n, t), SameIds(s, t)
      PROVE  ToSet(s) \subseteq ToSet(t)
  <2> SUFFICES ASSUME NEW i \in DOMAIN s PROVE s[i] \in ToSet(t)
    BY DEF ToSet
  <2>1. PICK j \in DOMAIN t : t[j].id = s[i].id
    BY <1>5 DEF SameIds
  <2>2. t[j] = s[i]
    BY <1>4, <1>5, <2>1
  <2> QED
    BY <2>2 DEF ToSet
<1>6. ToSet(one) = ToSet(other)
  BY <1>3, <1>5
<1> QED
  BY <1>3, <1>6

\* Two snapshots of the same channels.
LEMMA SnapshotsAgree ==
  ASSUME NEW channels, NEW n, NEW one, NEW other,
         GroupsOf(channels, n, one), SortedByName(one),
         GroupsOf(channels, n, other), SortedByName(other)
  PROVE  /\ [i \in DOMAIN one |-> one[i].name] = [i \in DOMAIN other |-> other[i].name]
         /\ ToSet(one) = ToSet(other)
<1>1. Categories(one) /\ Categories(other)
  BY DEF Categories, GroupsOf
<1>2. SameIds(one, other) /\ SameIds(other, one) /\ ToSet(one) = ToSet(other)
  BY SameGroups
<1>3. /\ DOMAIN one = DOMAIN other
      /\ \A i \in DOMAIN one : one[i].name = other[i].name
  BY <1>1, <1>2, SameNames
<1> QED
  BY <1>2, <1>3

-----------------------------------------------------------------------------
(* Page after page. *)

LEMMA PageIs ==
  ASSUME NEW T, NEW s \in Seq(T), NEW start \in Nat, NEW limit \in Nat, start =< Len(s)
  PROVE  LET end == IF start + limit =< Len(s) THEN start + limit ELSE Len(s)
         IN  SubSeq(s, 1, start) \o PageOf(s, start, limit) = SubSeq(s, 1, end)
<1> DEFINE end == IF start + limit =< Len(s) THEN start + limit ELSE Len(s)
<1>1. 1 \in 1..(Len(s) + 1) /\ start \in (1 - 1)..Len(s) /\ end \in start..Len(s)
  OBVIOUS
<1>2. PageOf(s, start, limit) = SubSeq(s, start + 1, end)
  BY DEF PageOf
<1> HIDE DEF end
<1>3. SubSeq(s, 1, start) \o SubSeq(s, start + 1, end) = SubSeq(s, 1, end)
  BY <1>1, ConcatAdjacentSubSeq
<1> QED
  BY <1>2, <1>3 DEF end

\* What has been read after some pages is the beginning of the list.
ReadUpTo(s, limit, k) == SubSeq(s, 1, IF k * limit =< Len(s) THEN k * limit ELSE Len(s))

LEMMA JoinedUnfolds ==
  ASSUME NEW T, NEW n \in Nat, NEW pages \in [1..n -> Seq(T)]
  PROVE  \E f : /\ f[0] = <<>>
                /\ \A k \in 1..n : f[k] = f[k - 1] \o pages[k]
                /\ Joined(pages) = f[n]
<1> DEFINE Is(f) == f = [k \in 0..n |-> IF k = 0 THEN <<>> ELSE f[k - 1] \o pages[k]]
           joined == CHOOSE f : Is(f)
<1>1. \A k \in 1..n : pages[k] \in Seq(T)
  OBVIOUS
<1>2. \E f \in [0..n -> Seq(T)] :
         f[0] = <<>> /\ \A k \in 1..n : f[k] = f[k - 1] \o pages[k]
  <2> DEFINE step == [k \in 1..n |-> [got \in Seq(T) |-> got \o pages[k]]]
  <2>1. \A k \in 1..n, got \in Seq(T) : got \o pages[k] \in Seq(T)
    BY <1>1
  <2>2. step \in [1..n -> [Seq(T) -> Seq(T)]]
    BY <2>1
  <2>3. \A k \in 1..n, got \in Seq(T) : step[k][got] = got \o pages[k]
    OBVIOUS
  <2>4. <<>> \in Seq(T)
    OBVIOUS
  <2> HIDE DEF step
  <2>5. Solvable(Seq(T), <<>>, n, step)
    BY <2>2, <2>4, Recursion
  <2>6. PICK f \in [0..n -> Seq(T)] : f[0] = <<>> /\ \A k \in 1..n : f[k] = step[k][f[k - 1]]
    BY <2>5 DEF Solvable
  <2>7. \A k \in 1..n : f[k - 1] \in Seq(T)
    OBVIOUS
  <2>8. \A k \in 1..n : f[k] = f[k - 1] \o pages[k]
    BY <2>3, <2>6, <2>7
  <2> QED
    BY <2>6, <2>8
<1>3. PICK g \in [0..n -> Seq(T)] : g[0] = <<>> /\ \A k \in 1..n : g[k] = g[k - 1] \o pages[k]
  BY <1>2
<1>4. Is(g)
  <2>1. \A k \in 0..n : g[k] = IF k = 0 THEN <<>> ELSE g[k - 1] \o pages[k]
    <3> TAKE k \in 0..n
    <3>1. k = 0 \/ k \in 1..n
      OBVIOUS
    <3>2. CASE k = 0
      BY <1>3, <3>2
    <3>3. CASE k \in 1..n
      BY <1>3, <3>3
    <3> QED
      BY <3>1, <3>2, <3>3
  <2> QED
    BY <2>1
<1>5. Len(pages) = n
  <2>1. pages \in Seq(Seq(T)) /\ DOMAIN pages = 1..n
    OBVIOUS
  <2> QED
    BY <2>1, LenIs
<1>6. Joined(pages) = joined[n]
  BY <1>5 DEF Joined
<1>7. Is(joined)
  BY <1>4
<1> HIDE DEF joined
<1>8. joined[0] = <<>> /\ \A k \in 1..n : joined[k] = joined[k - 1] \o pages[k]
  <2> DEFINE from(k) == joined[k - 1] \o pages[k]
  <2>1. joined = [k \in 0..n |-> IF k = 0 THEN <<>> ELSE from(k)]
    BY <1>7
  <2> HIDE DEF from
  <2>2. \A k \in 0..n : joined[k] = IF k = 0 THEN <<>> ELSE from(k)
    BY <2>1, Zenon
  <2>3. joined[0] = <<>> /\ \A k \in 1..n : joined[k] = from(k)
    BY <2>2
  <2> QED
    BY <2>3 DEF from
<1> QED
  BY <1>6, <1>8

Pages(s, limit, n) == [k \in 1..n |-> PageOf(s, (k - 1) * limit, limit)]

LEMMA PageTyped ==
  ASSUME NEW T, NEW s \in Seq(T), NEW start \in Nat, NEW limit \in Nat
  PROVE  PageOf(s, start, limit) \in Seq(T)
<1> DEFINE end == IF start + limit =< Len(s) THEN start + limit ELSE Len(s)
<1>1. end \in Int /\ start + 1 \in Int /\ \A i \in (start + 1)..end : s[i] \in T
  OBVIOUS
<1>2. PageOf(s, start, limit) = SubSeq(s, start + 1, end)
  BY DEF PageOf
<1> HIDE DEF end
<1> QED
  BY <1>1, <1>2, SubSeqProperties

LEMMA PagesJoin ==
  ASSUME NEW T, NEW s \in Seq(T), NEW limit \in Nat, NEW n \in Nat
  PROVE  Joined(Pages(s, limit, n)) = ReadUpTo(s, limit, n)
<1> DEFINE pages == Pages(s, limit, n)
           L == Len(s)
<1>1. \A k \in 1..n : pages[k] = PageOf(s, (k - 1) * limit, limit) /\ pages[k] \in Seq(T)
  <2> TAKE k \in 1..n
  <2> DEFINE start == (k - 1) * limit
  <2>1. start \in Nat
    OBVIOUS
  <2>2. pages[k] = PageOf(s, start, limit)
    BY DEF Pages
  <2> HIDE DEF start
  <2>3. PageOf(s, start, limit) \in Seq(T)
    BY <2>1, PageTyped
  <2> QED
    BY <2>2, <2>3 DEF start
<1>2. pages \in [1..n -> Seq(T)]
  BY <1>1 DEF Pages
<1> HIDE DEF pages
<1>3. PICK f : /\ f[0] = <<>>
               /\ \A k \in 1..n : f[k] = f[k - 1] \o pages[k]
               /\ Joined(pages) = f[n]
  BY <1>2, JoinedUnfolds
<1>4. L \in Nat
  OBVIOUS
<1> DEFINE S == {k \in Nat : k =< n => f[k] = ReadUpTo(s, limit, k)}
<1>5. 0 \in S
  <2>1. SubSeq(s, 1, 0) = <<>>
    BY SubSeqEmpty
  <2>2. 0 * limit = 0 /\ 0 =< Len(s)
    OBVIOUS
  <2>3. ReadUpTo(s, limit, 0) = <<>>
    BY <2>1, <2>2 DEF ReadUpTo
  <2> QED
    BY <1>3, <2>3
<1>6. ASSUME NEW k \in S
      PROVE  k + 1 \in S
  <2> SUFFICES ASSUME k + 1 =< n PROVE f[k + 1] = ReadUpTo(s, limit, k + 1)
    OBVIOUS
  <2>1. k \in Nat /\ k + 1 \in 1..n /\ (k + 1) - 1 = k /\ f[k] = ReadUpTo(s, limit, k)
    OBVIOUS
  <2> DEFINE x == k * limit
  <2>2. x \in Nat /\ (k + 1) * limit = x + limit
    BY <2>1
  <2>3. f[k + 1] = f[k] \o PageOf(s, x, limit)
    <3>1. f[k + 1] = f[(k + 1) - 1] \o pages[k + 1]
      BY <1>3, <2>1
    <3>2. pages[k + 1] = PageOf(s, ((k + 1) - 1) * limit, limit)
      BY <1>1, <2>1
    <3> QED
      BY <2>1, <3>1, <3>2
  <2>4. ReadUpTo(s, limit, k) = SubSeq(s, 1, IF x =< L THEN x ELSE L)
    BY DEF ReadUpTo
  <2>5. ReadUpTo(s, limit, k + 1) = SubSeq(s, 1, IF x + limit =< L THEN x + limit ELSE L)
    BY <2>2 DEF ReadUpTo
  <2> HIDE DEF x, S
  <2>6. CASE x =< L
    <3>1. SubSeq(s, 1, x) \o PageOf(s, x, limit)
            = SubSeq(s, 1, IF x + limit =< L THEN x + limit ELSE L)
      BY <2>2, <2>6, PageIs
    <3> QED
      BY <2>1, <2>3, <2>4, <2>5, <2>6, <3>1
  <2>7. CASE ~ (x =< L)
    <3>1. x + 1 > L /\ ~ (x + limit =< L)
      BY <1>4, <2>2, <2>7
    <3>2. PageOf(s, x, limit) = <<>>
      <4>1. PageOf(s, x, limit) = SubSeq(s, x + 1, L)
        BY <3>1 DEF PageOf
      <4> QED
        BY <1>4, <2>2, <3>1, <4>1, SubSeqEmpty
    <3>3. SubSeq(s, 1, L) = s
      BY SubSeqFull
    <3>4. f[k] = s
      BY <2>1, <2>4, <2>7, <3>3
    <3>5. s \o <<>> = s
      BY ConcatEmptySeq
    <3> QED
      BY <2>3, <2>5, <3>1, <3>2, <3>3, <3>4, <3>5
  <2> QED
    BY <2>6, <2>7
<1>7. S = Nat
  <2>1. S \in SUBSET Nat
    OBVIOUS
  <2> HIDE DEF S
  <2> QED
    BY <1>5, <1>6, <2>1, Induction
<1>8. f[n] = ReadUpTo(s, limit, n)
  <2>1. n \in S
    BY <1>7
  <2> QED
    BY <2>1
<1> QED
  BY <1>3, <1>8 DEF pages

\* Enough pages are everything.
LEMMA PagesAreAll ==
  ASSUME NEW T, NEW s \in Seq(T), NEW limit \in Nat, NEW n \in Nat, Len(s) =< n * limit
  PROVE  Joined(Pages(s, limit, n)) = s
<1> DEFINE x == n * limit
           L == Len(s)
<1>1. x \in Nat /\ L \in Nat /\ L =< x
  OBVIOUS
<1>2. ReadUpTo(s, limit, n) = SubSeq(s, 1, IF x =< L THEN x ELSE L)
  BY DEF ReadUpTo
<1> HIDE DEF x
<1>3. (IF x =< L THEN x ELSE L) = L
  BY <1>1
<1>4. SubSeq(s, 1, L) = s
  BY SubSeqFull
<1> QED
  BY <1>2, <1>3, <1>4, PagesJoin

LEMMA PagesCover ==
  ASSUME NEW s \in Seq(Channels), NEW limit \in Nat, limit # 0
  PROVE  ReadInPages(s, limit) = s
<1> DEFINE n == Len(s)
<1>1. n \in Nat /\ DOMAIN s = 1..n
  OBVIOUS
<1>2. n =< n * limit
  <2>1. limit >= 1
    OBVIOUS
  <2>2. n * limit = n + n * (limit - 1) /\ n * (limit - 1) >= 0
    BY <1>1, <2>1
  <2> QED
    BY <1>1, <2>2
<1> HIDE DEF n
<1>3. ReadInPages(s, limit) = Joined(Pages(s, limit, n))
  BY <1>1 DEF ReadInPages, Pages
<1> QED
  BY <1>1, <1>2, <1>3, PagesAreAll DEF n

LEMMA ViewHolds ==
  ASSUME indexed \in Seq(IndexedChannel), Distinct(indexed)
  PROVE  ViewIsOwnSnapshot
<1> SUFFICES ASSUME NEW visible \in SUBSET Channels
             PROVE  LET view == CreateUserView(Build(indexed), visible)
                        own == Build(Selected(indexed, Visible(indexed, visible)))
                    IN  /\ [i \in DOMAIN view |-> view[i].name] = [i \in DOMAIN own |-> own[i].name]
                        /\ \A limit \in 1..Cardinality(Channels) :
                              {[c EXCEPT !.channels = ReadInPages(@, limit)] : c \in ToSet(view)} = ToSet(own)
  BY Zenon DEF ViewIsOwnSnapshot, Visible
<1> DEFINE V == Visible(indexed, visible)
           sub == Selected(indexed, V)
           view == CreateUserView(Build(indexed), visible)
           own == Build(sub)
           a == Ascending(V)
<1>1. GroupsOf(indexed, Len(indexed), Build(indexed)) /\ SortedByName(Build(indexed))
  BY SnapshotIs
<1>2. GroupsOf(sub, Len(sub), view) /\ SortedByName(view)
  BY <1>1, ViewIs
<1>3. V \in SUBSET (DOMAIN indexed)
  BY DEF Visible
<1>4. sub \in Seq(IndexedChannel) /\ Distinct(sub)
  <2>1. /\ sub \in Seq(IndexedChannel) /\ DOMAIN sub = 1..Cardinality(V)
        /\ a \in [1..Cardinality(V) -> V]
        /\ \A k \in 1..Cardinality(V) : sub[k] = indexed[a[k]]
        /\ \A k, l \in 1..Cardinality(V) : a[k] = a[l] => k = l
    <3> HIDE DEF V
    <3> QED
      BY <1>3, SelectedHas
  <2> HIDE DEF V, sub, a
  <2>2. Distinct(sub)
    <3> SUFFICES ASSUME NEW k \in DOMAIN sub, NEW l \in DOMAIN sub, sub[k].channel = sub[l].channel
                 PROVE  k = l
      BY DEF Distinct
    <3>1. /\ k \in 1..Cardinality(V) /\ a[k] \in DOMAIN indexed /\ sub[k] = indexed[a[k]]
          /\ l \in 1..Cardinality(V) /\ a[l] \in DOMAIN indexed /\ sub[l] = indexed[a[l]]
      BY <1>3, <2>1
    <3>2. a[k] = a[l]
      BY <3>1 DEF Distinct
    <3> QED
      BY <2>1, <3>1, <3>2
  <2> QED
    BY <2>1, <2>2
<1> HIDE DEF sub, view, V
<1>5. GroupsOf(sub, Len(sub), own) /\ SortedByName(own)
  BY <1>4, SnapshotIs
<1> HIDE DEF own
<1>6. /\ [i \in DOMAIN view |-> view[i].name] = [i \in DOMAIN own |-> own[i].name]
      /\ ToSet(view) = ToSet(own)
  BY <1>2, <1>5, SnapshotsAgree
<1>7. ASSUME NEW limit \in 1..Cardinality(Channels), NEW c \in ToSet(view)
      PROVE  [c EXCEPT !.channels = ReadInPages(@, limit)] = c
  <2>1. view \in Seq(Group)
    BY <1>2 DEF GroupsOf
  <2>2. c \in Group
    BY <2>1 DEF ToSet
  <2>3. c.channels \in Seq(Channels)
    BY <2>2 DEF Group
  <2>4. limit \in Nat /\ limit # 0
    BY <1>7
  <2>5. ReadInPages(c.channels, limit) = c.channels
    BY <2>3, <2>4, PagesCover
  <2> QED
    BY <2>2, <2>5 DEF Group
<1>8. \A limit \in 1..Cardinality(Channels) :
         {[c EXCEPT !.channels = ReadInPages(@, limit)] : c \in ToSet(view)} = ToSet(own)
  BY <1>6, <1>7
<1> QED
  BY <1>6, <1>8 DEF view, own, sub, V

-----------------------------------------------------------------------------
(* What the clients list: an entry is added, the first of every id kept,   *)
(* and what is left sorted.                                                *)

LEMMA InsertHas ==
  ASSUME NEW T, NEW s \in Seq(T), NEW place \in 1..(Len(s) + 1), NEW e \in T
  PROVE  /\ InsertAt(s, place, e) \in Seq(T)
         /\ ToSet(InsertAt(s, place, e)) = ToSet(s) \cup {e}
<1> DEFINE before == SubSeq(s, 1, place - 1)
           after == SubSeq(s, place, Len(s))
           r == InsertAt(s, place, e)
<1>1. /\ before \in Seq(T) /\ Len(before) = place - 1
      /\ \A i \in 1..(place - 1) : before[i] = s[i]
  OBVIOUS
<1>2. /\ after \in Seq(T) /\ Len(after) = Len(s) + 1 - place
      /\ \A i \in 1..(Len(s) + 1 - place) : after[i] = s[place + i - 1]
  OBVIOUS
<1>3. r = (before \o <<e>>) \o after
  BY DEF InsertAt
<1> HIDE DEF before, after, r
<1>4. /\ r \in Seq(T) /\ Len(r) = Len(s) + 1
      /\ \A i \in 1..(Len(s) + 1) :
            r[i] = IF i < place THEN s[i] ELSE IF i = place THEN e ELSE s[i - 1]
  <2>1. /\ before \o <<e>> \in Seq(T) /\ Len(before \o <<e>>) = place
        /\ \A i \in 1..place : (before \o <<e>>)[i] = IF i < place THEN s[i] ELSE e
    BY <1>1
  <2> DEFINE b == before \o <<e>>
  <2> HIDE DEF b
  <2>2. /\ b \o after \in Seq(T) /\ Len(b \o after) = place + Len(after)
        /\ \A i \in 1..place : (b \o after)[i] = b[i]
        /\ \A i \in (place + 1)..(place + Len(after)) : (b \o after)[i] = after[i - place]
    BY <1>2, <2>1 DEF b
  <2>3. r = b \o after /\ Len(after) = Len(s) + 1 - place
    BY <1>2, <1>3 DEF b
  <2>4. \A i \in 1..place : r[i] = IF i < place THEN s[i] ELSE e
    BY <2>1, <2>2, <2>3 DEF b
  <2>5. ASSUME NEW i \in (place + 1)..(Len(s) + 1) PROVE r[i] = s[i - 1]
    <3>1. i \in (place + 1)..(place + Len(after)) /\ i - place \in 1..(Len(s) + 1 - place)
      BY <2>3
    <3>2. r[i] = after[i - place]
      BY <2>2, <2>3, <3>1
    <3>3. place + (i - place) - 1 = i - 1
      OBVIOUS
    <3> QED
      BY <1>2, <3>1, <3>2, <3>3
  <2>6. r \in Seq(T) /\ Len(r) = Len(s) + 1
    BY <2>2, <2>3
  <2> HIDE DEF b
  <2> QED
    BY <2>4, <2>5, <2>6
<1>5. ToSet(r) = {r[i] : i \in 1..(Len(s) + 1)} /\ ToSet(s) = {s[i] : i \in 1..Len(s)}
  <2>1. DOMAIN r = 1..(Len(s) + 1) /\ DOMAIN s = 1..Len(s)
    BY <1>4
  <2> QED
    BY <2>1, Zenon DEF ToSet
<1>6. ASSUME NEW i \in 1..(Len(s) + 1) PROVE r[i] \in ToSet(s) \cup {e}
  BY <1>4, <1>5
<1>7. ASSUME NEW i \in 1..Len(s) PROVE s[i] \in ToSet(r)
  <2>1. CASE i < place
    BY <1>4, <1>5, <2>1
  <2>2. CASE ~ (i < place)
    <3>1. i + 1 \in 1..(Len(s) + 1) /\ r[i + 1] = s[i]
      BY <1>4, <2>2
    <3> QED
      BY <1>5, <3>1
  <2> QED
    BY <2>1, <2>2
<1>8. e \in ToSet(r)
  BY <1>4, <1>5
<1>9. ToSet(r) = ToSet(s) \cup {e}
  BY <1>5, <1>6, <1>7, <1>8
<1> QED
  BY <1>4, <1>9 DEF r

LEMMA FirstKept ==
  ASSUME NEW E, NEW entries \in Seq(E), NEW accepted
  PROVE  LET kept == KeepFirst(entries, accepted)
         IN  /\ kept \in Seq(E)
             /\ \A k \in DOMAIN kept : kept[k] \in accepted \cap ToSet(entries)
             /\ \A e \in accepted \cap ToSet(entries) :
                   \E k \in DOMAIN kept : kept[k].id = e.id
             /\ \A k, l \in DOMAIN kept : kept[k].id = kept[l].id => k = l
<1> DEFINE places == {i \in DOMAIN entries : entries[i] \in accepted}
           first == {i \in places : \A j \in places : j < i => entries[j].id # entries[i].id}
           kept == Selected(entries, first)
           a == Ascending(first)
           c == Cardinality(first)
<1>1. KeepFirst(entries, accepted) = kept
  BY DEF KeepFirst
<1>2. first \in SUBSET (DOMAIN entries) /\ DOMAIN entries \in SUBSET Nat
  OBVIOUS
<1>3. /\ c \in Nat /\ kept \in Seq(E) /\ DOMAIN kept = 1..c
      /\ a \in [1..c -> first]
      /\ \A k \in 1..c : kept[k] = entries[a[k]]
      /\ \A i \in first : \E k \in 1..c : a[k] = i
      /\ \A k, l \in 1..c : k < l => a[k] < a[l]
  <2> HIDE DEF first
  <2> QED
    BY <1>2, SelectedHas
<1>4. first \subseteq places
  OBVIOUS
<1>5. \A i, j \in first : j < i => entries[j].id # entries[i].id
  OBVIOUS
<1>6. \A i \in places : \E j \in first : entries[j].id = entries[i].id
  <2> TAKE i \in places
  <2> DEFINE same == {j \in places : entries[j].id = entries[i].id}
  <2>1. same \in SUBSET Nat /\ same # {}
    BY <1>2
  <2>2. PICK j \in same : \A m \in same : j =< m
    <3> HIDE DEF same
    <3> QED
      BY <2>1, LeastNumber
  <2>3. j \in places /\ entries[j].id = entries[i].id
    OBVIOUS
  <2>4. ASSUME NEW m \in places, m < j PROVE entries[m].id # entries[j].id
    <3>1. m \in Nat /\ j \in Nat
      BY <1>2, <2>3
    <3> QED
      BY <2>2, <2>3, <2>4, <3>1
  <2>5. j \in first
    BY <2>3, <2>4
  <2> QED
    BY <2>3, <2>5
<1>7. \A i \in places : entries[i] \in accepted \cap ToSet(entries)
  BY DEF ToSet
<1>8. \A e \in accepted \cap ToSet(entries) : \E i \in places : entries[i] = e
  BY DEF ToSet
<1> HIDE DEF places, first, kept, a, c
<1>9. \A k \in DOMAIN kept : kept[k] \in accepted \cap ToSet(entries)
  BY <1>3, <1>4, <1>7
<1>10. ASSUME NEW e \in accepted \cap ToSet(entries)
       PROVE  \E k \in DOMAIN kept : kept[k].id = e.id
  <2>1. PICK i \in places : entries[i] = e
    BY <1>8
  <2>2. PICK j \in first : entries[j].id = e.id
    BY <1>6, <2>1
  <2>3. PICK k \in 1..c : a[k] = j
    BY <1>3
  <2>4. k \in DOMAIN kept /\ kept[k] = entries[j]
    BY <1>3, <2>3
  <2> QED
    BY <2>2, <2>4
<1>11. ASSUME NEW k \in DOMAIN kept, NEW l \in DOMAIN kept, kept[k].id = kept[l].id
       PROVE  k = l
  <2>1. k \in 1..c /\ l \in 1..c /\ a[k] \in first /\ a[l] \in first
    BY <1>3
  <2>2. ~ (a[k] < a[l]) /\ ~ (a[l] < a[k])
    BY <1>3, <1>5, <1>11, <2>1
  <2>3. ~ (k < l) /\ ~ (l < k)
    BY <1>3, <2>1, <2>2
  <2>4. k \in Nat /\ l \in Nat
    BY <2>1
  <2> QED
    BY <2>3, <2>4
<1> QED
  BY <1>1, <1>3, <1>9, <1>10, <1>11 DEF kept

\* A sequence in another order.
Rearranged(s, t) ==
    \E order \in [DOMAIN t -> DOMAIN t] :
        /\ \A i \in DOMAIN t : \E j \in DOMAIN t : order[j] = i
        /\ \A i, j \in DOMAIN t : order[i] = order[j] => i = j
        /\ s = [i \in DOMAIN t |-> t[order[i]]]

LEMMA SortedHas ==
  ASSUME NEW rank \in [Names -> Nat], NEW E, NEW entries \in Seq(E),
         \A i \in DOMAIN entries : entries[i].name \in Names \cup {Blank}
  PROVE  Rearranged(SortedBy(rank, entries), entries)
<1> DEFINE D == DOMAIN entries
           place(i) == IF entries[i].name = Blank THEN -1 ELSE rank[entries[i].name]
           precedes == {pair \in D \X D :
                           \/ place(pair[1]) < place(pair[2])
                           \/ place(pair[1]) = place(pair[2]) /\ pair[1] < pair[2]}
           order == InOrder(D, precedes)
<1>1. SortedBy(rank, entries) = [n \in D |-> entries[order[n]]]
  BY DEF SortedBy
<1>2. \A i \in D : place(i) \in Int
  OBVIOUS
<1>3. \A i, j \in D : <<i, j>> \in precedes <=>
                         \/ place(i) < place(j)
                         \/ place(i) = place(j) /\ i < j
  OBVIOUS
<1>4. D = 1..Len(entries) /\ Len(entries) \in Nat
  OBVIOUS
<1>5. IsFiniteSet(D) /\ Cardinality(D) = Len(entries)
  <2> DEFINE n == Len(entries)
  <2>1. D = 1..n /\ n \in Nat
    OBVIOUS
  <2> HIDE DEF n, D
  <2>2. IsFiniteSet(1..n) /\ Cardinality(1..n) = n
    BY <2>1, FS_Interval
  <2> QED
    BY <2>1, <2>2 DEF n
<1> HIDE DEF place, precedes, D
<1>6. StrictOrder(D, precedes)
  <2>1. \A i \in D : i \in Nat
    BY <1>4
  <2> QED
    BY <1>2, <1>3, <2>1 DEF StrictOrder
<1> HIDE DEF order
<1>7. /\ order \in [1..Cardinality(D) -> D]
      /\ \A i \in D : \E j \in 1..Cardinality(D) : order[j] = i
      /\ \A i, j \in 1..Cardinality(D) : order[i] = order[j] => i = j
  BY <1>5, <1>6, InOrderOrders DEF order
<1>8. 1..Cardinality(D) = D
  BY <1>4, <1>5
<1>9. /\ order \in [D -> D]
      /\ \A i \in D : \E j \in D : order[j] = i
      /\ \A i, j \in D : order[i] = order[j] => i = j
  BY <1>7, <1>8
<1>10. \E o \in [D -> D] : /\ \A i \in D : \E j \in D : o[j] = i
                           /\ \A i, j \in D : o[i] = o[j] => i = j
                           /\ SortedBy(rank, entries) = [i \in D |-> entries[o[i]]]
  BY <1>1, <1>9, Zenon
<1> QED
  BY <1>10, Zenon DEF Rearranged, D

LEMMA RearrangedHas ==
  ASSUME NEW T, NEW t \in Seq(T), NEW s, Rearranged(s, t)
  PROVE  /\ s \in Seq(T) /\ Len(s) = Len(t) /\ DOMAIN s = DOMAIN t /\ ToSet(s) = ToSet(t)
         /\ (\A i, j \in DOMAIN t : t[i].id = t[j].id => i = j)
               => \A i, j \in DOMAIN s : s[i].id = s[j].id => i = j
<1>1. PICK order \in [DOMAIN t -> DOMAIN t] :
         /\ \A i \in DOMAIN t : \E j \in DOMAIN t : order[j] = i
         /\ \A i, j \in DOMAIN t : order[i] = order[j] => i = j
         /\ s = [i \in DOMAIN t |-> t[order[i]]]
  BY DEF Rearranged
<1>2. \A i \in DOMAIN t : order[i] \in DOMAIN t /\ s[i] = t[order[i]] /\ t[i] \in T
  BY <1>1
<1>3. DOMAIN s = DOMAIN t
  BY <1>1
<1>4. Len(t) \in Nat /\ DOMAIN t = 1..Len(t)
  OBVIOUS
<1>5. s \in [1..Len(t) -> T]
  BY <1>1, <1>2, <1>4
<1>6. s \in Seq(T) /\ Len(s) = Len(t)
  BY <1>4, <1>5
<1>7. ToSet(s) = ToSet(t)
  BY <1>1, <1>2, <1>3 DEF ToSet
<1>8. ASSUME \A i, j \in DOMAIN t : t[i].id = t[j].id => i = j,
             NEW i \in DOMAIN s, NEW j \in DOMAIN s, s[i].id = s[j].id
      PROVE  i = j
  BY <1>1, <1>2, <1>3, <1>8
<1> QED
  BY <1>3, <1>6, <1>7, <1>8

\* What becomes of the entries a client accepts.
ListsAll(list, entries, accepted) ==
    /\ ToSet(list) \subseteq accepted \cap ToSet(entries)
    /\ \A e \in accepted \cap ToSet(entries) : e.id \in Ids(list)
    /\ Cardinality(Ids(list)) = Len(list)

LEMMA ListIs ==
  ASSUME NEW rank \in [Names -> Nat], NEW E, NEW entries \in Seq(E), NEW accepted,
         \A e \in accepted \cap ToSet(entries) : e.name \in Names \cup {Blank}
  PROVE  ListsAll(SortedBy(rank, KeepFirst(entries, accepted)), entries, accepted)
<1> DEFINE kept == KeepFirst(entries, accepted)
           list == SortedBy(rank, kept)
           m == Len(list)
<1>1. /\ kept \in Seq(E)
      /\ \A k \in DOMAIN kept : kept[k] \in accepted \cap ToSet(entries)
      /\ \A e \in accepted \cap ToSet(entries) : \E k \in DOMAIN kept : kept[k].id = e.id
      /\ \A k, l \in DOMAIN kept : kept[k].id = kept[l].id => k = l
  BY FirstKept
<1> HIDE DEF kept
<1>2. Rearranged(list, kept)
  BY <1>1, SortedHas
<1> HIDE DEF list
<1>3. /\ list \in Seq(E) /\ DOMAIN list = DOMAIN kept /\ ToSet(list) = ToSet(kept)
      /\ \A i, j \in DOMAIN list : list[i].id = list[j].id => i = j
  BY <1>1, <1>2, RearrangedHas
<1>4. ToSet(list) \subseteq accepted \cap ToSet(entries)
  <2>1. \A e \in ToSet(kept) : \E k \in DOMAIN kept : e = kept[k]
    BY DEF ToSet
  <2> QED
    BY <1>1, <1>3, <2>1
<1>5. ASSUME NEW e \in accepted \cap ToSet(entries) PROVE e.id \in Ids(list)
  <2>1. PICK k \in DOMAIN kept : kept[k].id = e.id
    BY <1>1
  <2>2. kept[k] \in ToSet(list)
    BY <1>3 DEF ToSet
  <2>3. PICK i \in DOMAIN list : list[i] = kept[k]
    BY <2>2 DEF ToSet
  <2> QED
    BY <2>1, <2>3 DEF Ids
<1>6. m \in Nat /\ DOMAIN list = 1..m
  BY <1>3
<1> HIDE DEF m
<1>7. Cardinality(Ids(list)) = m
  <2> DEFINE f == [i \in 1..m |-> list[i].id]
  <2>1. f \in [1..m -> Ids(list)] /\ \A i \in 1..m : f[i] = list[i].id
    BY <1>6 DEF Ids
  <2>2. \A i, j \in 1..m : f[i] = f[j] => i = j
    BY <1>3, <1>6, <2>1
  <2>3. \A id \in Ids(list) : \E i \in 1..m : f[i] = id
    BY <1>6, <2>1 DEF Ids
  <2> HIDE DEF f
  <2>4. f \in Bijection(1..m, Ids(list))
    BY <2>1, <2>2, <2>3, Fun_IsBij
  <2>5. ExistsBijection(1..m, Ids(list))
    BY <2>4 DEF ExistsBijection
  <2>6. IsFiniteSet(1..m) /\ Cardinality(1..m) = m
    BY <1>6, FS_Interval
  <2> QED
    BY <2>5, <2>6, FS_Bijection
<1> QED
  BY <1>4, <1>5, <1>7 DEF ListsAll, list, kept, m

\* What the service sends.
Entry == [id : PluginIds, name : Names, count : Nat]

LEMMA SentTyped ==
  ASSUME indexed \in Seq(IndexedChannel), Distinct(indexed)
  PROVE  Sent \in Seq(Entry)
<1> DEFINE view == Build(indexed)
           m == Len(view)
<1>1. view \in Seq(Group)
  BY SnapshotIs DEF GroupsOf
<1> HIDE DEF view
<1>2. m \in Nat /\ DOMAIN view = 1..m
  BY <1>1
<1> HIDE DEF m
<1>3. ASSUME NEW i \in 1..m PROVE Summary(view[i]) \in Entry
  <2>1. view[i] \in Group
    BY <1>1, <1>2
  <2>2. view[i].id \in PluginIds /\ view[i].name \in Names /\ view[i].channels \in Seq(Channels)
    BY <2>1 DEF Group
  <2>3. Len(view[i].channels) \in Nat
    BY <2>2
  <2> QED
    BY <2>2, <2>3 DEF Summary, Entry
<1>4. Sent = [i \in 1..m |-> Summary(view[i])]
  BY <1>2, Zenon DEF Sent, Answer, view
<1>5. Sent \in [1..m -> Entry]
  BY <1>3, <1>4
<1> QED
  BY <1>2, <1>5

\* No client has a reason to refuse what the service sends.
LEMMA EntryUsable ==
  ASSUME NEW e \in Entry
  PROVE  /\ Usable(e) /\ e # None /\ e.count >= 0
         /\ e.id # AllChannels /\ e.name \in Names
<1>1. e.id \in PluginIds /\ e.name \in Names /\ e.count \in Nat /\ e # None
  BY IdAssumption DEF Entry
<1>2. e.id # AllChannels /\ e.id # Blank /\ e.name # Blank
  BY <1>1, IdAssumption, ClientAssumption
<1> QED
  BY <1>1, <1>2 DEF Usable

\* The additional entry is nothing, or has a name.
LEMMA JunkNamed ==
  ASSUME Sent \in Seq(Entry), NEW junk \in Junk
  PROVE  junk # None => junk.name \in Names \cup {Blank}
<1>1. \A e \in ToSet(Sent) : e \in Entry
  BY DEF ToSet
<1>2. CASE junk = [id |-> AllChannels, name |-> Uncategorised, count |-> 1]
  BY <1>2, NamesAssumption
<1>3. CASE \E e \in ToSet(Sent) : \/ junk = [e EXCEPT !.name = Blank]
                                  \/ junk = [e EXCEPT !.count = -1]
                                  \/ junk = [e EXCEPT !.count = e.count + 1]
  BY <1>1, <1>3 DEF Entry
<1> QED
  BY <1>2, <1>3 DEF Junk

\* A list has every category once, and nothing that was not sent or added.
Complete(list, junk) ==
    /\ Ids(Sent) \subseteq Ids(list)
    /\ Cardinality(Ids(list)) = Len(list)
    /\ ToSet(list) \subseteq ToSet(Sent) \cup {junk}

LEMMA ClientListIs ==
  ASSUME Sent \in Seq(Entry), NEW junk \in Junk, NEW place \in 1..(Len(Sent) + 1),
         NEW rank \in [Names -> Nat],
         NEW accepted, None \notin accepted, ToSet(Sent) \subseteq accepted
  PROVE  LET entries == InsertAt(Sent, place, junk)
             list == SortedBy(rank, KeepFirst(entries, accepted))
         IN  Complete(list, junk) /\ ToSet(list) \subseteq accepted
<1> DEFINE entries == InsertAt(Sent, place, junk)
           list == SortedBy(rank, KeepFirst(entries, accepted))
           E == Entry \cup {junk}
<1>1. Sent \in Seq(E)
  OBVIOUS
<1>2. junk \in E
  OBVIOUS
<1> HIDE DEF E
<1>3. entries \in Seq(E) /\ ToSet(entries) = ToSet(Sent) \cup {junk}
  BY <1>1, <1>2, InsertHas
<1> HIDE DEF entries
<1>4. \A e \in accepted \cap ToSet(entries) : e.name \in Names \cup {Blank}
  <2> TAKE e \in accepted \cap ToSet(entries)
  <2>1. CASE e = junk
    BY <2>1, JunkNamed
  <2>2. CASE e \in ToSet(Sent)
    <3>1. e \in Entry
      BY <2>2 DEF ToSet
    <3> QED
      BY <3>1, EntryUsable
  <2> QED
    BY <1>3, <2>1, <2>2
<1>5. ListsAll(list, entries, accepted)
  BY <1>3, <1>4, ListIs
<1> HIDE DEF list
<1>6. ASSUME NEW i \in DOMAIN Sent PROVE Sent[i].id \in Ids(list)
  <2>1. Sent[i] \in ToSet(Sent)
    BY DEF ToSet
  <2> QED
    BY <1>3, <1>5, <2>1 DEF ListsAll
<1>7. Ids(Sent) \subseteq Ids(list)
  BY <1>6 DEF Ids
<1>8. Cardinality(Ids(list)) = Len(list) /\ ToSet(list) \subseteq accepted \cap ToSet(entries)
  BY <1>5 DEF ListsAll
<1>9. Complete(list, junk) /\ ToSet(list) \subseteq accepted
  BY <1>3, <1>7, <1>8 DEF Complete
<1> QED
  BY <1>9 DEF list, entries

LEMMA ListsHold ==
  ASSUME indexed \in Seq(IndexedChannel), Distinct(indexed)
  PROVE  ListsAreComplete
<1> SUFFICES ASSUME NEW junk \in Junk, NEW place \in 1..(Len(Sent) + 1), NEW client \in Clients
             PROVE  LET entries == InsertAt(Sent, place, junk)
                        list == ListOf(client, entries)
                        shown == list.entries
                    IN  IF list.error THEN client = "service" /\ ~ Usable(junk)
                        ELSE /\ Ids(Sent) \subseteq Ids(shown)
                             /\ Cardinality(Ids(shown)) = Len(shown)
                             /\ ToSet(shown) \subseteq ToSet(Sent) \cup {junk}
                             /\ client # "overlay" /\ junk \in ToSet(shown) => Usable(junk)
                             /\ client = "standalone" => AllChannels \notin Ids(shown)
  BY Zenon DEF ListsAreComplete
<1> DEFINE entries == InsertAt(Sent, place, junk)
           listed(rank, accepted) == SortedBy(rank, KeepFirst(entries, accepted))
<1>1. Sent \in Seq(Entry)
  BY SentTyped
<1>2. \A e \in ToSet(Sent) :
         Usable(e) /\ e # None /\ e.count >= 0 /\ e.id # AllChannels
  <2> TAKE e \in ToSet(Sent)
  <2>1. e \in Entry
    BY <1>1 DEF ToSet
  <2> QED
    BY <2>1, EntryUsable
<1>3. ToSet(entries) = ToSet(Sent) \cup {junk}
  <2> DEFINE E == Entry \cup {junk}
  <2>1. Sent \in Seq(E) /\ junk \in E
    BY <1>1
  <2> HIDE DEF E
  <2> QED
    BY <2>1, InsertHas
<1>4. ASSUME NEW rank \in [Names -> Nat], NEW accepted,
             None \notin accepted, ToSet(Sent) \subseteq accepted
      PROVE  /\ Complete(listed(rank, accepted), junk)
             /\ ToSet(listed(rank, accepted)) \subseteq accepted
  BY <1>1, <1>4, ClientListIs
<1> HIDE DEF entries, listed
<1>5. /\ Collation \in [Names -> Nat] /\ LowerCollation \in [Names -> Nat]
      /\ Accepted(entries) = {e \in ToSet(entries) : Usable(e)}
      /\ None \notin Accepted(entries) /\ ToSet(Sent) \subseteq Accepted(entries)
  BY <1>2, <1>3, ClientAssumption DEF Accepted, Usable
<1>6. CASE client = "standalone"
  <2> DEFINE accepted == {e \in Accepted(entries) : e.id # AllChannels}
             list == listed(LowerCollation, accepted)
  <2>1. None \notin accepted /\ ToSet(Sent) \subseteq accepted
    BY <1>2, <1>5
  <2>2. ListOf(client, entries) = [error |-> FALSE, entries |-> list]
    BY <1>6 DEF ListOf, StandaloneCategories, Listed, listed
  <2>3. \A e \in accepted : Usable(e) /\ e.id # AllChannels
    BY <1>5
  <2> HIDE DEF accepted
  <2>4. Complete(list, junk) /\ ToSet(list) \subseteq accepted
    BY <1>4, <1>5, <2>1
  <2> HIDE DEF list
  <2>5. AllChannels \notin Ids(list)
    <3>1. \A i \in DOMAIN list : list[i] \in ToSet(list)
      BY DEF ToSet
    <3> QED
      BY <2>3, <2>4, <3>1 DEF Ids
  <2> QED
    BY <1>6, <2>2, <2>3, <2>4, <2>5 DEF Complete, entries
<1>7. ASSUME NEW list, list = listed(Collation, Accepted(entries))
      PROVE  Complete(list, junk) /\ (junk \in ToSet(list) => Usable(junk))
  <2>1. Complete(list, junk) /\ ToSet(list) \subseteq Accepted(entries)
    BY <1>4, <1>5, <1>7
  <2> QED
    BY <1>5, <2>1
<1>8. CASE client = "integration"
  <2>1. ListOf(client, entries) = [error |-> FALSE, entries |-> listed(Collation, Accepted(entries))]
    BY <1>8 DEF ListOf, NormalizeCategories, Listed, listed
  <2> QED
    BY <1>7, <1>8, <2>1 DEF Complete, entries
<1>9. CASE client = "overlay"
  <2> DEFINE counted == {e \in ToSet(entries) \ {None} : e.count >= 0}
             list == listed(Collation, counted)
  <2>1. None \notin counted /\ ToSet(Sent) \subseteq counted
    BY <1>2, <1>3
  <2>2. ListOf(client, entries) = [error |-> FALSE, entries |-> list]
    BY <1>9 DEF ListOf, OverlayCategories, Listed, listed
  <2> HIDE DEF counted
  <2>3. Complete(list, junk)
    BY <1>4, <1>5, <2>1
  <2> HIDE DEF list
  <2> QED
    BY <1>9, <2>2, <2>3 DEF Complete, entries
<1>10. CASE client = "service"
  <2>1. CASE \A e \in ToSet(entries) : Usable(e)
    <3>1. ListOf(client, entries) = [error |-> FALSE, entries |-> listed(Collation, Accepted(entries))]
      BY <1>10, <2>1 DEF ListOf, LandingEntries, NormalizeCategories, Listed, listed
    <3> QED
      BY <1>7, <1>10, <3>1 DEF Complete, entries
  <2>2. CASE ~ \A e \in ToSet(entries) : Usable(e)
    <3>1. ~ Usable(junk)
      BY <1>2, <1>3, <2>2
    <3>2. ListOf(client, entries).error
      BY <1>10, <2>2 DEF ListOf, LandingEntries, Unavailable
    <3> QED
      BY <1>10, <3>1, <3>2 DEF entries
  <2> QED
    BY <2>1, <2>2
<1> QED
  BY <1>6, <1>8, <1>9, <1>10 DEF Clients

-----------------------------------------------------------------------------
(* The pages the clients ask for. *)

LEMMA LimitIsValid ==
  ASSUME NEW client \in Clients, NEW configured \in Int
  PROVE  LimitOf(client, configured) \in 1..MaxLimit
  BY ClientAssumption DEF LimitOf, Clients, CategoryPageSize, OverlayPageSize, RequestedLimit, AtMost

LEMMA MultipleOf ==
  ASSUME NEW limit \in Nat \ {0}
  PROVE  /\ \A q \in Nat : (q * limit) % limit = 0
         /\ \A n \in Nat : n % limit = 0 => \E q \in Nat : n = q * limit
<1>1. ASSUME NEW q \in Nat PROVE (q * limit) % limit = 0
  OBVIOUS
<1>2. ASSUME NEW n \in Nat, n % limit = 0 PROVE \E q \in Nat : n = q * limit
  <2>1. n \div limit \in Nat /\ n = (n \div limit) * limit
    BY <1>2
  <2> QED
    BY <2>1
<1> QED
  BY <1>1, <1>2

LEMMA MultiplesOrdered ==
  ASSUME NEW limit \in Nat \ {0}, NEW p \in Nat, NEW q \in Nat
  PROVE  (p < q => p * limit < q * limit) /\ (p =< q => p * limit =< q * limit)
<1>1. q * limit = p * limit + (q - p) * limit /\ p * limit \in Nat
  OBVIOUS
<1>2. ASSUME p < q PROVE p * limit < q * limit
  <2> DEFINE d == q - p
  <2>1. d \in Nat /\ d # 0
    BY <1>2
  <2> HIDE DEF d
  <2>2. d * limit \in Nat /\ d * limit # 0
    BY <2>1
  <2> QED
    BY <1>1, <2>2 DEF d
<1> QED
  BY <1>2

\* As many pages as it takes.
Covers(m, limit, length) ==
    /\ m \in Nat /\ m # 0
    /\ length =< m * limit
    /\ \A k \in 1..(m - 1) : k * limit < length

LEMMA PagesNeeded ==
  ASSUME NEW limit \in Nat \ {0}, NEW length \in Nat
  PROVE  \E m : Covers(m, limit, length)
<1> DEFINE S == {k \in Nat : k # 0 /\ length =< k * limit}
<1>1. length + 1 \in S
  <2>1. limit >= 1 /\ (length + 1) * limit = (length + 1) + (length + 1) * (limit - 1)
    OBVIOUS
  <2>2. (length + 1) * (limit - 1) >= 0
    BY <2>1
  <2> QED
    BY <2>1, <2>2
<1>2. PICK m \in S : \A k \in S : m =< k
  <2>1. S \in SUBSET Nat /\ S # {}
    BY <1>1
  <2> HIDE DEF S
  <2> QED
    BY <2>1, LeastNumber
<1>3. ASSUME NEW k \in 1..(m - 1) PROVE k * limit < length
  <2>1. k \in Nat /\ k # 0 /\ k \notin S
    BY <1>2
  <2>2. k * limit \in Nat
    BY <2>1
  <2> QED
    BY <2>1, <2>2
<1> QED
  BY <1>2, <1>3 DEF Covers

LEMMA StartsAre ==
  ASSUME NEW s \in Seq(Channels), NEW limit \in Nat \ {0}, NEW m, Covers(m, limit, Len(s))
  PROVE  /\ Cardinality(PageStarts(limit, s)) = m
         /\ Ascending(PageStarts(limit, s)) = [k \in 1..m |-> (k - 1) * limit]
<1> DEFINE starts == PageStarts(limit, s)
           L == Len(s)
           q == [k \in 1..m |-> (k - 1) * limit]
<1>1. /\ L \in Nat /\ m \in Nat /\ m # 0 /\ L =< m * limit
      /\ \A k \in 1..(m - 1) : k * limit < L
  BY DEF Covers
<1>2. starts = {start \in 0..L :
                  /\ start % limit = 0
                  /\ \A earlier \in 0..(start - 1) : earlier % limit = 0 => earlier + limit < L}
  BY DEF PageStarts, HasNext, PageAnswer
<1> HIDE DEF starts, L
<1>3. ASSUME NEW k \in 1..m PROVE q[k] = (k - 1) * limit /\ (k - 1) * limit \in starts
  <2> DEFINE x == (k - 1) * limit
  <2>1. k - 1 \in Nat /\ x \in Nat
    OBVIOUS
  <2>2. x =< L
    <3>1. CASE k = 1
      BY <1>1, <3>1
    <3>2. CASE k - 1 \in 1..(m - 1)
      BY <1>1, <3>2
    <3> QED
      BY <1>1, <3>1, <3>2
  <2>3. x % limit = 0
    BY <2>1, MultipleOf
  <2>4. ASSUME NEW earlier \in 0..(x - 1), earlier % limit = 0 PROVE earlier + limit < L
    <3>1. earlier \in Nat
      BY <2>1
    <3>2. PICK p \in Nat : earlier = p * limit
      BY <2>4, <3>1, MultipleOf
    <3>3. p < k - 1
      <4>1. earlier < x
        BY <2>1
      <4>2. k - 1 =< p => x =< p * limit
        BY <2>1, MultiplesOrdered
      <4>3. p * limit \in Nat
        OBVIOUS
      <4> HIDE DEF x
      <4> QED
        BY <2>1, <3>2, <4>1, <4>2, <4>3
    <3>4. p + 1 \in 1..(m - 1) /\ (p + 1) * limit = earlier + limit
      BY <1>1, <2>1, <3>2, <3>3
    <3> QED
      BY <1>1, <3>4
  <2> HIDE DEF x
  <2>5. x \in starts
    BY <1>1, <1>2, <2>1, <2>2, <2>3, <2>4
  <2> QED
    BY <2>5 DEF x
<1>4. ASSUME NEW start \in starts PROVE \E k \in 1..m : (k - 1) * limit = start
  <2>1. /\ start \in Nat /\ start % limit = 0
        /\ \A earlier \in 0..(start - 1) : earlier % limit = 0 => earlier + limit < L
    BY <1>1, <1>2
  <2>2. PICK p \in Nat : start = p * limit
    BY <2>1, MultipleOf
  <2>3. p < m
    <3> SUFFICES ASSUME m =< p PROVE FALSE
      BY <1>1
    <3> DEFINE before == (m - 1) * limit
    <3>1. m - 1 \in Nat /\ m - 1 < p
      BY <1>1, <2>2
    <3>2. before \in Nat /\ before % limit = 0 /\ before < start
      <4>1. before \in Nat
        BY <3>1
      <4>2. before % limit = 0
        BY <3>1, MultipleOf
      <4>3. before < p * limit
        BY <3>1, MultiplesOrdered
      <4> QED
        BY <2>2, <4>1, <4>2, <4>3
    <3>3. before + limit = m * limit
      BY <1>1, <3>1
    <3> HIDE DEF before
    <3>4. before \in 0..(start - 1)
      BY <2>1, <3>2
    <3>5. before + limit < L
      BY <2>1, <3>2, <3>4
    <3> QED
      BY <1>1, <3>3, <3>5
  <2>4. p + 1 \in 1..m /\ (p + 1) - 1 = p
    BY <1>1, <2>3
  <2> QED
    BY <2>2, <2>4
<1>5. starts \in SUBSET Int /\ IsFiniteSet(starts)
  <2>1. starts \subseteq 0..L
    BY <1>2
  <2>2. IsFiniteSet(0..L)
    BY <1>1, FS_Interval
  <2>3. IsFiniteSet(starts)
    BY <2>1, <2>2, FS_Subset, Zenon
  <2> QED
    BY <1>1, <2>1, <2>3
<1>6. q \in [1..m -> starts]
  BY <1>3
<1>7. \A x \in starts : \E k \in 1..m : q[k] = x
  BY <1>3, <1>4
<1>8. ASSUME NEW k \in 1..m, NEW l \in 1..m, k < l PROVE q[k] < q[l]
  <2>1. k - 1 \in Nat /\ l - 1 \in Nat /\ k - 1 < l - 1
    BY <1>8
  <2>2. (k - 1) * limit < (l - 1) * limit
    BY <2>1, MultiplesOrdered
  <2> QED
    BY <1>3, <2>2
<1> HIDE DEF q
<1>9. q = Ascending(starts) /\ m = Cardinality(starts)
  BY <1>1, <1>5, <1>6, <1>7, <1>8, AscendingIsUnique
<1> QED
  BY <1>9 DEF q, starts

\* To select everything changes nothing.
LEMMA SelectAll ==
  ASSUME NEW T, NEW s \in Seq(T)
  PROVE  Selected(s, DOMAIN s) = s
<1> DEFINE n == Len(s)
           q == [k \in 1..n |-> k]
<1>1. n \in Nat /\ DOMAIN s = 1..n /\ s = [k \in 1..n |-> s[k]]
  OBVIOUS
<1> HIDE DEF n
<1>2. IsFiniteSet(1..n) /\ 1..n \in SUBSET Int
  <2>1. 1 \in Int /\ n \in Int
    BY <1>1
  <2>2. IsFiniteSet(1..n)
    BY <2>1, FS_Interval
  <2> QED
    BY <2>2
<1>3. /\ q \in [1..n -> 1..n]
      /\ \A x \in 1..n : \E i \in 1..n : q[i] = x
      /\ \A i, j \in 1..n : i < j => q[i] < q[j]
      /\ \A i \in 1..n : q[i] = i
  OBVIOUS
<1> HIDE DEF q
<1>4. q = Ascending(1..n) /\ n = Cardinality(1..n)
  BY <1>1, <1>2, <1>3, AscendingIsUnique
<1>5. Selected(s, 1..n) = [k \in 1..n |-> s[q[k]]]
  BY <1>4 DEF Selected
<1> QED
  BY <1>1, <1>3, <1>5

\* The rows of a page the service gives are its items, whatever the client.
LEMMA RowsAre ==
  ASSUME NEW s \in Seq(Channels), NEW start \in Nat, NEW limit \in Nat, NEW client
  PROVE  RowsOf(client, PageAnswer(s, start, limit)) = PageOf(s, start, limit)
<1> DEFINE items == PageOf(s, start, limit)
<1>1. items \in Seq(Channels)
  BY PageTyped
<1>2. PageAnswer(s, start, limit).items = items
  BY DEF PageAnswer
<1> HIDE DEF items
<1>3. {i \in DOMAIN items : items[i] # None} = DOMAIN items
  <2>1. \A i \in DOMAIN items : items[i] \in Channels
    BY <1>1
  <2> QED
    BY <2>1, PersistedAssumption
<1>4. Selected(items, DOMAIN items) = items
  BY <1>1, SelectAll
<1> QED
  BY <1>2, <1>3, <1>4 DEF RowsOf, items

LEMMA PagesHold ==
  ASSUME indexed \in Seq(IndexedChannel), Distinct(indexed)
  PROVE  PagesAreReadable
<1> SUFFICES ASSUME NEW client \in Clients, NEW configured \in -1..(MaxLimit + 2)
             PROVE  LET limit == LimitOf(client, configured)
                    IN  /\ ValidLimit(limit)
                        /\ \A category \in ToSet(Build(indexed)) :
                              LET starts == Ascending(PageStarts(limit, category.channels))
                                  page(i) == PageAnswer(category.channels, starts[i], limit)
                              IN  /\ \A i \in DOMAIN starts : Shown(client, page(i))
                                  /\ Joined([i \in DOMAIN starts |-> RowsOf(client, page(i))]) =
                                         category.channels
  BY Zenon DEF PagesAreReadable
<1> DEFINE limit == LimitOf(client, configured)
<1>1. limit \in 1..MaxLimit
  <2>1. configured \in Int
    BY ClientAssumption
  <2> QED
    BY <2>1, LimitIsValid
<1> HIDE DEF limit
<1>2. limit \in Nat \ {0}
  BY <1>1, ClientAssumption
<1>3. ASSUME NEW category \in ToSet(Build(indexed))
      PROVE  LET starts == Ascending(PageStarts(limit, category.channels))
                 page(i) == PageAnswer(category.channels, starts[i], limit)
             IN  /\ \A i \in DOMAIN starts : Shown(client, page(i))
                 /\ Joined([i \in DOMAIN starts |-> RowsOf(client, page(i))]) = category.channels
  <2> DEFINE s == category.channels
             starts == Ascending(PageStarts(limit, s))
             page(i) == PageAnswer(s, starts[i], limit)
  <2>1. s \in Seq(Channels)
    <3>1. Build(indexed) \in Seq(Group)
      BY SnapshotIs DEF GroupsOf
    <3>2. category \in Group
      BY <3>1 DEF ToSet
    <3> QED
      BY <3>2 DEF Group
  <2> HIDE DEF s
  <2>2. PICK m : Covers(m, limit, Len(s))
    <3>1. Len(s) \in Nat
      BY <2>1
    <3> QED
      BY <1>2, <3>1, PagesNeeded
  <2>3. m \in Nat /\ Len(s) =< m * limit
    BY <2>2 DEF Covers
  <2>4. starts = [k \in 1..m |-> (k - 1) * limit]
    BY <1>2, <2>1, <2>2, StartsAre
  <2> HIDE DEF starts
  <2>5. DOMAIN starts = 1..m /\ \A k \in 1..m : starts[k] = (k - 1) * limit
    BY <2>4
  <2>6. \A k \in 1..m : (k - 1) * limit \in Nat
    BY <1>2, <2>3
  <2>7. ASSUME NEW k \in DOMAIN starts PROVE Shown(client, page(k))
    <3>1. page(k).total = Len(s)
      BY DEF PageAnswer
    <3>2. Len(s) >= 0
      BY <2>1
    <3> QED
      BY <3>1, <3>2 DEF Shown, Readable
  <2>8. ASSUME NEW k \in 1..m
        PROVE  RowsOf(client, page(k)) = PageOf(s, (k - 1) * limit, limit)
    <3>1. page(k) = PageAnswer(s, (k - 1) * limit, limit)
      BY <2>5
    <3>2. (k - 1) * limit \in Nat /\ limit \in Nat
      BY <1>2, <2>6
    <3> HIDE DEF page
    <3> QED
      BY <2>1, <3>1, <3>2, RowsAre
  <2> DEFINE rows(k) == RowsOf(client, page(k))
  <2>9. [k \in DOMAIN starts |-> rows(k)] = Pages(s, limit, m)
    <3> HIDE DEF page
    <3>1. \A k \in 1..m : rows(k) = PageOf(s, (k - 1) * limit, limit)
      BY <2>8
    <3> HIDE DEF rows
    <3> QED
      BY <2>5, <3>1 DEF Pages
  <2>10. Joined(Pages(s, limit, m)) = s
    <3>1. limit \in Nat
      BY <1>2
    <3> QED
      BY <2>1, <2>3, <3>1, PagesAreAll
  <2>11. /\ \A k \in DOMAIN starts : Shown(client, page(k))
         /\ Joined([k \in DOMAIN starts |-> rows(k)]) = s
    BY <2>7, <2>9, <2>10
  <2> QED
    BY <2>11 DEF starts, s
<1> QED
  BY <1>1, <1>3 DEF ValidLimit, limit

-----------------------------------------------------------------------------
(* The prototype of the builder. *)

\* A turn of the prototype is one of the builder's when the channel is new.
LEMMA AddAgrees ==
  ASSUME NEW groups, NEW entry, ~ Grouped(groups, entry.channel)
  PROVE  AddToIndex(groups, entry) = AddChannel(groups, entry)
  BY DEF AddToIndex, AddChannel, Grouped

LEMMA IndexIsGroups ==
  ASSUME NEW channels \in Seq(IndexedChannel), Distinct(channels)
  PROVE  BuildCategoryIndex(channels) = SortedBy(Collation, Groups(channels))
<1> DEFINE n == Len(channels)
           Is(f) == f = [k \in 0..n |->
                            IF k = 0 THEN <<>> ELSE AddToIndex(f[k - 1], channels[k])]
           after == CHOOSE f : Is(f)
<1>1. n \in Nat /\ n \in 0..n
  OBVIOUS
<1>2. PICK f : Steps(channels, n, f) /\ Groups(channels) = f[n]
  BY GroupsSteps
<1>3. ASSUME NEW k \in 1..n
      PROVE  f[k] = AddToIndex(f[k - 1], channels[k])
  <2>1. k - 1 \in Nat /\ (k - 1) + 1 = k /\ k - 1 \in 0..n
    OBVIOUS
  <2>2. GroupsOf(channels, k - 1, f[k - 1])
    BY <1>2, <2>1, GroupsAt
  <2>3. ~ Grouped(f[k - 1], channels[(k - 1) + 1].channel)
    BY <2>1, <2>2, NotYetGrouped
  <2>4. f[k] = AddChannel(f[k - 1], channels[k])
    BY <1>2 DEF Steps
  <2> QED
    BY <2>1, <2>3, <2>4, AddAgrees
<1> DEFINE g == [k \in 0..n |-> f[k]]
<1>4. Is(g)
  <2>1. \A k \in 0..n : f[k] = IF k = 0 THEN <<>> ELSE AddToIndex(g[k - 1], channels[k])
    <3> TAKE k \in 0..n
    <3>1. k = 0 \/ k \in 1..n
      OBVIOUS
    <3>2. CASE k = 0
      BY <1>2, <3>2 DEF Steps
    <3>3. CASE k \in 1..n
      <4>1. g[k - 1] = f[k - 1] /\ k # 0
        BY <3>3
      <4> QED
        BY <1>3, <3>3, <4>1
    <3> QED
      BY <3>1, <3>2, <3>3
  <2> QED
    BY <2>1, Zenon
<1>5. BuildCategoryIndex(channels) = SortedBy(Collation, after[n])
  BY DEF BuildCategoryIndex
<1>6. Is(after)
  BY <1>4
<1> HIDE DEF after
<1>7. after[0] = <<>> /\ \A k \in 1..n : after[k] = AddToIndex(after[k - 1], channels[k])
  BY <1>1, <1>6
<1> DEFINE T == {k \in Nat : k =< n => after[k] = f[k]}
<1>8. 0 \in T
  BY <1>2, <1>7 DEF Steps
<1>9. ASSUME NEW k \in T
      PROVE  k + 1 \in T
  <2> SUFFICES ASSUME k + 1 =< n PROVE after[k + 1] = f[k + 1]
    OBVIOUS
  <2>1. k \in Nat /\ k + 1 \in 1..n /\ (k + 1) - 1 = k /\ after[k] = f[k]
    BY <1>1
  <2>2. after[k + 1] = AddToIndex(after[(k + 1) - 1], channels[k + 1])
    BY <1>7, <2>1
  <2>3. f[k + 1] = AddToIndex(f[(k + 1) - 1], channels[k + 1])
    BY <1>3, <2>1
  <2> QED
    BY <2>1, <2>2, <2>3
<1>10. T = Nat
  <2>1. T \in SUBSET Nat
    OBVIOUS
  <2> HIDE DEF T
  <2> QED
    BY <1>8, <1>9, <2>1, Induction
<1>11. after[n] = f[n]
  BY <1>1, <1>10
<1> QED
  BY <1>2, <1>5, <1>11

\* A page ends where the list does, if it starts within it.
LEMMA SamePage ==
  ASSUME NEW s \in Seq(Channels), NEW start \in Nat, NEW limit \in 1..MaxLimit
  PROVE  PrototypePage(s, start, limit) = PageAnswer(s, start, limit)
<1> DEFINE L == Len(s)
<1>1. L \in Nat /\ MaxLimit \in Nat
  BY ClientAssumption
<1>2. RequestedLimit(limit) = limit
  BY <1>1 DEF RequestedLimit, AtMost
<1>3. AtMost(L, start + limit) = IF start + limit =< L THEN start + limit ELSE L
  BY <1>1 DEF AtMost
<1> QED
  BY <1>2, <1>3 DEF PrototypePage, PageAnswer, PageOf

LEMMA PrototypeHolds ==
  ASSUME indexed \in Seq(IndexedChannel), Distinct(indexed)
  PROVE  PrototypeAgrees
<1> DEFINE groups == Groups(indexed)
           index == BuildCategoryIndex(indexed)
<1>1. /\ GroupsOf(indexed, Len(indexed), groups)
      /\ GroupsOf(indexed, Len(indexed), Build(indexed))
  BY GroupsAre, SnapshotIs
<1>2. groups \in Seq(Group)
  BY <1>1 DEF GroupsOf
<1>3. ToSet(groups) = ToSet(Build(indexed))
  BY <1>1, SameGroups
<1>4. index = SortedBy(Collation, groups)
  BY IndexIsGroups
<1> HIDE DEF groups, index
<1>5. \A i \in DOMAIN groups : groups[i].name \in Names \cup {Blank}
  <2> TAKE i \in DOMAIN groups
  <2>1. groups[i] \in Group
    BY <1>2
  <2> QED
    BY <2>1 DEF Group
<1>6. Rearranged(index, groups)
  BY <1>2, <1>4, <1>5, SortedHas, ClientAssumption
<1>7. index \in Seq(Group) /\ ToSet(index) = ToSet(groups)
  BY <1>2, <1>6, RearrangedHas
<1>8. ASSUME NEW category \in ToSet(index), NEW start \in 0..MaxRecords, NEW limit \in 1..MaxLimit
      PROVE  PrototypePage(category.channels, start, limit) =
                 PageAnswer(category.channels, start, limit)
  <2>1. category \in Group
    BY <1>7 DEF ToSet
  <2>2. category.channels \in Seq(Channels)
    BY <2>1 DEF Group
  <2>3. start \in Nat
    BY PersistedAssumption
  <2> QED
    BY <2>2, <2>3, SamePage
<1>9. ToSet(index) = ToSet(Build(indexed))
  BY <1>3, <1>7
<1> QED
  BY <1>8, <1>9, Zenon DEF PrototypeAgrees, index

-----------------------------------------------------------------------------
(* The specification. *)

\* No channel is in two matched records, so that none is in two categories.
MatchedOnce ==
  \A i, j \in DOMAIN indexed : indexed[i].channel = indexed[j].channel => i = j

\* What was matched are the deciding records, in the order they were read.
MatchedDecides == indexed = EntriesOf(records)

IndInv == TypeOK /\ MatchedOnce /\ MatchedDecides

LEMMA ChannelTyped ==
  ASSUME NEW record \in SourceRecord
  PROVE  ChannelOf(record) \in Channels \cup {None}
  BY PersistedAssumption DEF SourceRecord, ChannelOf

LEMMA InitHolds == Init => IndInv
<1> SUFFICES ASSUME Init PROVE IndInv
  OBVIOUS
<1>1. records = <<>> /\ indexed = <<>> /\ unmatched = 0
  BY DEF Init
<1>2. TypeOK /\ MatchedOnce
  BY <1>1 DEF TypeOK, MatchedOnce
<1>3. MatchedDecides
  <2>1. Deciding(<<>>) = {}
    BY DEF Deciding
  <2>2. Cardinality({}) = 0
    BY FS_EmptySet
  <2>3. EntriesOf(<<>>) = [n \in 1..0 |-> EntryOf(<<>>[Ascending({})[n]])]
    BY <2>1, <2>2, Zenon DEF EntriesOf
  <2>4. EntriesOf(<<>>) = <<>>
    BY <2>3
  <2> QED
    BY <1>1, <2>4 DEF MatchedDecides
<1> QED
  BY <1>2, <1>3 DEF IndInv

LEMMA ReadStep ==
  ASSUME IndInv, NEW record \in SourceRecord, Read(record)
  PROVE  IndInv'
<1> DEFINE entry == [channel |-> ChannelOf(record), group |-> record.group]
<1>1. /\ records \in Seq(SourceRecord) /\ indexed \in Seq(IndexedChannel)
      /\ unmatched \in Nat /\ Len(indexed) + unmatched = Len(records)
      /\ Len(indexed) \in Nat /\ Len(records) \in Nat
  BY DEF IndInv, TypeOK
<1>2. /\ records' = Append(records, record)
      /\ \/ unmatched' = unmatched + 1 /\ indexed' = indexed
         \/ /\ ChannelOf(record) # None /\ ChannelOf(record) \notin Matched(indexed)
            /\ indexed' = Append(indexed, entry) /\ unmatched' = unmatched
  BY DEF Read, Match
<1>3. records' \in Seq(SourceRecord) /\ Len(records') = Len(records) + 1
  BY <1>1, <1>2
<1>4. MatchedDecides'
  <2>1. indexed = EntriesOf(records)
    BY DEF IndInv, MatchedDecides
  <2>2. EntriesOf(records') =
          IF ChannelOf(record) = None \/ ChannelOf(record) \in Matched(EntriesOf(records))
          THEN EntriesOf(records)
          ELSE Append(EntriesOf(records), EntryOf(record))
    BY <1>1, <1>2, EntriesAppend
  <2>3. indexed' = IF ChannelOf(record) = None \/ ChannelOf(record) \in Matched(indexed)
                   THEN indexed
                   ELSE Append(indexed, EntryOf(record))
    BY DEF Read, Match, EntryOf
  <2>4. indexed' = EntriesOf(records')
    BY <2>1, <2>2, <2>3
  <2> QED BY <2>4 DEF MatchedDecides
<1>5. CASE unmatched' = unmatched + 1 /\ indexed' = indexed
  <2>1. unmatched' \in Nat /\ Len(indexed) + unmatched' = Len(records) + 1
    BY <1>1, <1>5
  <2>2. TypeOK'
    BY <2>1, <1>1, <1>3, <1>5 DEF TypeOK
  <2>3. MatchedOnce'
    BY <1>5 DEF IndInv, MatchedOnce
  <2> QED BY <1>4, <2>2, <2>3 DEF IndInv
<1>6. CASE /\ ChannelOf(record) # None /\ ChannelOf(record) \notin Matched(indexed)
           /\ indexed' = Append(indexed, entry) /\ unmatched' = unmatched
  <2>1. entry \in IndexedChannel /\ entry.channel = ChannelOf(record)
    BY <1>6, ChannelTyped DEF SourceRecord, IndexedChannel
  <2> HIDE DEF entry
  <2>2. indexed' \in Seq(IndexedChannel) /\ Len(indexed') = Len(indexed) + 1
    BY <1>1, <1>6, <2>1
  <2>3. Len(indexed) + 1 + unmatched = Len(records) + 1
    BY <1>1
  <2>4. TypeOK'
    BY <2>2, <2>3, <1>1, <1>3, <1>6 DEF TypeOK
  <2>5. MatchedOnce'
    <3> SUFFICES ASSUME NEW i \in DOMAIN indexed', NEW j \in DOMAIN indexed',
                        indexed'[i].channel = indexed'[j].channel
                 PROVE  i = j
      BY DEF MatchedOnce
    <3>1. i \in 1..(Len(indexed) + 1) /\ j \in 1..(Len(indexed) + 1)
      BY <2>2
    <3>2. \A k \in 1..Len(indexed) : k \in DOMAIN indexed /\ indexed'[k] = indexed[k]
      BY <1>1, <1>6, <2>1
    <3>3. indexed'[Len(indexed) + 1] = entry
      BY <1>1, <1>6, <2>1
    <3>4. \A k \in DOMAIN indexed : indexed[k].channel # entry.channel
      BY <1>6, <2>1 DEF Matched
    <3>5. CASE i \in 1..Len(indexed) /\ j \in 1..Len(indexed)
      BY <3>2, <3>5 DEF IndInv, MatchedOnce
    <3>6. CASE ~ (i \in 1..Len(indexed) /\ j \in 1..Len(indexed))
      BY <3>1, <3>2, <3>3, <3>4, <3>6, <1>1
    <3> QED BY <3>5, <3>6
  <2> QED BY <1>4, <2>4, <2>5 DEF IndInv
<1> QED BY <1>2, <1>5, <1>6

LEMMA Invariant == Spec => []IndInv
<1>1. IndInv /\ [Next]_vars => IndInv'
  <2> SUFFICES ASSUME IndInv, [Next]_vars PROVE IndInv'
    OBVIOUS
  <2>1. CASE Next
    BY <2>1, ReadStep DEF Next
  <2>2. CASE UNCHANGED vars
    BY <2>2 DEF IndInv, TypeOK, MatchedOnce, MatchedDecides, vars
  <2> QED BY <2>1, <2>2
<1> QED BY <1>1, InitHolds, PTL DEF Spec

\* Every record is counted once, matched or unmatched, whatever the tuners
\* answer and however much of it (the loop of ReadCategoriesAsync).
THEOREM TypeCorrect == Spec => []TypeOK
<1>1. IndInv => TypeOK
  BY DEF IndInv
<1> QED BY <1>1, Invariant, PTL

\* A channel that several tuners, or several records of one, name is matched
\* by the first of them only (matchedIds).
THEOREM ChannelsMatchedOnce == Spec => []MatchedOnce
<1>1. IndInv => MatchedOnce
  BY DEF IndInv
<1> QED BY <1>1, Invariant, PTL

\* The snapshot has a category for every group of the deciding records, with
\* exactly their channels in the order they were read, and counts them all,
\* whatever the tuners answer (Build, matchedIds).
THEOREM SnapshotCorrect == Spec => []SnapshotIsGrouping
<1>1. IndInv => SnapshotIsGrouping
  BY GroupingHolds DEF IndInv, TypeOK, MatchedOnce, MatchedDecides, Distinct
<1> QED BY <1>1, Invariant, PTL

\* Two channels are in one category exactly if their group-titles are the same
\* characters, or both are missing (the prefixes of the key in Build).
THEOREM IdsCorrect == Spec => []IdsAreExact
<1>1. IndInv => IdsAreExact
  BY IdsHold DEF IndInv, TypeOK, MatchedOnce, Distinct
<1> QED BY <1>1, Invariant, PTL

\* The order the tuners answer in changes neither the list of names nor which
\* channels a category has (OrderBy and ThenBy in Build).
THEOREM OrderCorrect == Spec => []OrderIsByName
<1>1. IndInv => OrderIsByName
  BY OrderHolds DEF IndInv, TypeOK, MatchedOnce, Distinct
<1> QED BY <1>1, Invariant, PTL

\* A user's view is the snapshot of the visible channels, and its pages, of any
\* size, put together are its categories (CreateUserView, GetPage).
THEOREM ViewCorrect == Spec => []ViewIsOwnSnapshot
<1>1. IndInv => ViewIsOwnSnapshot
  BY ViewHolds DEF IndInv, TypeOK, MatchedOnce, Distinct
<1> QED BY <1>1, Invariant, PTL

\* Whatever one broken, repeated or reserved entry is added to the service's
\* list, and wherever, every client but the shared service lists every category
\* exactly once (the clients' normalisations).
THEOREM ListsCorrect == Spec => []ListsAreComplete
<1>1. IndInv => ListsAreComplete
  BY ListsHold DEF IndInv, TypeOK, MatchedOnce, Distinct
<1> QED BY <1>1, Invariant, PTL

\* Whatever page size is configured, the pages a client reads while it offers
\* Next are within the controller's bounds and give every channel of a category
\* once, in order (categoryPageSize, pageOptions, GetPage).
THEOREM PagesCorrect == Spec => []PagesAreReadable
<1>1. IndInv => PagesAreReadable
  BY PagesHold DEF IndInv, TypeOK, MatchedOnce, Distinct
<1> QED BY <1>1, Invariant, PTL

\* The prototype of the builder and the plugin's have the same categories and
\* pages, for every list without a channel twice (buildCategoryIndex, Build).
THEOREM PrototypeCorrect == Spec => []PrototypeAgrees
<1>1. IndInv => PrototypeAgrees
  BY PrototypeHolds DEF IndInv, TypeOK, MatchedOnce, Distinct
<1> QED BY <1>1, Invariant, PTL

=============================================================================
