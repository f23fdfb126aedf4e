------------------------ MODULE AuthSchedulerProofs ------------------------
(***************************************************************************)
(* Proofs about the scheduler: its indexes, its shards and its picks.      *)
(***************************************************************************)
EXTENDS SchedulerRotation, FiniteSetTheorems, WellFoundedInduction, TLAPS

----------------------------------------------------------------------------
(* Numbers. *)

Less == {pair \in Nat \X Nat : pair[1] < pair[2]}

LEMMA LeastNumber ==
    ASSUME NEW S \in SUBSET Nat, S # {}
    PROVE  \E n \in S : \A k \in S : n <= k
<1>1. IsWellFoundedOn(Less, Nat)
  BY NatLessThanWellFounded DEF OpToRel, Less
<1>2. \A x, y \in Nat : x < y => <<x, y>> \in Less
  BY DEF Less
<1> HIDE DEF Less
<1>3. PICK n \in S : \A k \in S : ~ (<<k, n>> \in Less)
  BY <1>1, WFMin
<1>4. ASSUME NEW k \in S PROVE n <= k
  <2>1. ~ (k < n)
    BY <1>2, <1>3
  <2> QED
    BY <2>1
<1> QED
  BY <1>4

HasGreatest(S) == \E n \in S : \A k \in S : k <= n

(* A finite set of integers that is not empty has a greatest member.       *)
LEMMA GreatestNumber ==
    ASSUME NEW S \in SUBSET Int, IsFiniteSet(S), S # {}
    PROVE  HasGreatest(S)
<1> DEFINE bad == {n \in Nat : \E U \in SUBSET S :
                      U # {} /\ Cardinality(U) = n /\ ~ HasGreatest(U)}
<1> SUFFICES ASSUME ~ HasGreatest(S) PROVE FALSE
  OBVIOUS
<1>1. Cardinality(S) \in bad
  BY FS_CardinalityType
<1> HIDE DEF bad
<1>2. PICK n \in bad : \A k \in bad : n <= k
  BY <1>1, LeastNumber DEF bad
<1>3. PICK U \in SUBSET S : U # {} /\ Cardinality(U) = n /\ ~ HasGreatest(U)
  BY <1>2 DEF bad
<1>4. PICK x : x \in U
  BY <1>3
<1>5. IsFiniteSet(U)
  BY FS_Subset
<1>6. /\ Cardinality(U \ {x}) = n - 1
      /\ n \in Nat
      /\ Cardinality(U \ {x}) \in Nat
  BY <1>3, <1>4, <1>5, FS_RemoveElement, FS_CardinalityType
<1>7. CASE U \ {x} = {}
  <2>1. \A k \in U : k = x
    BY <1>7
  <2> QED
    BY <1>3, <1>4, <2>1 DEF HasGreatest
<1>8. CASE U \ {x} # {}
  <2>1. n - 1 \notin bad
    BY <1>2, <1>6
  <2>2. HasGreatest(U \ {x})
    BY <1>6, <1>8, <2>1 DEF bad
  <2>3. PICK y \in U \ {x} : \A k \in U \ {x} : k <= y
    BY <2>2 DEF HasGreatest
  <2>4. x \in Int /\ y \in Int /\ \A k \in U : k \in Int
    BY <1>4
  <2>5. CASE x <= y
    BY <1>3, <2>3, <2>4, <2>5 DEF HasGreatest
  <2>6. CASE y < x
    BY <1>3, <1>4, <2>3, <2>4, <2>6 DEF HasGreatest
  <2> QED
    BY <2>4, <2>5, <2>6
<1> QED
  BY <1>7, <1>8

LEMMA HighestIsGreatest ==
    ASSUME NEW S \in SUBSET Priorities, S # {}
    PROVE  Highest(S) \in S /\ \A k \in S : k <= Highest(S)
<1>1. HasGreatest(S)
  BY SchedulerConstants, GreatestNumber, FS_Subset
<1> QED
  BY <1>1 DEF HasGreatest, Highest

----------------------------------------------------------------------------
(* Ascending sequences of the members of a set. *)

Ascending(s, n) == \A i, j \in 1..n : i < j => s[i] < s[j]

Enumerable(S) ==
    \E s \in [1..Cardinality(S) -> S] : Ascending(s, Cardinality(S))

(* Every finite set of numbers can be put in order: the greatest goes last.*)
LEMMA Ordered ==
    ASSUME NEW S \in SUBSET Nat, IsFiniteSet(S)
    PROVE  Enumerable(S)
<1> DEFINE bad == {n \in Nat : \E U \in SUBSET S :
                      Cardinality(U) = n /\ ~ Enumerable(U)}
<1> SUFFICES ASSUME ~ Enumerable(S) PROVE FALSE
  OBVIOUS
<1>1. Cardinality(S) \in bad
  BY FS_CardinalityType
<1> HIDE DEF bad
<1>2. PICK n \in bad : \A k \in bad : n <= k
  BY <1>1, LeastNumber DEF bad
<1>3. PICK U \in SUBSET S : Cardinality(U) = n /\ ~ Enumerable(U)
  BY <1>2 DEF bad
<1>4. IsFiniteSet(U) /\ n \in Nat
  BY <1>2, FS_Subset DEF bad
<1>5. U # {}
  <2> SUFFICES ASSUME U = {} PROVE FALSE
    OBVIOUS
  <2>1. Cardinality(U) = 0
    BY FS_EmptySet
  <2>2. [i \in 1..0 |-> 0] \in [1..0 -> U]
    OBVIOUS
  <2> QED
    BY <1>3, <2>1, <2>2 DEF Enumerable, Ascending
<1>6. PICK x \in U : \A k \in U : k <= x
  BY <1>4, <1>5, GreatestNumber DEF HasGreatest
<1>7. Cardinality(U \ {x}) = n - 1 /\ n - 1 \in Nat
  <2>1. IsFiniteSet(U \ {x}) /\ Cardinality(U \ {x}) = n - 1
    BY <1>3, <1>4, FS_RemoveElement
  <2> QED
    BY <2>1, FS_CardinalityType
<1>8. Enumerable(U \ {x})
  BY <1>2, <1>7 DEF bad
<1>9. PICK s \in [1..(n - 1) -> U \ {x}] : Ascending(s, n - 1)
  BY <1>7, <1>8 DEF Enumerable
<1>10. [i \in 1..n |-> IF i = n THEN x ELSE s[i]] \in [1..n -> U]
  BY <1>4, <1>9
<1>11. Ascending([i \in 1..n |-> IF i = n THEN x ELSE s[i]], n)
  <2> SUFFICES ASSUME NEW i \in 1..n, NEW j \in 1..n, i < j
               PROVE  s[i] < (IF j = n THEN x ELSE s[j])
    BY <1>4 DEF Ascending
  <2>1. i \in 1..(n - 1)
    BY <1>4
  <2> s[i] \in U \ {x} /\ s[i] \in Nat /\ x \in Nat
    BY <1>9, <2>1
  <2>2. CASE j = n
    BY <1>6, <2>1, <2>2
  <2>3. CASE j # n
    BY <1>4, <1>9, <2>1, <2>3 DEF Ascending
  <2> QED
    BY <2>2, <2>3
<1> QED
  BY <1>3, <1>10, <1>11 DEF Enumerable

(* What IDs gives: every member once, in ascending order.                  *)
LEMMA IDsInOrder ==
    ASSUME NEW S \in SUBSET Nat, IsFiniteSet(S)
    PROVE  /\ IDs(S) \in Seq(S)
           /\ Len(IDs(S)) = Cardinality(S)
           /\ Range(IDs(S)) = S
           /\ \A i, j \in 1..Len(IDs(S)) : i < j => IDs(S)[i] < IDs(S)[j]
<1> DEFINE n == Cardinality(S)
<1>1. n \in Nat
  BY FS_CardinalityType
<1>2. IDs(S) \in [1..n -> S] /\ Ascending(IDs(S), n)
  BY Ordered DEF Enumerable, Ascending, IDs
<1>3. IDs(S) \in Seq(S) /\ Len(IDs(S)) = n
  BY <1>1, <1>2
<1>4. \A i, j \in 1..n : i # j => IDs(S)[i] # IDs(S)[j]
  <2> SUFFICES ASSUME NEW i \in 1..n, NEW j \in 1..n, i # j
               PROVE  IDs(S)[i] # IDs(S)[j]
    OBVIOUS
  <2>1. i < j \/ j < i
    BY <1>1
  <2>2. IDs(S)[i] < IDs(S)[j] \/ IDs(S)[j] < IDs(S)[i]
    BY <1>2, <2>1 DEF Ascending
  <2>3. IDs(S)[i] \in Nat /\ IDs(S)[j] \in Nat
    BY <1>2
  <2> QED
    BY <2>2, <2>3
<1>5. IDs(S) \in Injection(1..n, S)
  BY <1>2, <1>4 DEF Injection, IsInjective
<1>6. Cardinality(1..n) = n
  BY <1>1, FS_Interval
<1>7. IDs(S) \in Surjection(1..n, S)
  BY <1>5, <1>6, FS_Injection
<1>8. Range(IDs(S)) = S
  BY <1>2, <1>7 DEF Range, Surjection
<1> QED
  BY <1>2, <1>3, <1>8 DEF Ascending

----------------------------------------------------------------------------
(* Rotations. *)

(* From any cursor of the rotation, NextFrom finds an allowed member if    *)
(* there is one.                                                           *)
LEMMA NextFromFinds ==
    ASSUME NEW T, NEW items \in Seq(T), NEW cursor \in 0..Len(items), NEW allowed
    PROVE  /\ Range(items) \cap allowed = {} => NextFrom(items, cursor, allowed) = None
           /\ Range(items) \cap allowed # {} =>
                 /\ NextFrom(items, cursor, allowed) \in 0..(Len(items) - 1)
                 /\ items[NextFrom(items, cursor, allowed) + 1] \in allowed
<1> DEFINE size == Len(items)
           At(o) == (cursor + o) % size
           hits  == {o \in 0..(size - 1) : items[At(o) + 1] \in allowed}
           first == CHOOSE o \in hits : \A h \in hits : o <= h
<1>1. size \in Nat /\ cursor \in 0..size
  OBVIOUS
<1>2. NextFrom(items, cursor, allowed) = IF hits = {} THEN None ELSE At(first)
  BY DEF NextFrom
<1>3. \A o \in 0..(size - 1) : At(o) \in 0..(size - 1)
  BY <1>1
<1>4. ASSUME NEW i \in 0..(size - 1)
      PROVE  \E o \in 0..(size - 1) : At(o) = i
  <2>1. CASE cursor <= i
    <3>1. i - cursor \in 0..(size - 1) /\ cursor + (i - cursor) = i
      BY <1>1, <2>1
    <3>2. i % size = i
      BY <1>1
    <3> QED
      BY <3>1, <3>2
  <2>2. CASE i < cursor
    <3>1. i - cursor + size \in 0..(size - 1) /\ cursor + (i - cursor + size) = i + size
      BY <1>1, <2>2
    <3>2. (i + size) % size = i
      BY <1>1
    <3> QED
      BY <3>1, <3>2
  <2> QED
    BY <1>1, <2>1, <2>2
<1>5. \A i \in 1..size : items[i] \in Range(items)
  BY DEF Range
<1>6. CASE Range(items) \cap allowed = {}
  <2>1. \A o \in 0..(size - 1) : At(o) + 1 \in 1..size
    BY <1>1, <1>3
  <2>2. hits = {}
    BY <1>5, <1>6, <2>1
  <2> QED
    BY <1>2, <1>6, <2>2
<1>7. CASE Range(items) \cap allowed # {}
  <2>1. PICK i \in 1..size : items[i] \in allowed
    BY <1>7 DEF Range
  <2>2. i - 1 \in 0..(size - 1) /\ (i - 1) + 1 = i
    BY <1>1
  <2>3. PICK o \in 0..(size - 1) : At(o) = i - 1
    BY <1>4, <2>2
  <2>4. hits # {} /\ hits \in SUBSET Nat
    <3> HIDE DEF At
    <3>1. At(o) + 1 = i
      BY <1>1, <2>2, <2>3
    <3>2. o \in hits
      BY <2>1, <3>1
    <3> QED
      BY <1>1, <3>2
  <2> HIDE DEF hits
  <2>5. first \in hits
    BY <2>4, LeastNumber
  <2>6. first \in 0..(size - 1) /\ items[At(first) + 1] \in allowed
    BY <2>5 DEF hits
  <2> HIDE DEF first, At
  <2> QED
    BY <1>2, <1>3, <1>7, <2>4, <2>6
<1> QED
  BY <1>6, <1>7

(* From the start it finds the first one.                                  *)
LEMMA NextFromStart ==
    ASSUME NEW T, NEW items \in Seq(T), NEW allowed, Range(items) \cap allowed # {}
    PROVE  \A j \in 1..Len(items) :
              j <= NextFrom(items, 0, allowed) => items[j] \notin allowed
<1> DEFINE size == Len(items)
           hits  == {o \in 0..(size - 1) : items[((0 + o) % size) + 1] \in allowed}
           first == CHOOSE o \in hits : \A h \in hits : o <= h
<1>1. size \in Nat
  OBVIOUS
<1>2. PICK i \in 1..size : items[i] \in allowed
  BY DEF Range
<1>3. \A o \in 0..(size - 1) : (0 + o) % size = o
  BY <1>1
<1>4. hits = {o \in 0..(size - 1) : items[o + 1] \in allowed}
  BY <1>3
<1>5. i - 1 \in hits
  BY <1>1, <1>2, <1>4
<1>6. NextFrom(items, 0, allowed) = (0 + first) % size
  BY <1>5 DEF NextFrom
<1> HIDE DEF hits
<1>7. first \in hits /\ \A h \in hits : first <= h
  <2>1. hits \in SUBSET Nat
    BY <1>1, <1>4
  <2> QED
    BY <1>5, <2>1, LeastNumber
<1> HIDE DEF first
<1>8. NextFrom(items, 0, allowed) = first /\ first \in 0..(size - 1)
  <2>1. first \in 0..(size - 1)
    BY <1>4, <1>7
  <2> QED
    BY <1>3, <1>6, <2>1
<1>9. ASSUME NEW j \in 1..size, j <= first, items[j] \in allowed PROVE FALSE
  <2>1. j - 1 \in hits
    BY <1>1, <1>4, <1>9
  <2>2. first <= j - 1
    BY <1>7, <2>1
  <2> QED
    BY <1>8, <1>9, <2>2
<1> QED
  BY <1>8, <1>9

----------------------------------------------------------------------------
(* Ready views. *)

EntryMaps == [Auths -> Entries \cup {None}]

Group(entries, a) == entries[a].meta.auth.parent

Groups(entries, S) == {Group(entries, a) : a \in S}

IsGrouped(entries, S) ==
    None \notin Groups(entries, S) /\ Cardinality(Groups(entries, S)) > 1

GroupOrder(entries, S) ==
    IF IsGrouped(entries, S) THEN IDs(Groups(entries, S)) ELSE <<>>

InGroup(entries, S, g) == {a \in S : Group(entries, a) = g}

GroupItems(entries, S) ==
    [g \in Parents |-> IF IsGrouped(entries, S) THEN IDs(InGroup(entries, S, g)) ELSE <<>>]

Present(entries) == {a \in Auths : entries[a] # None}

(* The view shows the auths S of the entries, whatever its cursors.        *)
Shows(view, entries, S) ==
    /\ view.flat = IDs(S)
    /\ view.parentOrder = GroupOrder(entries, S)
    /\ view.items = GroupItems(entries, S)

GoodView(view, entries, S) ==
    view \in Views /\ CursorsWithin(view) /\ Shows(view, entries, S)

LEMMA MetaTyped ==
    ASSUME NEW meta \in Metas
    PROVE  meta.auth \in AuthSnapshots /\ meta.models \in SUBSET Models
BY SchedulerConstants DEF Metas

LEMMA EntryTyped ==
    ASSUME NEW entries \in EntryMaps, NEW a \in Present(entries)
    PROVE  /\ entries[a] \in Entries
           /\ entries[a].meta \in Metas
           /\ entries[a].meta.auth \in AuthSnapshots
           /\ Group(entries, a) \in Parents \cup {None}
<1>1. entries[a] \in Entries
  BY DEF EntryMaps, Present
<1>2. entries[a].meta \in Metas
  BY <1>1 DEF Entries
<1>3. entries[a].meta.auth \in AuthSnapshots
  BY <1>2, MetaTyped
<1> QED
  BY <1>1, <1>2, <1>3 DEF Group, AuthSnapshots

LEMMA SomeIDs ==
    ASSUME NEW S \in SUBSET Auths
    PROVE  /\ IsFiniteSet(S)
           /\ IDs(S) \in Seq(Auths)
           /\ Range(IDs(S)) = S
           /\ \A i, j \in 1..Len(IDs(S)) : i < j => IDs(S)[i] < IDs(S)[j]
<1>1. IsFiniteSet(S) /\ S \in SUBSET Nat
  BY SchedulerConstants, FS_Subset
<1>2. IDs(S) \in Seq(S)
  BY <1>1, IDsInOrder
<1>3. IDs(S) \in Seq(Auths)
  BY <1>2
<1> QED
  BY <1>1, <1>3, IDsInOrder

LEMMA GroupsTyped ==
    ASSUME NEW entries \in EntryMaps, NEW S \in SUBSET Present(entries)
    PROVE  /\ S \in SUBSET Auths
           /\ GroupOrder(entries, S) \in Seq(Parents)
           /\ GroupItems(entries, S) \in [Parents -> Seq(Auths)]
           /\ IsGrouped(entries, S) =>
                 /\ Groups(entries, S) \in SUBSET Parents
                 /\ Range(GroupOrder(entries, S)) = Groups(entries, S)
           /\ ~ IsGrouped(entries, S) => Len(GroupOrder(entries, S)) = 0
<1>1. S \in SUBSET Auths
  BY DEF Present
<1>2. ASSUME IsGrouped(entries, S)
      PROVE  /\ Groups(entries, S) \in SUBSET Parents
             /\ GroupOrder(entries, S) \in Seq(Parents)
             /\ Range(GroupOrder(entries, S)) = Groups(entries, S)
  <2>1. Groups(entries, S) \in SUBSET Parents
    BY <1>2, EntryTyped DEF IsGrouped, Groups
  <2>2. IsFiniteSet(Groups(entries, S)) /\ Groups(entries, S) \in SUBSET Nat
    BY <2>1, SchedulerConstants, FS_Subset
  <2>3. /\ IDs(Groups(entries, S)) \in Seq(Groups(entries, S))
        /\ Range(IDs(Groups(entries, S))) = Groups(entries, S)
    BY <2>2, IDsInOrder
  <2>4. IDs(Groups(entries, S)) \in Seq(Parents)
    BY <2>1, <2>3
  <2> QED
    BY <1>2, <2>1, <2>3, <2>4 DEF GroupOrder
<1>3. \A g : IDs(InGroup(entries, S, g)) \in Seq(Auths)
  BY <1>1, SomeIDs DEF InGroup
<1>4. GroupItems(entries, S) \in [Parents -> Seq(Auths)]
  BY <1>3 DEF GroupItems
<1>5. ~ IsGrouped(entries, S) =>
         GroupOrder(entries, S) \in Seq(Parents) /\ Len(GroupOrder(entries, S)) = 0
  BY DEF GroupOrder
<1> QED
  BY <1>1, <1>2, <1>4, <1>5

LEMMA BuiltView ==
    ASSUME NEW entries \in EntryMaps, NEW S \in SUBSET Present(entries)
    PROVE  buildReadyView(entries, S) =
              [flat |-> IDs(S), cursor |-> 0,
               parentOrder |-> GroupOrder(entries, S), parentCursor |-> 0,
               items |-> GroupItems(entries, S), turn |-> [g \in Parents |-> 0]]
<1>1. buildReadyView(entries, S) =
         [NoView EXCEPT !.flat = IDs(S), !.parentOrder = GroupOrder(entries, S),
                        !.items = GroupItems(entries, S)]
  BY DEF buildReadyView, IsGrouped, Groups, Group, GroupOrder, GroupItems, InGroup
<1> QED
  BY <1>1 DEF NoView

LEMMA CursorNormalized ==
    ASSUME NEW cursor \in Nat, NEW size \in Nat
    PROVE  normalizeCursor(cursor, size) \in 0..size
<1>1. CASE size = 0
  BY <1>1 DEF normalizeCursor
<1>2. CASE size # 0
  <2>1. cursor % size \in 0..(size - 1)
    BY <1>2
  <2> QED
    BY <1>2, <2>1 DEF normalizeCursor
<1> QED
  BY <1>1, <1>2

(* A view built from the entries, with the cursors of any other view.      *)
LEMMA RestoredView ==
    ASSUME NEW entries \in EntryMaps, NEW S \in SUBSET Present(entries), NEW old \in Views
    PROVE  GoodView(restoreReadyViewCursors(buildReadyView(entries, S), old), entries, S)
<1> DEFINE order == GroupOrder(entries, S)
           items == GroupItems(entries, S)
           view  == restoreReadyViewCursors(buildReadyView(entries, S), old)
<1>1. /\ IDs(S) \in Seq(Auths) /\ order \in Seq(Parents)
      /\ items \in [Parents -> Seq(Auths)]
  BY GroupsTyped, SomeIDs
<1>2. view = [flat |-> IDs(S), cursor |-> normalizeCursor(old.cursor, Len(IDs(S))),
              parentOrder |-> order,
              parentCursor |-> normalizeCursor(old.parentCursor, Len(order)),
              items |-> items,
              turn |-> [g \in Parents |-> normalizeCursor(old.turn[g], Len(items[g]))]]
  <2> DEFINE built == buildReadyView(entries, S)
  <2>1. built = [flat |-> IDs(S), cursor |-> 0, parentOrder |-> order, parentCursor |-> 0,
                 items |-> items, turn |-> [g \in Parents |-> 0]]
    BY BuiltView
  <2>2. view = [built EXCEPT
                  !.cursor = normalizeCursor(old.cursor, Len(built.flat)),
                  !.parentCursor = normalizeCursor(old.parentCursor, Len(built.parentOrder)),
                  !.turn = [g \in Parents |->
                              normalizeCursor(old.turn[g], Len(built.items[g]))]]
    BY DEF restoreReadyViewCursors
  <2> HIDE DEF built, view, order, items
  <2> QED
    BY <2>1, <2>2
<1>3. normalizeCursor(old.cursor, Len(IDs(S))) \in 0..Len(IDs(S))
  BY <1>1, CursorNormalized DEF Views
<1>4. normalizeCursor(old.parentCursor, Len(order)) \in 0..Len(order)
  BY <1>1, CursorNormalized DEF Views
<1>5. ASSUME NEW g \in Parents
      PROVE  normalizeCursor(old.turn[g], Len(items[g])) \in 0..Len(items[g])
  <2> HIDE DEF items
  <2>1. Len(items[g]) \in Nat /\ old.turn[g] \in Nat
    BY <1>1 DEF Views
  <2> QED
    BY <2>1, CursorNormalized
<1> HIDE DEF view, order, items
<1>6. view \in Views
  BY <1>1, <1>2, <1>3, <1>4, <1>5 DEF Views
<1>7. CursorsWithin(view)
  BY <1>2, <1>3, <1>4, <1>5 DEF CursorsWithin
<1>8. Shows(view, entries, S)
  BY <1>2 DEF Shows, order, items
<1> QED
  BY <1>6, <1>7, <1>8 DEF GoodView, view

----------------------------------------------------------------------------
(* Picks from a view. *)

(* pickFirst: the least allowed ID, if there is one.                       *)
LEMMA FirstPicked ==
    ASSUME NEW entries \in EntryMaps, NEW S \in SUBSET Present(entries),
           NEW view, GoodView(view, entries, S), NEW allowed
    PROVE  /\ S \cap allowed = {} => pickFirst(view, allowed) = None
           /\ S \cap allowed # {} =>
                 /\ pickFirst(view, allowed) \in S \cap allowed
                 /\ \A a \in S \cap allowed : pickFirst(view, allowed) <= a
<1> DEFINE items == view.flat
           i == NextFrom(items, 0, allowed)
<1>1. /\ items \in Seq(Auths) /\ Range(items) = S /\ S \in SUBSET Auths
      /\ \A j, k \in 1..Len(items) : j < k => items[j] < items[k]
  BY SomeIDs, GroupsTyped DEF GoodView, Shows
<1>2. pickFirst(view, allowed) = IF i = None THEN None ELSE items[i + 1]
  BY DEF pickFirst
<1> HIDE DEF items
<1>3. 0 \in 0..Len(items)
  BY <1>1
<1>4. CASE S \cap allowed = {}
  <2>1. i = None
    BY <1>1, <1>3, <1>4, NextFromFinds
  <2> QED
    BY <1>2, <1>4, <2>1
<1>5. CASE S \cap allowed # {}
  <2>1. i \in 0..(Len(items) - 1) /\ items[i + 1] \in allowed
    BY <1>1, <1>3, <1>5, NextFromFinds
  <2>2. \A j \in 1..Len(items) : j <= i => items[j] \notin allowed
    BY <1>1, <1>5, NextFromStart
  <2> HIDE DEF i
  <2>3. i # None /\ i + 1 \in 1..Len(items)
    BY <1>1, <2>1, SchedulerConstants
  <2>4. items[i + 1] \in S
    BY <1>1, <2>3 DEF Range
  <2>5. ASSUME NEW a \in S \cap allowed PROVE items[i + 1] <= a
    <3>1. PICK j \in 1..Len(items) : items[j] = a
      BY <1>1 DEF Range
    <3>2. ~ (j <= i)
      BY <2>2, <3>1
    <3>3. j = i + 1 \/ i + 1 < j
      BY <1>1, <2>1, <3>2
    <3>4. a \in Nat /\ items[i + 1] \in Nat
      BY <1>1, <2>4, SchedulerConstants
    <3> QED
      BY <1>1, <2>3, <3>1, <3>3, <3>4
  <2> QED
    BY <1>2, <1>5, <2>1, <2>3, <2>4, <2>5
<1> QED
  BY <1>4, <1>5

(* What a round-robin pick from a view must give.                          *)
PicksFrom(picked, entries, S, allowed) ==
    /\ S \cap allowed = {} => picked.auth = None
    /\ S \cap allowed # {} => picked.auth \in S \cap allowed
    /\ GoodView(picked.view, entries, S)

LEMMA FlatPicked ==
    ASSUME NEW entries \in EntryMaps, NEW S \in SUBSET Present(entries),
           NEW view, GoodView(view, entries, S), NEW allowed
    PROVE  PicksFrom(pickFlatRoundRobin(view, allowed), entries, S, allowed)
<1> DEFINE items == view.flat
           i == NextFrom(items, view.cursor, allowed)
<1>1. /\ items \in Seq(Auths) /\ Range(items) = S
      /\ view.cursor \in 0..Len(items)
  BY SomeIDs, GroupsTyped DEF GoodView, Shows, CursorsWithin
<1>2. pickFlatRoundRobin(view, allowed) =
         IF i = None THEN [auth |-> None, view |-> view]
         ELSE [auth |-> items[i + 1], view |-> [view EXCEPT !.cursor = i + 1]]
  BY DEF pickFlatRoundRobin, NoPick
<1>3. CASE S \cap allowed = {}
  <2>1. i = None
    BY <1>1, <1>3, NextFromFinds
  <2> HIDE DEF i, items
  <2>2. pickFlatRoundRobin(view, allowed) = [auth |-> None, view |-> view]
    BY <1>2, <2>1
  <2> QED
    BY <1>3, <2>2 DEF PicksFrom
<1>4. CASE S \cap allowed # {}
  <2>1. i \in 0..(Len(items) - 1) /\ items[i + 1] \in allowed
    BY <1>1, <1>4, NextFromFinds
  <2> HIDE DEF i
  <2>2. i # None /\ i + 1 \in 1..Len(items) /\ i + 1 \in Nat
    BY <1>1, <2>1, SchedulerConstants
  <2>3. items[i + 1] \in S
    BY <1>1, <2>2 DEF Range
  <2>4. GoodView([view EXCEPT !.cursor = i + 1], entries, S)
    <3> DEFINE new == [view EXCEPT !.cursor = i + 1]
    <3>1. view \in Views
      BY DEF GoodView
    <3>2. /\ new \in Views /\ new.flat = view.flat /\ new.parentOrder = view.parentOrder
          /\ new.items = view.items /\ new.cursor = i + 1
          /\ new.parentCursor = view.parentCursor /\ new.turn = view.turn
      BY <2>2, <3>1 DEF Views
    <3> HIDE DEF new
    <3>3. CursorsWithin(new)
      BY <1>1, <2>2, <3>1, <3>2 DEF GoodView, CursorsWithin
    <3>4. Shows(new, entries, S)
      BY <3>2 DEF GoodView, Shows
    <3> QED
      BY <3>2, <3>3, <3>4 DEF GoodView, new
  <2>5. pickFlatRoundRobin(view, allowed) =
           [auth |-> items[i + 1], view |-> [view EXCEPT !.cursor = i + 1]]
    BY <1>2, <2>2
  <2> HIDE DEF items
  <2> QED
    BY <1>4, <2>1, <2>3, <2>4, <2>5 DEF PicksFrom
<1> QED
  BY <1>3, <1>4

LEMMA GroupedPicked ==
    ASSUME NEW entries \in EntryMaps, NEW S \in SUBSET Present(entries),
           NEW view, GoodView(view, entries, S), NEW allowed, IsGrouped(entries, S)
    PROVE  PicksFrom(pickGroupedRoundRobin(view, allowed), entries, S, allowed)
<1> DEFINE order == view.parentOrder
           willing == {g \in Parents : Range(view.items[g]) \cap allowed # {}}
           i == NextFrom(order, view.parentCursor, willing)
           g == order[i + 1]
           j == NextFrom(view.items[g], view.turn[g], allowed)
<1>1. /\ order \in Seq(Parents) /\ Range(order) = Groups(entries, S)
      /\ Groups(entries, S) \in SUBSET Parents
      /\ view.parentCursor \in 0..Len(order)
      /\ S \in SUBSET Auths
  BY GroupsTyped DEF GoodView, Shows, CursorsWithin
<1>2. ASSUME NEW h \in Parents
      PROVE  /\ view.items[h] \in Seq(Auths)
             /\ Range(view.items[h]) = InGroup(entries, S, h)
             /\ view.turn[h] \in 0..Len(view.items[h])
  <2>1. view.items[h] = IDs(InGroup(entries, S, h))
    BY DEF GoodView, Shows, GroupItems
  <2>2. InGroup(entries, S, h) \in SUBSET Auths
    BY <1>1 DEF InGroup
  <2> QED
    BY <2>1, <2>2, SomeIDs DEF GoodView, CursorsWithin
<1>3. pickGroupedRoundRobin(view, allowed) =
         IF i = None THEN [auth |-> None, view |-> view]
         ELSE [auth |-> view.items[g][j + 1],
               view |-> [view EXCEPT !.turn[g] = j + 1, !.parentCursor = i + 1]]
  BY DEF pickGroupedRoundRobin, NoPick
<1>4. \A h \in willing : h \in Parents /\ InGroup(entries, S, h) \cap allowed # {}
  BY <1>2
<1>5. CASE S \cap allowed = {}
  <2>1. willing = {}
    BY <1>4, <1>5 DEF InGroup
  <2>2. i = None
    BY <1>1, <2>1, NextFromFinds
  <2> HIDE DEF i
  <2>3. pickGroupedRoundRobin(view, allowed) = [auth |-> None, view |-> view]
    BY <1>3, <2>2
  <2> QED
    BY <1>5, <2>3 DEF PicksFrom
<1>6. CASE S \cap allowed # {}
  <2>1. PICK a : a \in S \cap allowed
    BY <1>6
  <2>2. Group(entries, a) \in Groups(entries, S) /\ a \in InGroup(entries, S, Group(entries, a))
    BY <2>1 DEF Groups, InGroup
  <2>3. Group(entries, a) \in willing
    BY <1>1, <1>2, <2>1, <2>2
  <2>4. Range(order) \cap willing # {}
    BY <1>1, <2>2, <2>3
  <2> HIDE DEF willing
  <2>5. i \in 0..(Len(order) - 1) /\ g \in willing
    BY <1>1, <2>4, NextFromFinds
  <2> HIDE DEF i
  <2>6. i # None /\ i + 1 \in 1..Len(order) /\ i + 1 \in Nat
    BY <1>1, <2>5, SchedulerConstants
  <2>7. g \in Parents /\ InGroup(entries, S, g) \cap allowed # {}
    BY <1>4, <2>5
  <2> HIDE DEF g
  <2>8. j \in 0..(Len(view.items[g]) - 1) /\ view.items[g][j + 1] \in allowed
    BY <1>2, <2>7, NextFromFinds
  <2> HIDE DEF j
  <2>9. j + 1 \in 1..Len(view.items[g]) /\ j + 1 \in Nat
    BY <1>2, <2>7, <2>8
  <2>10. view.items[g][j + 1] \in S
    <3>1. view.items[g][j + 1] \in Range(view.items[g])
      BY <1>2, <2>7, <2>9 DEF Range
    <3> QED
      BY <1>2, <2>7, <3>1 DEF InGroup
  <2>11. GoodView([view EXCEPT !.turn[g] = j + 1, !.parentCursor = i + 1], entries, S)
    <3> DEFINE new == [view EXCEPT !.turn[g] = j + 1, !.parentCursor = i + 1]
    <3>1. view \in Views
      BY DEF GoodView
    <3>2. /\ new \in Views /\ new.flat = view.flat /\ new.parentOrder = view.parentOrder
          /\ new.items = view.items /\ new.cursor = view.cursor
          /\ new.parentCursor = i + 1 /\ new.turn = [view.turn EXCEPT ![g] = j + 1]
      BY <2>6, <2>7, <2>9, <3>1 DEF Views
    <3> HIDE DEF new
    <3>3. CursorsWithin(new)
      <4>1. CursorsWithin(view) /\ view.turn \in [Parents -> Nat]
        BY <3>1 DEF GoodView, Views
      <4>2. new.cursor \in 0..Len(new.flat)
        BY <3>2, <4>1 DEF CursorsWithin
      <4>3. new.parentCursor \in 0..Len(new.parentOrder)
        BY <2>6, <3>2
      <4>4. ASSUME NEW x \in Parents PROVE new.turn[x] \in 0..Len(new.items[x])
        <5>1. CASE x = g
          <6>1. new.turn[x] = j + 1
            BY <2>7, <3>2, <4>1, <5>1
          <6> QED
            BY <2>9, <3>2, <5>1, <6>1
        <5>2. CASE x # g
          <6>1. new.turn[x] = view.turn[x]
            BY <3>2, <4>1, <5>2
          <6> QED
            BY <3>2, <4>1, <6>1 DEF CursorsWithin
        <5> QED
          BY <5>1, <5>2
      <4> QED
        BY <4>2, <4>3, <4>4 DEF CursorsWithin
    <3>4. Shows(new, entries, S)
      BY <3>2 DEF GoodView, Shows
    <3> QED
      BY <3>2, <3>3, <3>4 DEF GoodView, new
  <2>12. pickGroupedRoundRobin(view, allowed) =
           [auth |-> view.items[g][j + 1],
            view |-> [view EXCEPT !.turn[g] = j + 1, !.parentCursor = i + 1]]
    BY <1>3, <2>6 DEF g, j
  <2> HIDE DEF order
  <2> QED
    BY <1>6, <2>8, <2>10, <2>11, <2>12 DEF PicksFrom
<1> QED
  BY <1>5, <1>6

LEMMA RoundRobinPicked ==
    ASSUME NEW entries \in EntryMaps, NEW S \in SUBSET Present(entries),
           NEW view, GoodView(view, entries, S), NEW allowed
    PROVE  PicksFrom(pickRoundRobin(view, allowed), entries, S, allowed)
<1>1. CASE Len(view.parentOrder) > 1
  <2>1. IsGrouped(entries, S)
    BY <1>1, GroupsTyped DEF GoodView, Shows
  <2> QED
    BY <1>1, <2>1, GroupedPicked DEF pickRoundRobin
<1>2. CASE ~ (Len(view.parentOrder) > 1)
  BY <1>2, FlatPicked DEF pickRoundRobin
<1> QED
  BY <1>1, <1>2

----------------------------------------------------------------------------
(* Shards. *)

Waiting == {"cooldown", "other"}

WebsocketAt(entries, n) == Websocket(entries, ReadyAt(entries, n))

(* The indexes are those of the entries.                                   *)
GoodIndexes(shard) ==
    /\ shard \in ModelShards
    /\ \A n \in Priorities :
          /\ GoodView(shard.ready[n].all, shard.entries, ReadyAt(shard.entries, n))
          /\ GoodView(shard.ready[n].ws, shard.entries, WebsocketAt(shard.entries, n))
    /\ shard.blocked = EntriesIn(shard.entries, Waiting)

LEMMA EmptyShardTyped == EmptyShard \in ModelShards
<1>1. <<>> \in Seq(Auths) /\ <<>> \in Seq(Parents) /\ 0 \in Nat
  OBVIOUS
<1>2. NoView \in Views
  BY <1>1 DEF NoView, Views
<1> QED
  BY <1>2 DEF EmptyShard, ModelShards, NoBucket

LEMMA ReadyPresent ==
    ASSUME NEW entries, NEW n
    PROVE  /\ ReadyAt(entries, n) \in SUBSET Present(entries)
           /\ WebsocketAt(entries, n) \in SUBSET ReadyAt(entries, n)
           /\ WebsocketAt(entries, n) \in SUBSET Present(entries)
BY DEF ReadyAt, EntriesIn, Present, WebsocketAt, Websocket

LEMMA Rebuilt ==
    ASSUME NEW shard \in ModelShards, NEW entries \in EntryMaps
    PROVE  /\ GoodIndexes(rebuildIndexesLocked(shard, entries))
           /\ rebuildIndexesLocked(shard, entries).entries = entries
<1> DEFINE All(n) == restoreReadyViewCursors(
                        buildReadyView(entries, ReadyAt(entries, n)), shard.ready[n].all)
           Ws(n)  == restoreReadyViewCursors(
                        buildReadyView(entries, WebsocketAt(entries, n)), shard.ready[n].ws)
           new    == rebuildIndexesLocked(shard, entries)
<1>1. new = [entries |-> entries,
             ready   |-> [n \in Priorities |-> [all |-> All(n), ws |-> Ws(n)]],
             blocked |-> EntriesIn(entries, Waiting)]
  BY DEF rebuildIndexesLocked, WebsocketAt, Waiting
<1>2. ASSUME NEW n \in Priorities
      PROVE  /\ GoodView(All(n), entries, ReadyAt(entries, n))
             /\ GoodView(Ws(n), entries, WebsocketAt(entries, n))
  <2>1. shard.ready[n].all \in Views /\ shard.ready[n].ws \in Views
    BY DEF ModelShards
  <2> QED
    BY <2>1, ReadyPresent, RestoredView
<1> HIDE DEF All, Ws, new
<1>3. \A n \in Priorities : All(n) \in Views /\ Ws(n) \in Views
  BY <1>2 DEF GoodView
<1>4. EntriesIn(entries, Waiting) \in SUBSET Auths
  BY DEF EntriesIn
<1>5. new \in ModelShards
  BY <1>1, <1>3, <1>4 DEF ModelShards, EntryMaps
<1>6. GoodIndexes(new)
  BY <1>1, <1>2, <1>5 DEF GoodIndexes
<1> QED
  BY <1>1, <1>6 DEF new

(* When nothing changes that the indexes depend on, they need no rebuild.  *)
LEMMA SameIndexes ==
    ASSUME NEW shard, GoodIndexes(shard), NEW a \in Present(shard.entries),
           NEW entry \in Entries, IndexKey(entry) = IndexKey(shard.entries[a])
    PROVE  GoodIndexes([shard EXCEPT !.entries = [shard.entries EXCEPT ![a] = entry]])
<1> DEFINE old == shard.entries
           new == [shard.entries EXCEPT ![a] = entry]
           changed == [shard EXCEPT !.entries = new]
<1>1. shard \in ModelShards /\ old \in EntryMaps /\ a \in Auths
  BY DEF GoodIndexes, ModelShards, EntryMaps, Present
<1>2. new \in EntryMaps
  BY <1>1 DEF EntryMaps
<1>3. entry # None /\ old[a] # None
  BY NoneIsNothing DEF Present
<1>4. /\ entry.state = old[a].state
      /\ entry.meta.auth.priority = old[a].meta.auth.priority
      /\ entry.meta.auth.parent = old[a].meta.auth.parent
      /\ entry.meta.auth.ws = old[a].meta.auth.ws
  BY DEF IndexKey
<1>5. ASSUME NEW b \in Auths
      PROVE  /\ (new[b] # None) <=> (old[b] # None)
             /\ new[b].state = old[b].state
             /\ new[b].meta.auth.priority = old[b].meta.auth.priority
             /\ Group(new, b) = Group(old, b)
             /\ new[b].meta.auth.ws = old[b].meta.auth.ws
  BY <1>1, <1>3, <1>4 DEF Group, EntryMaps
<1> HIDE DEF old, new
<1>6. \A states : EntriesIn(new, states) = EntriesIn(old, states)
  BY <1>5 DEF EntriesIn
<1>7. \A n : ReadyAt(new, n) = ReadyAt(old, n)
  BY <1>5, <1>6 DEF ReadyAt, EntriesIn
<1>8. \A n : WebsocketAt(new, n) = WebsocketAt(old, n)
  BY <1>5, <1>7 DEF WebsocketAt, Websocket, ReadyAt, EntriesIn
<1>9. ASSUME NEW S \in SUBSET Auths, NEW view, GoodView(view, old, S)
      PROVE  GoodView(view, new, S)
  <2>1. Groups(new, S) = Groups(old, S)
    BY <1>5 DEF Groups
  <2>2. \A g : InGroup(new, S, g) = InGroup(old, S, g)
    BY <1>5 DEF InGroup
  <2>3. GroupOrder(new, S) = GroupOrder(old, S) /\ GroupItems(new, S) = GroupItems(old, S)
    BY <2>1, <2>2 DEF GroupOrder, GroupItems, IsGrouped
  <2> QED
    BY <1>9, <2>3 DEF GoodView, Shows
<1>10. /\ changed \in ModelShards /\ changed.entries = new
       /\ changed.ready = shard.ready /\ changed.blocked = shard.blocked
  BY <1>1, <1>2 DEF ModelShards, EntryMaps
<1> HIDE DEF changed
<1>11. \A n : ReadyAt(old, n) \in SUBSET Auths /\ WebsocketAt(old, n) \in SUBSET Auths
  BY DEF WebsocketAt, Websocket, ReadyAt, EntriesIn
<1>12. GoodIndexes(changed)
  BY <1>6, <1>7, <1>8, <1>9, <1>10, <1>11 DEF GoodIndexes, old
<1> QED
  BY <1>12 DEF changed, new

----------------------------------------------------------------------------
(* Entries. *)

(* An auth that the selectors would pass over for good, or until a time.   *)
Disabled(auth, m) == auth.status = "disabled" \/ auth.states[m].disabled

Held(auth, m, at) ==
    auth.states[m].unavailable /\ After(auth.states[m].nextRetryAfter, at)

LEMMA Verdict ==
    ASSUME NEW auth \in AuthSnapshots, NEW m \in ModelKeys, NEW at \in Nat
    PROVE  LET verdict == isAuthBlockedForModel(auth, m, at)
           IN  /\ verdict = NotBlocked <=> verdict.reason = "none"
               /\ verdict.reason = "none" <=> ~ Disabled(auth, m) /\ ~ Held(auth, m, at)
               /\ verdict.reason = "disabled" <=> Disabled(auth, m)
               /\ verdict.reason \in {"none", "disabled", "cooldown", "other"}
               /\ verdict.reason = "cooldown" => auth.states[m].exceeded
               /\ verdict.reason \in Waiting => verdict.next \in Nat /\ verdict.next > at
               /\ verdict.next \in Times
<1> DEFINE state == auth.states[m]
           later == IF After(state.nextRecoverAt, at) THEN state.nextRecoverAt
                    ELSE state.nextRetryAfter
<1>1. state \in ModelStates
  BY DEF AuthSnapshots
<1>2. Held(auth, m, at) => later \in Nat /\ later > at
  BY <1>1 DEF Held, After, ModelStates, Times
<1>3. CASE Disabled(auth, m)
  <2>1. isAuthBlockedForModel(auth, m, at) = [reason |-> "disabled", next |-> None]
    BY <1>3 DEF isAuthBlockedForModel, Disabled
  <2> QED
    BY <1>3, <2>1 DEF NotBlocked, Waiting, Times
<1>4. CASE ~ Disabled(auth, m) /\ ~ Held(auth, m, at)
  <2>1. isAuthBlockedForModel(auth, m, at) = NotBlocked
    BY <1>4 DEF isAuthBlockedForModel, Disabled, Held
  <2> QED
    BY <1>4, <2>1 DEF NotBlocked, Waiting, Times
<1>5. CASE ~ Disabled(auth, m) /\ Held(auth, m, at)
  <2>1. isAuthBlockedForModel(auth, m, at) =
           [reason |-> IF state.exceeded THEN "cooldown" ELSE "other", next |-> later]
    BY <1>5 DEF isAuthBlockedForModel, Disabled, Held
  <2> HIDE DEF state, later
  <2> QED
    BY <1>2, <1>5, <2>1 DEF NotBlocked, Waiting, Times, state
<1> QED
  BY <1>3, <1>4, <1>5

(* The entry of an auth, as it is evaluated at some instant.               *)
LEMMA Evaluated ==
    ASSUME NEW meta \in Metas, NEW m \in ModelKeys, NEW at \in Nat
    PROVE  LET entry == Evaluate(meta, m, at)
           IN  /\ entry \in Entries /\ entry # None /\ entry.meta = meta
               /\ entry.state = "ready" <=> ~ Disabled(meta.auth, m) /\ ~ Held(meta.auth, m, at)
               /\ entry.state = "disabled" <=> Disabled(meta.auth, m)
               /\ entry.state = "cooldown" => meta.auth.states[m].exceeded
               /\ entry.state \in Waiting => entry.nextRetryAt \in Nat /\ entry.nextRetryAt > at
<1> DEFINE verdict == isAuthBlockedForModel(meta.auth, m, at)
           entry == Evaluate(meta, m, at)
<1>1. meta.auth \in AuthSnapshots
  BY MetaTyped
<1>2. /\ verdict.reason = "none" <=> ~ Disabled(meta.auth, m) /\ ~ Held(meta.auth, m, at)
      /\ verdict.reason = "disabled" <=> Disabled(meta.auth, m)
      /\ verdict.reason \in {"none", "disabled", "cooldown", "other"}
      /\ verdict.reason = "cooldown" => meta.auth.states[m].exceeded
      /\ verdict.reason \in Waiting => verdict.next \in Nat /\ verdict.next > at
      /\ verdict.next \in Times
  BY <1>1, Verdict
<1>3. entry = [meta |-> meta,
               state |-> IF verdict.reason = "none" THEN "ready" ELSE verdict.reason,
               nextRetryAt |-> verdict.next]
  BY DEF Evaluate
<1> HIDE DEF verdict, entry
<1>4. entry \in Entries
  BY <1>2, <1>3 DEF Entries, States
<1>5. entry # None
  BY <1>4, NoneIsNothing
<1> QED
  BY <1>2, <1>3, <1>4, <1>5 DEF entry, Waiting

(* The entries are the provider's auths that support the model, each as it *)
(* was evaluated at some time before now.                                  *)
EntryOf(entry, meta, m, at) ==
    /\ (entry # None) <=> (meta # None /\ supportsModel(meta, m))
    /\ entry # None => /\ entry.meta = meta
                       /\ \E t \in 0..at : entry = Evaluate(meta, m, t)

GoodEntries(entries, auths, m, at) ==
    /\ entries \in EntryMaps
    /\ \A a \in Auths : EntryOf(entries[a], auths[a], m, at)

GoodShard(shard, auths, m, at) ==
    GoodIndexes(shard) /\ GoodEntries(shard.entries, auths, m, at)

AuthMaps == [Auths -> Metas \cup {None}]

LEMMA ShardRebuilt ==
    ASSUME NEW shard \in ModelShards, NEW entries, NEW auths, NEW m, NEW at,
           GoodEntries(entries, auths, m, at)
    PROVE  GoodShard(rebuildIndexesLocked(shard, entries), auths, m, at)
BY Rebuilt DEF GoodShard, GoodEntries

LEMMA EntryNow ==
    ASSUME NEW meta \in Metas, NEW m \in ModelKeys, NEW at \in Nat, supportsModel(meta, m)
    PROVE  EntryOf(Evaluate(meta, m, at), meta, m, at)
<1>1. at \in 0..at /\ meta # None
  BY NoneIsNothing
<1> QED
  BY <1>1, Evaluated DEF EntryOf

LEMMA EntryUpserted ==
    ASSUME NEW auths \in AuthMaps, NEW m \in ModelKeys, NEW at \in Nat,
           NEW shard, GoodShard(shard, auths, m, at),
           NEW a \in Auths, NEW meta \in Metas, supportsModel(meta, m)
    PROVE  GoodShard(upsertEntryLocked(shard, a, meta, m, at), [auths EXCEPT ![a] = meta], m, at)
<1> DEFINE entry == Evaluate(meta, m, at)
           entries == [shard.entries EXCEPT ![a] = entry]
<1>1. shard \in ModelShards /\ shard.entries \in EntryMaps
  BY DEF GoodShard, GoodIndexes, GoodEntries
<1>2. entry \in Entries /\ entry # None
  BY Evaluated
<1>3. EntryOf(entry, meta, m, at)
  BY EntryNow
<1> HIDE DEF entry
<1>4. GoodEntries(entries, [auths EXCEPT ![a] = meta], m, at)
  <2>1. entries \in EntryMaps
    BY <1>1, <1>2 DEF EntryMaps
  <2>2. ASSUME NEW b \in Auths
        PROVE  EntryOf(entries[b], [auths EXCEPT ![a] = meta][b], m, at)
    BY <1>1, <1>3 DEF GoodShard, GoodEntries, EntryMaps, AuthMaps
  <2> HIDE DEF entries
  <2> QED
    BY <2>1, <2>2 DEF GoodEntries
<1>5. CASE shard.entries[a] # None /\ IndexKey(shard.entries[a]) = IndexKey(entry)
  <2>1. GoodIndexes([shard EXCEPT !.entries = entries])
    BY <1>2, <1>5, SameIndexes DEF GoodShard, Present
  <2>2. [shard EXCEPT !.entries = entries].entries = entries
    BY <1>1 DEF ModelShards
  <2>3. upsertEntryLocked(shard, a, meta, m, at) = [shard EXCEPT !.entries = entries]
    BY <1>5 DEF upsertEntryLocked, entry
  <2> HIDE DEF entries
  <2> QED
    BY <1>4, <2>1, <2>2, <2>3 DEF GoodShard
<1>6. CASE ~ (shard.entries[a] # None /\ IndexKey(shard.entries[a]) = IndexKey(entry))
  <2>1. upsertEntryLocked(shard, a, meta, m, at) = rebuildIndexesLocked(shard, entries)
    BY <1>6 DEF upsertEntryLocked, entry
  <2> QED
    BY <1>1, <1>4, <2>1, ShardRebuilt
<1> QED
  BY <1>5, <1>6

LEMMA EntryRemoved ==
    ASSUME NEW auths \in AuthMaps, NEW m \in ModelKeys, NEW at \in Nat,
           NEW shard, GoodShard(shard, auths, m, at),
           NEW a \in Auths, NEW meta, meta = None \/ ~ supportsModel(meta, m)
    PROVE  GoodShard(removeEntryLocked(shard, a), [auths EXCEPT ![a] = meta], m, at)
<1> DEFINE left == [auths EXCEPT ![a] = meta]
<1>1. shard \in ModelShards /\ shard.entries \in EntryMaps
  BY DEF GoodShard, GoodIndexes, GoodEntries
<1>2. \A b \in Auths : left[b] = IF b = a THEN meta ELSE auths[b]
  BY DEF AuthMaps
<1>3. EntryOf(None, meta, m, at)
  BY DEF EntryOf
<1> HIDE DEF left
<1>4. CASE shard.entries[a] = None
  <2>1. GoodEntries(shard.entries, left, m, at)
    BY <1>2, <1>3, <1>4 DEF GoodShard, GoodEntries
  <2> QED
    BY <1>4, <2>1 DEF GoodShard, removeEntryLocked, left
<1>5. CASE shard.entries[a] # None
  <2> DEFINE entries == [shard.entries EXCEPT ![a] = None]
  <2>1. entries \in EntryMaps /\ \A b \in Auths : entries[b] = IF b = a THEN None ELSE shard.entries[b]
    BY <1>1 DEF EntryMaps
  <2> HIDE DEF entries
  <2>2. GoodEntries(entries, left, m, at)
    BY <1>2, <1>3, <2>1 DEF GoodShard, GoodEntries
  <2>3. removeEntryLocked(shard, a) = rebuildIndexesLocked(shard, entries)
    BY <1>5 DEF removeEntryLocked, entries
  <2> QED
    BY <1>1, <2>2, <2>3, ShardRebuilt DEF left
<1> QED
  BY <1>4, <1>5

----------------------------------------------------------------------------
(* A shard that is brought up to date. *)

LEMMA HeldLonger ==
    ASSUME NEW auth \in AuthSnapshots, NEW m \in ModelKeys, NEW at \in Nat, NEW t \in 0..at,
           Held(auth, m, at)
    PROVE  Held(auth, m, t)
<1>1. auth.states[m] \in ModelStates
  BY DEF AuthSnapshots
<1> QED
  BY <1>1 DEF Held, After, ModelStates, Times

(* What the states of an entry say, at a time after its evaluation.        *)
LEMMA EntrySays ==
    ASSUME NEW auths \in AuthMaps, NEW m \in ModelKeys, NEW at \in Nat,
           NEW entries, GoodEntries(entries, auths, m, at), NEW a \in Present(entries)
    PROVE  /\ a \in Auths /\ entries[a] \in Entries
           /\ auths[a] \in Metas /\ entries[a].meta = auths[a] /\ supportsModel(auths[a], m)
           /\ auths[a].auth \in AuthSnapshots
           /\ entries[a].state = "ready" =>
                 ~ Disabled(auths[a].auth, m) /\ ~ Held(auths[a].auth, m, at)
           /\ entries[a].state = "disabled" <=> Disabled(auths[a].auth, m)
           /\ entries[a].state = "cooldown" => auths[a].auth.states[m].exceeded
           /\ entries[a].state \in Waiting => entries[a].nextRetryAt \in Nat
<1>1. a \in Auths /\ entries[a] # None /\ entries[a] \in Entries
  BY EntryTyped DEF Present, GoodEntries
<1>2. PICK t \in 0..at : entries[a] = Evaluate(auths[a], m, t)
  BY <1>1 DEF GoodEntries, EntryOf
<1>3. auths[a] \in Metas /\ entries[a].meta = auths[a] /\ supportsModel(auths[a], m)
  BY <1>1 DEF GoodEntries, EntryOf, AuthMaps
<1>4. auths[a].auth \in AuthSnapshots
  BY <1>3, MetaTyped
<1>5. t \in Nat
  OBVIOUS
<1> QED
  BY <1>1, <1>2, <1>3, <1>4, <1>5, Evaluated, HeldLonger

(* A free auth is ready, or was told to wait longer before (waits).        *)
UpToDate(shard, auths, m, at, waits) ==
    \A a \in Present(shard.entries) :
       /\ shard.entries[a].state = "ready" <=>
             /\ ~ Disabled(auths[a].auth, m)
             /\ ~ Held(auths[a].auth, m, at)
             /\ a \notin waits
       /\ shard.entries[a].state \in Waiting => shard.entries[a].nextRetryAt > at

(* The auths a shard still holds back at some time.                        *)
Waits(shard, at) == {a \in shard.blocked : shard.entries[a].nextRetryAt > at}

LEMMA Promoted ==
    ASSUME NEW auths \in AuthMaps, NEW m \in ModelKeys, NEW at \in Nat,
           NEW shard, GoodShard(shard, auths, m, at)
    PROVE  /\ GoodShard(promoteExpiredLocked(shard, m, at), auths, m, at)
           /\ UpToDate(promoteExpiredLocked(shard, m, at), auths, m, at, Waits(shard, at))
<1> DEFINE old == shard.entries
           due == {a \in shard.blocked : old[a].nextRetryAt <= at}
           Again(a) == Evaluate(old[a].meta, m, at)
           entries == [a \in Auths |-> IF a \in due THEN Again(a) ELSE old[a]]
           new == promoteExpiredLocked(shard, m, at)
<1>1. shard \in ModelShards /\ old \in EntryMaps /\ GoodEntries(old, auths, m, at)
  BY DEF GoodShard, GoodIndexes, GoodEntries
<1>2. shard.blocked = {a \in Present(old) : old[a].state \in Waiting}
  BY DEF GoodShard, GoodIndexes, EntriesIn, Present
<1>3. new = IF due = {} THEN shard ELSE rebuildIndexesLocked(shard, entries)
  BY DEF promoteExpiredLocked
<1>4. due \in SUBSET Present(old) /\ Present(old) \in SUBSET Auths
  BY <1>2 DEF Present
<1> HIDE DEF old, due
<1>5. ASSUME NEW a \in due
      PROVE  /\ auths[a] \in Metas /\ old[a].meta = auths[a] /\ old[a] # None
             /\ EntryOf(Again(a), auths[a], m, at)
             /\ Again(a) \in Entries /\ Again(a) # None
             /\ Again(a).state = "ready" <=>
                   ~ Disabled(auths[a].auth, m) /\ ~ Held(auths[a].auth, m, at)
             /\ Again(a).state \in Waiting => Again(a).nextRetryAt > at
  <2>1. a \in Present(old)
    BY <1>4
  <2>2. auths[a] \in Metas /\ old[a].meta = auths[a] /\ supportsModel(auths[a], m)
    BY <1>1, <2>1, EntrySays
  <2> QED
    BY <2>1, <2>2, EntryNow, Evaluated DEF Present
<1> HIDE DEF Again
<1>6. entries \in EntryMaps /\ Present(entries) = Present(old)
  BY <1>1, <1>4, <1>5 DEF EntryMaps, Present
<1>7. \A a \in Auths : entries[a] = IF a \in due THEN Again(a) ELSE old[a]
  OBVIOUS
<1>8. due = {} => entries = old
  BY <1>1 DEF EntryMaps
<1> HIDE DEF entries
<1>9. GoodEntries(entries, auths, m, at)
  <2>1. ASSUME NEW a \in Auths PROVE EntryOf(entries[a], auths[a], m, at)
    BY <1>1, <1>5, <1>7 DEF GoodEntries
  <2> QED
    BY <1>6, <2>1 DEF GoodEntries
<1>10. GoodShard(new, auths, m, at) /\ new.entries = entries
  <2>1. CASE due = {}
    BY <1>3, <1>8, <2>1 DEF old
  <2>2. CASE due # {}
    BY <1>1, <1>3, <1>6, <1>9, <2>2, ShardRebuilt, Rebuilt
  <2> QED
    BY <2>1, <2>2
<1>11. ASSUME NEW a \in Present(entries)
       PROVE  /\ entries[a].state = "ready" <=>
                    /\ ~ Disabled(auths[a].auth, m)
                    /\ ~ Held(auths[a].auth, m, at)
                    /\ a \notin Waits(shard, at)
              /\ entries[a].state \in Waiting => entries[a].nextRetryAt > at
  <2>1. a \in Present(old) /\ a \in Auths
    BY <1>4, <1>6
  <2>2. CASE a \in due
    <3>1. old[a].nextRetryAt \in Nat /\ old[a].nextRetryAt <= at
      BY <1>1, <1>2, <2>1, <2>2, EntrySays DEF due
    <3>2. a \notin Waits(shard, at)
      BY <3>1 DEF Waits, old
    <3> QED
      BY <1>5, <1>7, <2>1, <2>2, <3>2
  <2>3. CASE a \notin due /\ old[a].state \in Waiting
    <3>1. old[a].nextRetryAt \in Nat /\ a \in shard.blocked
      BY <1>1, <1>2, <2>1, <2>3, EntrySays
    <3>2. old[a].nextRetryAt > at
      BY <2>3, <3>1 DEF due
    <3>3. a \in Waits(shard, at) /\ old[a].state # "ready"
      BY <2>3, <3>1, <3>2 DEF Waits, Waiting, old
    <3> QED
      BY <1>7, <2>1, <2>3, <3>2, <3>3
  <2>4. CASE a \notin due /\ old[a].state \notin Waiting
    <3>1. a \notin Waits(shard, at)
      BY <1>2, <2>4 DEF Waits
    <3>2. old[a].state \in {"ready", "disabled"}
      BY <1>1, <2>1, <2>4, EntrySays DEF Entries, States, Waiting
    <3> QED
      BY <1>1, <1>7, <2>1, <2>4, <3>1, <3>2, EntrySays
  <2> QED
    BY <2>2, <2>3, <2>4
<1> QED
  BY <1>10, <1>11 DEF UpToDate

GoodProvider(state, at) ==
    /\ state \in ProviderSchedulers
    /\ \A m \in ModelKeys : state.shards[m] # NoShard =>
          GoodShard(state.shards[m], state.auths, m, at)

(* The auths of a provider that a shard of it still holds back.            *)
HeldIn(state, m, at) ==
    IF state.shards[m] = NoShard THEN {} ELSE Waits(state.shards[m], at)

LEMMA Ensured ==
    ASSUME NEW at \in Nat, NEW state, GoodProvider(state, at), NEW m \in ModelKeys
    PROVE  /\ GoodShard(ensureModelLocked(state, m, at), state.auths, m, at)
           /\ UpToDate(ensureModelLocked(state, m, at), state.auths, m, at,
                       HeldIn(state, m, at))
<1>1. state.auths \in AuthMaps
  BY DEF GoodProvider, ProviderSchedulers, AuthMaps
<1>2. CASE state.shards[m] # NoShard
  BY <1>1, <1>2, Promoted DEF GoodProvider, ensureModelLocked, HeldIn
<1>3. CASE state.shards[m] = NoShard
  <2> DEFINE auths == state.auths
             Known(a) == auths[a] # None /\ supportsModel(auths[a], m)
             entries == [a \in Auths |-> IF auths[a] = None \/ ~ supportsModel(auths[a], m)
                                         THEN None ELSE Evaluate(auths[a], m, at)]
             new == rebuildIndexesLocked(EmptyShard, entries)
  <2>1. ensureModelLocked(state, m, at) = new
    BY <1>3 DEF ensureModelLocked
  <2> HIDE DEF auths, new
  <2>2. ASSUME NEW a \in Auths, Known(a)
        PROVE  /\ entries[a] = Evaluate(auths[a], m, at)
               /\ entries[a] \in Entries /\ entries[a] # None
               /\ EntryOf(entries[a], auths[a], m, at)
               /\ entries[a].state = "ready" <=>
                     ~ Disabled(auths[a].auth, m) /\ ~ Held(auths[a].auth, m, at)
               /\ entries[a].state \in Waiting => entries[a].nextRetryAt > at
    <3>1. auths[a] \in Metas
      BY <1>1, <2>2 DEF auths, AuthMaps
    <3>2. entries[a] = Evaluate(auths[a], m, at)
      BY <2>2
    <3> HIDE DEF entries
    <3> QED
      BY <2>2, <3>1, <3>2, EntryNow, Evaluated
  <2>3. ASSUME NEW a \in Auths, ~ Known(a)
        PROVE  entries[a] = None /\ EntryOf(entries[a], auths[a], m, at)
    BY <2>3 DEF EntryOf
  <2>4. entries \in EntryMaps
    BY <2>2, <2>3 DEF EntryMaps
  <2> HIDE DEF entries
  <2>5. GoodEntries(entries, auths, m, at)
    BY <2>2, <2>3, <2>4 DEF GoodEntries
  <2>6. GoodShard(new, auths, m, at) /\ new.entries = entries
    BY <2>4, <2>5, EmptyShardTyped, ShardRebuilt, Rebuilt DEF new
  <2>7. UpToDate(new, auths, m, at, {})
    BY <2>2, <2>3, <2>6 DEF UpToDate, Present
  <2> QED
    BY <1>3, <2>1, <2>6, <2>7 DEF auths, HeldIn
<1> QED
  BY <1>2, <1>3

----------------------------------------------------------------------------
(* Picks from a shard. *)

(* The auths a pick at one level chooses from.                             *)
LevelPool(entries, preferWebsocket, n, allowed) ==
    IF preferWebsocket /\ WebsocketAt(entries, n) \cap allowed # {}
    THEN WebsocketAt(entries, n) ELSE ReadyAt(entries, n)

LEMMA PickedAtPriority ==
    ASSUME NEW shard, GoodIndexes(shard), NEW n \in Priorities, NEW how, NEW allowed,
           NEW preferWebsocket \in BOOLEAN
    PROVE  LET picked == pickReadyAtPriorityLocked(shard, preferWebsocket, n, how, allowed)
               pool   == LevelPool(shard.entries, preferWebsocket, n, allowed) \cap allowed
           IN  /\ GoodIndexes(picked.shard)
               /\ picked.shard.entries = shard.entries
               /\ pool = {} => picked.auth = None
               /\ pool # {} => picked.auth \in pool
               /\ pool # {} /\ how = "fill-first" => \A a \in pool : picked.auth <= a
<1> DEFINE entries == shard.entries
           S == LevelPool(entries, preferWebsocket, n, allowed)
           class == IF preferWebsocket /\ pickFirst(shard.ready[n].ws, allowed) # None
                    THEN "ws" ELSE "all"
           view == shard.ready[n][class]
           chosen == IF how = "fill-first"
                     THEN [auth |-> pickFirst(view, allowed), view |-> view]
                     ELSE pickRoundRobin(view, allowed)
           new == [shard EXCEPT !.ready[n][class] = chosen.view]
<1>1. /\ shard \in ModelShards /\ entries \in EntryMaps
      /\ GoodView(shard.ready[n].all, entries, ReadyAt(entries, n))
      /\ GoodView(shard.ready[n].ws, entries, WebsocketAt(entries, n))
  BY DEF GoodIndexes, ModelShards, EntryMaps
<1>2. pickReadyAtPriorityLocked(shard, preferWebsocket, n, how, allowed) =
         [auth |-> chosen.auth, shard |-> new]
  BY DEF pickReadyAtPriorityLocked
<1>3. S \in SUBSET Present(entries) /\ S \in SUBSET Auths
  BY ReadyPresent DEF LevelPool, Present
<1>4. pickFirst(shard.ready[n].ws, allowed) # None <=> WebsocketAt(entries, n) \cap allowed # {}
  <2>1. \A a \in Auths : a # None
    BY SchedulerConstants
  <2>2. WebsocketAt(entries, n) \in SUBSET Present(entries) /\ Present(entries) \in SUBSET Auths
    BY ReadyPresent DEF Present
  <2> DEFINE W == WebsocketAt(entries, n)
             first == pickFirst(shard.ready[n].ws, allowed)
  <2>3. /\ W \cap allowed = {} => first = None
        /\ W \cap allowed # {} => first \in W \cap allowed
    <3> DEFINE view0 == shard.ready[n].ws
    <3> HIDE DEF W
    <3>1. W \in SUBSET Present(entries) /\ GoodView(view0, entries, W)
      BY <1>1, <2>2 DEF W
    <3>2. entries \in EntryMaps
      BY <1>1
    <3> HIDE DEF view0, entries
    <3>3. /\ W \cap allowed = {} => pickFirst(view0, allowed) = None
          /\ W \cap allowed # {} => pickFirst(view0, allowed) \in W \cap allowed
      BY <3>1, <3>2, FirstPicked
    <3> QED
      BY <3>3 DEF view0
  <2> HIDE DEF W, first
  <2>4. W \in SUBSET Auths
    BY <2>2 DEF W
  <2>5. first # None <=> W \cap allowed # {}
    BY <2>1, <2>3, <2>4
  <2> QED
    BY <2>5 DEF W, first
<1> HIDE DEF entries
<1>5. class \in {"all", "ws"} /\ GoodView(view, entries, S)
  BY <1>1, <1>4 DEF LevelPool
<1>6. class = "all" => S = ReadyAt(entries, n)
  BY <1>4 DEF LevelPool
<1>7. class = "ws" => S = WebsocketAt(entries, n)
  BY <1>4 DEF LevelPool
<1> HIDE DEF class, S
<1>8. /\ GoodView(chosen.view, entries, S)
      /\ S \cap allowed = {} => chosen.auth = None
      /\ S \cap allowed # {} => chosen.auth \in S \cap allowed
      /\ S \cap allowed # {} /\ how = "fill-first" => \A a \in S \cap allowed : chosen.auth <= a
  <2> HIDE DEF view
  <2>1. CASE how = "fill-first"
    <3>1. chosen = [auth |-> pickFirst(view, allowed), view |-> view]
      BY <2>1
    <3> HIDE DEF chosen
    <3>2. /\ S \cap allowed = {} => pickFirst(view, allowed) = None
          /\ S \cap allowed # {} => /\ pickFirst(view, allowed) \in S \cap allowed
                                   /\ \A a \in S \cap allowed : pickFirst(view, allowed) <= a
      BY <1>1, <1>3, <1>5, FirstPicked
    <3>3. chosen.auth = pickFirst(view, allowed) /\ chosen.view = view
      BY <3>1
    <3> QED
      BY <1>5, <3>2, <3>3
  <2>2. CASE how # "fill-first"
    <3>1. chosen = pickRoundRobin(view, allowed)
      BY <2>2
    <3> HIDE DEF chosen
    <3>2. PicksFrom(chosen, entries, S, allowed)
      BY <1>1, <1>3, <1>5, <3>1, RoundRobinPicked
    <3> QED
      BY <2>2, <3>2 DEF PicksFrom
  <2> QED
    BY <2>1, <2>2
<1> HIDE DEF chosen, view
<1>9. chosen.view \in Views
  BY <1>8 DEF GoodView
<1>10. /\ new \in ModelShards /\ new.entries = entries /\ new.blocked = shard.blocked
       /\ \A k \in Priorities : /\ new.ready[k].all = IF k = n /\ class = "all" THEN chosen.view
                                                      ELSE shard.ready[k].all
                                /\ new.ready[k].ws = IF k = n /\ class = "ws" THEN chosen.view
                                                     ELSE shard.ready[k].ws
  BY <1>1, <1>5, <1>9 DEF ModelShards, entries
<1> HIDE DEF new
<1>11. GoodIndexes(new)
  BY <1>6, <1>7, <1>8, <1>10 DEF GoodIndexes, entries
<1> QED
  BY <1>2, <1>8, <1>10, <1>11 DEF S, entries

LEMMA Levels ==
    ASSUME NEW shard, GoodIndexes(shard), NEW allowed
    PROVE  /\ LevelsWith(shard, "all", allowed) =
                {n \in Priorities : ReadyAt(shard.entries, n) \cap allowed # {}}
           /\ LevelsWith(shard, "ws", allowed) =
                {n \in Priorities : WebsocketAt(shard.entries, n) \cap allowed # {}}
<1> DEFINE entries == shard.entries
<1>1. ASSUME NEW n \in Priorities
      PROVE  /\ Range(shard.ready[n].all.flat) = ReadyAt(entries, n)
             /\ Range(shard.ready[n].ws.flat) = WebsocketAt(entries, n)
  <2>1. ReadyAt(entries, n) \in SUBSET Auths /\ WebsocketAt(entries, n) \in SUBSET Auths
    BY DEF ReadyAt, WebsocketAt, Websocket, EntriesIn
  <2>2. /\ shard.ready[n].all.flat = IDs(ReadyAt(entries, n))
        /\ shard.ready[n].ws.flat = IDs(WebsocketAt(entries, n))
    BY DEF GoodIndexes, GoodView, Shows
  <2> QED
    BY <2>1, <2>2, SomeIDs
<1> QED
  BY <1>1 DEF LevelsWith

ReadyIn(entries, allowed) == EntriesIn(entries, {"ready"}) \cap allowed

Priority(entries, a) == entries[a].meta.auth.priority

(* The auths a pick over all levels chooses from.                          *)
ReadyPool(entries, preferWebsocket, allowed) ==
    IF preferWebsocket /\ Websocket(entries, ReadyIn(entries, allowed)) # {}
    THEN Websocket(entries, ReadyIn(entries, allowed)) ELSE ReadyIn(entries, allowed)

Foremost(entries, S) == {a \in S : \A b \in S : Priority(entries, b) <= Priority(entries, a)}

(* The level that is picked from holds the foremost of them.               *)
LEMMA HighestReady ==
    ASSUME NEW shard, GoodIndexes(shard), NEW allowed, NEW preferWebsocket \in BOOLEAN
    PROVE  LET n    == highestReadyPriorityLocked(shard, preferWebsocket, allowed)
               pool == ReadyPool(shard.entries, preferWebsocket, allowed)
           IN  /\ pool = {} => n = None
               /\ pool # {} =>
                     /\ n \in Priorities /\ n # None
                     /\ LevelPool(shard.entries, preferWebsocket, n, allowed) \cap allowed # {}
                     /\ LevelPool(shard.entries, preferWebsocket, n, allowed) \cap allowed
                          = Foremost(shard.entries, pool)
<1> DEFINE entries == shard.entries
           R == ReadyIn(entries, allowed)
           W == Websocket(entries, R)
           n == highestReadyPriorityLocked(shard, preferWebsocket, allowed)
           pool == ReadyPool(entries, preferWebsocket, allowed)
           all == {k \in Priorities : ReadyAt(entries, k) \cap allowed # {}}
           ws  == {k \in Priorities : WebsocketAt(entries, k) \cap allowed # {}}
<1>1. /\ LevelsWith(shard, "all", allowed) = all
      /\ LevelsWith(shard, "ws", allowed) = ws
  BY Levels
<1>2. n = IF (IF preferWebsocket THEN ws ELSE {}) # {}
          THEN Highest(IF preferWebsocket THEN ws ELSE {})
          ELSE IF all # {} THEN Highest(all) ELSE None
  BY <1>1 DEF highestReadyPriorityLocked
<1>3. entries \in EntryMaps
  BY DEF GoodIndexes, ModelShards, EntryMaps
<1>4. \A k \in Priorities : k # None
  BY SchedulerConstants
<1>5. \A a \in Present(entries) : Priority(entries, a) \in Priorities
  BY <1>3, EntryTyped DEF Priority, AuthSnapshots
<1> HIDE DEF entries
<1>6. \A k : ReadyAt(entries, k) \cap allowed = {a \in R : Priority(entries, a) = k}
  BY DEF ReadyAt, ReadyIn, Priority
<1>7. \A k : WebsocketAt(entries, k) \cap allowed = {a \in W : Priority(entries, a) = k}
  BY <1>6 DEF WebsocketAt, Websocket
<1>8. W \in SUBSET R /\ R \in SUBSET Present(entries)
  BY DEF Websocket, ReadyIn, EntriesIn, Present
<1>9. pool = IF preferWebsocket /\ W # {} THEN W ELSE R
  BY DEF ReadyPool
<1> HIDE DEF R, W, n, pool
<1>10. ASSUME NEW T \in SUBSET R, T # {},
              NEW K, K = {k \in Priorities : {a \in T : Priority(entries, a) = k} # {}}
       PROVE  /\ K # {} /\ Highest(K) \in K
              /\ {a \in T : Priority(entries, a) = Highest(K)} = Foremost(entries, T)
  <2>1. \A a \in T : Priority(entries, a) \in K
    BY <1>5, <1>8, <1>10
  <2>2. K # {} /\ K \in SUBSET Priorities
    BY <1>10, <2>1
  <2>3. Highest(K) \in K /\ \A k \in K : k <= Highest(K)
    BY <2>2, HighestIsGreatest
  <2>4. PICK b \in T : Priority(entries, b) = Highest(K)
    BY <1>10, <2>3
  <2>5. \A k \in K : k \in Int
    BY <2>2, SchedulerConstants
  <2> QED
    BY <2>1, <2>2, <2>3, <2>4, <2>5 DEF Foremost
<1>11. CASE preferWebsocket /\ W # {}
  <2>1. ws = {k \in Priorities : {a \in W : Priority(entries, a) = k} # {}}
    BY <1>7
  <2> HIDE DEF ws, all
  <2>2. /\ ws # {} /\ Highest(ws) \in ws
        /\ {a \in W : Priority(entries, a) = Highest(ws)} = Foremost(entries, W)
    BY <1>8, <1>10, <1>11, <2>1
  <2>3. n = Highest(ws) /\ n \in Priorities
    BY <1>2, <1>11, <2>1, <2>2
  <2>4. WebsocketAt(entries, n) \cap allowed = Foremost(entries, W)
    BY <1>7, <2>2, <2>3
  <2>5. WebsocketAt(entries, n) \cap allowed # {}
    BY <2>2, <2>3 DEF ws
  <2>6. LevelPool(entries, preferWebsocket, n, allowed) = WebsocketAt(entries, n)
    BY <1>11, <2>5 DEF LevelPool
  <2> QED
    BY <1>4, <1>9, <1>11, <2>3, <2>4, <2>5, <2>6 DEF n, pool, entries
<1>12. CASE ~ (preferWebsocket /\ W # {})
  <2>1. preferWebsocket => ws = {} /\ \A k : WebsocketAt(entries, k) \cap allowed = {}
    BY <1>7, <1>12
  <2>2. all = {k \in Priorities : {a \in R : Priority(entries, a) = k} # {}}
    BY <1>6
  <2>3. n = IF all # {} THEN Highest(all) ELSE None
    BY <1>2, <2>1
  <2>4. \A k : LevelPool(entries, preferWebsocket, k, allowed) = ReadyAt(entries, k)
    BY <2>1 DEF LevelPool
  <2> HIDE DEF ws, all
  <2>5. CASE R = {}
    <3>1. all = {}
      BY <2>2, <2>5
    <3> QED
      BY <1>9, <1>12, <2>3, <2>5, <3>1 DEF n, pool, entries
  <2>6. CASE R # {}
    <3>1. /\ all # {} /\ Highest(all) \in all
          /\ {a \in R : Priority(entries, a) = Highest(all)} = Foremost(entries, R)
      BY <1>10, <2>2, <2>6
    <3>2. n = Highest(all) /\ n \in Priorities
      BY <2>2, <2>3, <3>1
    <3>3. ReadyAt(entries, n) \cap allowed = Foremost(entries, R)
      BY <1>6, <3>1, <3>2
    <3>4. ReadyAt(entries, n) \cap allowed # {}
      BY <3>1, <3>2 DEF all
    <3>5. pool = R
      BY <1>9, <1>12
    <3>6. /\ LevelPool(entries, preferWebsocket, n, allowed) \cap allowed # {}
          /\ LevelPool(entries, preferWebsocket, n, allowed) \cap allowed = Foremost(entries, pool)
      BY <2>4, <3>3, <3>4, <3>5
    <3>7. n \in Priorities /\ n # None /\ pool # {}
      BY <1>4, <2>6, <3>2, <3>5
    <3> QED
      BY <3>6, <3>7 DEF n, pool, entries
  <2> QED
    BY <2>5, <2>6
<1> QED
  BY <1>11, <1>12

(* pickReadyLocked: one of the foremost ready auths, if there is any.      *)
LEMMA PickedReady ==
    ASSUME NEW shard, GoodIndexes(shard), NEW allowed, NEW preferWebsocket \in BOOLEAN
    PROVE  LET picked == pickReadyLocked(shard, preferWebsocket, allowed)
               pool   == ReadyPool(shard.entries, preferWebsocket, allowed)
           IN  /\ GoodIndexes(picked.shard)
               /\ picked.shard.entries = shard.entries
               /\ pool = {} => picked.auth = None
               /\ pool # {} => /\ picked.auth \in Foremost(shard.entries, pool)
                               /\ picked.auth # None
                               /\ strategy = "fill-first" =>
                                     \A a \in Foremost(shard.entries, pool) : picked.auth <= a
<1> DEFINE n == highestReadyPriorityLocked(shard, preferWebsocket, allowed)
           pool == ReadyPool(shard.entries, preferWebsocket, allowed)
           picked == pickReadyLocked(shard, preferWebsocket, allowed)
           at == pickReadyAtPriorityLocked(shard, preferWebsocket, n, strategy, allowed)
           best == LevelPool(shard.entries, preferWebsocket, n, allowed) \cap allowed
<1>1. picked = IF n = None THEN [auth |-> None, shard |-> shard] ELSE at
  BY DEF pickReadyLocked
<1>2. /\ pool = {} => n = None
      /\ pool # {} => n \in Priorities /\ n # None /\ best # {}
                      /\ best = Foremost(shard.entries, pool)
  BY HighestReady
<1>3. pool # {} => /\ GoodIndexes(at.shard) /\ at.shard.entries = shard.entries
                   /\ at.auth \in best
                   /\ strategy = "fill-first" => \A a \in best : at.auth <= a
  BY <1>2, PickedAtPriority
<1>4. best \in SUBSET Auths /\ None \notin Auths
  <2>1. \A a \in Auths : a # None
    BY SchedulerConstants
  <2> QED
    BY <2>1 DEF LevelPool, WebsocketAt, Websocket, ReadyAt, EntriesIn
<1> HIDE DEF n, pool, picked, at, best
<1>5. CASE pool = {}
  <2>1. picked = [auth |-> None, shard |-> shard]
    BY <1>1, <1>2, <1>5
  <2> QED
    BY <1>5, <2>1 DEF picked, pool
<1>6. CASE pool # {}
  BY <1>1, <1>2, <1>3, <1>4, <1>6 DEF picked, pool
<1> QED
  BY <1>5, <1>6

----------------------------------------------------------------------------
(* Providers. *)

LEMMA ShardTyped ==
    ASSUME NEW shard, NEW auths, NEW m, NEW at, GoodShard(shard, auths, m, at)
    PROVE  shard \in ModelShards /\ shard # NoShard
BY NoneIsNothing DEF GoodShard, GoodIndexes, NoShard

LEMMA ProviderTyped ==
    ASSUME NEW state, NEW at, GoodProvider(state, at)
    PROVE  /\ state \in ProviderSchedulers /\ state # NoProvider
           /\ state.auths \in AuthMaps
BY NoneIsNothing DEF GoodProvider, ProviderSchedulers, AuthMaps, NoProvider

LEMMA ProviderUpserted ==
    ASSUME NEW at \in Nat, NEW state, GoodProvider(state, at),
           NEW a \in Auths, NEW meta \in Metas
    PROVE  /\ GoodProvider(providerUpsert(state, a, meta, at), at)
           /\ providerUpsert(state, a, meta, at).auths = [state.auths EXCEPT ![a] = meta]
<1> DEFINE auths == [state.auths EXCEPT ![a] = meta]
           Shard(m) == IF state.shards[m] = NoShard THEN NoShard
                       ELSE IF supportsModel(meta, m)
                       THEN upsertEntryLocked(state.shards[m], a, meta, m, at)
                       ELSE removeEntryLocked(state.shards[m], a)
           shards == [m \in ModelKeys |-> Shard(m)]
           new == providerUpsert(state, a, meta, at)
<1>1. new = [auths |-> auths, shards |-> shards]
  BY DEF providerUpsert
<1>2. state.auths \in AuthMaps /\ auths \in AuthMaps
  BY ProviderTyped DEF AuthMaps
<1>3. ASSUME NEW m \in ModelKeys, Shard(m) # NoShard
      PROVE  GoodShard(Shard(m), auths, m, at)
  <2>1. GoodShard(state.shards[m], state.auths, m, at)
    BY <1>3 DEF GoodProvider
  <2> QED
    BY <1>2, <1>3, <2>1, EntryUpserted, EntryRemoved
<1> HIDE DEF Shard, auths, new
<1>4. \A m \in ModelKeys : Shard(m) \in ModelShards \cup {None}
  BY <1>3, ShardTyped DEF NoShard
<1>5. new \in ProviderSchedulers
  BY <1>1, <1>2, <1>4 DEF ProviderSchedulers, AuthMaps
<1>6. GoodProvider(new, at)
  BY <1>1, <1>3, <1>5 DEF GoodProvider
<1> QED
  BY <1>1, <1>6 DEF new, auths

LEMMA ProviderRemoved ==
    ASSUME NEW at \in Nat, NEW state, GoodProvider(state, at), NEW a \in Auths
    PROVE  /\ GoodProvider(providerRemove(state, a), at)
           /\ providerRemove(state, a).auths = [state.auths EXCEPT ![a] = None]
<1> DEFINE auths == [state.auths EXCEPT ![a] = None]
           Shard(m) == IF state.shards[m] = NoShard THEN NoShard
                       ELSE removeEntryLocked(state.shards[m], a)
           shards == [m \in ModelKeys |-> Shard(m)]
           new == providerRemove(state, a)
<1>1. new = [auths |-> auths, shards |-> shards]
  BY DEF providerRemove
<1>2. state.auths \in AuthMaps /\ auths \in AuthMaps
  BY ProviderTyped DEF AuthMaps
<1>3. ASSUME NEW m \in ModelKeys, Shard(m) # NoShard
      PROVE  GoodShard(Shard(m), auths, m, at)
  <2>1. GoodShard(state.shards[m], state.auths, m, at)
    BY <1>3 DEF GoodProvider
  <2> QED
    BY <1>2, <1>3, <2>1, EntryRemoved
<1> HIDE DEF Shard, auths, new
<1>4. \A m \in ModelKeys : Shard(m) \in ModelShards \cup {None}
  BY <1>3, ShardTyped DEF NoShard
<1>5. new \in ProviderSchedulers
  BY <1>1, <1>2, <1>4 DEF ProviderSchedulers, AuthMaps
<1>6. GoodProvider(new, at)
  BY <1>1, <1>3, <1>5 DEF GoodProvider
<1> QED
  BY <1>1, <1>6 DEF new, auths

(* A provider without shards, whatever its auths.                          *)
LEMMA NewProvider ==
    ASSUME NEW at \in Nat, NEW auths \in AuthMaps
    PROVE  /\ GoodProvider([EmptyProvider EXCEPT !.auths = auths], at)
           /\ [EmptyProvider EXCEPT !.auths = auths].auths = auths
<1> DEFINE new == [EmptyProvider EXCEPT !.auths = auths]
<1>1. new = [auths |-> auths, shards |-> [m \in ModelKeys |-> NoShard]]
  BY DEF EmptyProvider
<1> HIDE DEF new
<1>2. new \in ProviderSchedulers
  BY <1>1 DEF ProviderSchedulers, AuthMaps, NoShard
<1>3. GoodProvider(new, at)
  BY <1>1, <1>2 DEF GoodProvider
<1> QED
  BY <1>1, <1>3 DEF new

LEMMA EmptyProviderGood ==
    ASSUME NEW at \in Nat
    PROVE  GoodProvider(EmptyProvider, at) /\ \A a \in Auths : EmptyProvider.auths[a] = None
<1>1. [a \in Auths |-> None] \in AuthMaps
  BY DEF AuthMaps
<1>2. [EmptyProvider EXCEPT !.auths = [a \in Auths |-> None]] = EmptyProvider
  BY DEF EmptyProvider
<1>3. EmptyProvider.auths = [a \in Auths |-> None]
  BY DEF EmptyProvider
<1> QED
  BY <1>1, <1>2, <1>3, NewProvider

LEMMA ShardStored ==
    ASSUME NEW at \in Nat, NEW state, GoodProvider(state, at), NEW m \in ModelKeys,
           NEW shard, GoodShard(shard, state.auths, m, at)
    PROVE  /\ GoodProvider([state EXCEPT !.shards[m] = shard], at)
           /\ [state EXCEPT !.shards[m] = shard].auths = state.auths
<1> DEFINE new == [state EXCEPT !.shards[m] = shard]
<1>1. state \in ProviderSchedulers /\ shard \in ModelShards
  BY ShardTyped, ProviderTyped
<1>2. /\ new \in ProviderSchedulers /\ new.auths = state.auths
      /\ \A k \in ModelKeys : new.shards[k] = IF k = m THEN shard ELSE state.shards[k]
  BY <1>1 DEF ProviderSchedulers
<1> HIDE DEF new
<1>3. GoodProvider(new, at)
  BY <1>2 DEF GoodProvider
<1> QED
  BY <1>2, <1>3 DEF new

(* What was good stays good as time passes.                                *)
LEMMA ProviderLater ==
    ASSUME NEW at \in Nat, NEW later \in Nat, at <= later, NEW state, GoodProvider(state, at)
    PROVE  GoodProvider(state, later)
<1>1. \A t \in 0..at : t \in 0..later
  OBVIOUS
<1>2. ASSUME NEW entry, NEW meta, NEW m, EntryOf(entry, meta, m, at)
      PROVE  EntryOf(entry, meta, m, later)
  BY <1>1, <1>2 DEF EntryOf
<1> QED
  BY <1>2 DEF GoodProvider, GoodShard, GoodEntries

----------------------------------------------------------------------------
(* The provider map, and the provider of each auth.                        *)

GoodProviders(map, at) ==
    /\ map \in [Providers -> ProviderSchedulers \cup {None}]
    /\ \A p \in Providers : map[p] # NoProvider => GoodProvider(map[p], at)

Knows(state, a) == state # NoProvider /\ state.auths[a] # None

Homes(map, homes) ==
    /\ homes \in [Auths -> Providers \cup {None}]
    /\ \A p \in Providers, a \in Auths : (homes[a] = p) <=> Knows(map[p], a)

LEMMA ProviderStored ==
    ASSUME NEW map, NEW at, GoodProviders(map, at),
           NEW p \in Providers, NEW state, GoodProvider(state, at)
    PROVE  GoodProviders([map EXCEPT ![p] = state], at)
<1>1. state \in ProviderSchedulers
  BY ProviderTyped
<1> QED
  BY <1>1 DEF GoodProviders

(* A provider whose auths are known as before changes no home.             *)
LEMMA HomesStored ==
    ASSUME NEW map, NEW homes, Homes(map, homes), NEW at, GoodProviders(map, at),
           NEW p \in Providers, map[p] # NoProvider,
           NEW state, state # NoProvider, state.auths = map[p].auths
    PROVE  Homes([map EXCEPT ![p] = state], homes)
<1>1. \A q \in Providers : [map EXCEPT ![p] = state][q] = IF q = p THEN state ELSE map[q]
  BY DEF GoodProviders
<1> HIDE DEF GoodProviders
<1>2. ASSUME NEW q \in Providers, NEW a \in Auths
      PROVE  Knows([map EXCEPT ![p] = state][q], a) <=> Knows(map[q], a)
  BY <1>1 DEF Knows
<1> QED
  BY <1>2 DEF Homes

LEMMA AuthLeft ==
    ASSUME NEW a \in Auths, now \in Nat, GoodProviders(providers, now),
           Homes(providers, authProviders)
    PROVE  /\ GoodProviders(WithoutAuth(providers, a), now)
           /\ Homes(WithoutAuth(providers, a), [authProviders EXCEPT ![a] = None])
<1> DEFINE p == authProviders[a]
           homes == [authProviders EXCEPT ![a] = None]
           state == providerRemove(providers[p], a)
           new == WithoutAuth(providers, a)
<1>1. /\ homes \in [Auths -> Providers \cup {None}]
      /\ \A b \in Auths : homes[b] = IF b = a THEN None ELSE authProviders[b]
      /\ p \in Providers \cup {None}
  BY DEF Homes
<1>2. \A q \in Providers : q # None
  BY SchedulerConstants
<1> HIDE DEF homes
<1>3. CASE p = None
  <2>1. new = providers
    BY <1>3 DEF WithoutAuth
  <2>2. Homes(providers, homes)
    BY <1>1, <1>2, <1>3 DEF Homes
  <2> QED
    BY <2>1, <2>2 DEF homes
<1>4. CASE p # None
  <2> USE <1>4
  <2>1. p \in Providers /\ providers[p] # NoProvider /\ GoodProvider(providers[p], now)
    BY <1>1 DEF Homes, Knows, GoodProviders
  <2>2. /\ GoodProvider(state, now)
        /\ state.auths = [providers[p].auths EXCEPT ![a] = None]
    BY <2>1, ProviderRemoved
  <2>3. new = [providers EXCEPT ![p] = state]
    BY DEF WithoutAuth
  <2> HIDE DEF p, state, new
  <2>4. GoodProviders(new, now)
    BY <2>1, <2>2, <2>3, ProviderStored
  <2>5. \A q \in Providers : new[q] = IF q = p THEN state ELSE providers[q]
    BY <2>3 DEF GoodProviders
  <2>6. state # NoProvider /\ providers[p].auths \in AuthMaps
    BY <2>1, <2>2, ProviderTyped
  <2>7. \A b \in Auths : state.auths[b] = IF b = a THEN None ELSE providers[p].auths[b]
    BY <2>2, <2>6 DEF AuthMaps
  <2>8. ASSUME NEW q \in Providers, NEW b \in Auths
        PROVE  (homes[b] = q) <=> Knows(new[q], b)
    <3>1. CASE b # a
      BY <1>1, <2>1, <2>5, <2>6, <2>7, <3>1 DEF Homes, Knows
    <3>2. CASE b = a
      BY <1>1, <1>2, <2>1, <2>5, <2>6, <2>7, <3>2 DEF Homes, Knows, p
    <3> QED
      BY <3>1, <3>2
  <2> QED
    BY <1>1, <2>4, <2>8 DEF Homes, homes, new
<1> QED
  BY <1>3, <1>4

LEMMA AuthUpserted ==
    ASSUME NEW a \in Auths, NEW auth \in Snapshots[a], now \in Nat,
           GoodProviders(providers, now), Homes(providers, authProviders),
           registered \in [Auths -> SUBSET Models], upsertAuthLocked(a, auth)
    PROVE  /\ GoodProviders(providers', now)
           /\ Homes(providers', authProviders')
<1> DEFINE meta == [auth |-> auth, models |-> registered[a]]
           p == auth.provider
           left == IF authProviders[a] \in {None, p} THEN providers
                   ELSE WithoutAuth(providers, a)
           home == IF left[p] = NoProvider THEN EmptyProvider ELSE left[p]
           state == providerUpsert(home, a, meta, now)
<1>1. providers' = [left EXCEPT ![p] = state] /\ authProviders' = [authProviders EXCEPT ![a] = p]
  BY DEF upsertAuthLocked
<1>2. meta \in Metas
  BY DEF Metas
<1>3. p \in Providers /\ p # None
  BY SchedulerConstants DEF AuthSnapshots
<1> HIDE DEF meta, p
<1>4. /\ GoodProviders(left, now)
      /\ \A q \in Providers, b \in Auths : b # a => (authProviders[b] = q <=> Knows(left[q], b))
      /\ \A q \in Providers : q # p => ~ Knows(left[q], a)
  <2>1. CASE authProviders[a] \in {None, p}
    <3>1. left = providers
      BY <2>1
    <3>2. \A q \in Providers : q # None
      BY SchedulerConstants
    <3> QED
      BY <1>3, <2>1, <3>1, <3>2 DEF Homes
  <2>2. CASE authProviders[a] \notin {None, p}
    <3>1. left = WithoutAuth(providers, a)
      BY <2>2
    <3>2. GoodProviders(left, now) /\ Homes(left, [authProviders EXCEPT ![a] = None])
      BY <3>1, AuthLeft
    <3>3. \A q \in Providers : q # None
      BY SchedulerConstants
    <3>4. \A b \in Auths : [authProviders EXCEPT ![a] = None][b] =
                              IF b = a THEN None ELSE authProviders[b]
      BY DEF Homes
    <3> HIDE DEF left
    <3> QED
      BY <3>2, <3>3, <3>4 DEF Homes
  <2> QED
    BY <2>1, <2>2
<1> HIDE DEF left
<1>5. GoodProvider(home, now) /\ \A b \in Auths : home.auths[b] # None <=> Knows(left[p], b)
  <2>1. CASE left[p] = NoProvider
    BY <2>1, EmptyProviderGood DEF Knows
  <2>2. CASE left[p] # NoProvider
    BY <1>3, <1>4, <2>2 DEF GoodProviders, Knows
  <2> QED
    BY <2>1, <2>2
<1> HIDE DEF home
<1>6. GoodProvider(state, now) /\ state.auths = [home.auths EXCEPT ![a] = meta]
  BY <1>2, <1>5, ProviderUpserted
<1> HIDE DEF state
<1>7. state # NoProvider /\ home.auths \in AuthMaps
  BY <1>5, <1>6, ProviderTyped
<1>8. \A b \in Auths : state.auths[b] = IF b = a THEN meta ELSE home.auths[b]
  BY <1>6, <1>7 DEF AuthMaps
<1>9. GoodProviders(providers', now)
  BY <1>1, <1>3, <1>4, <1>6, ProviderStored
<1>10. \A q \in Providers : providers'[q] = IF q = p THEN state ELSE left[q]
  BY <1>1, <1>4 DEF GoodProviders
<1>11. /\ authProviders' \in [Auths -> Providers \cup {None}]
       /\ \A b \in Auths : authProviders'[b] = IF b = a THEN p ELSE authProviders[b]
  BY <1>1, <1>3 DEF Homes
<1>12. meta # None
  BY <1>2, NoneIsNothing
<1>13. ASSUME NEW q \in Providers, NEW b \in Auths
       PROVE  (authProviders'[b] = q) <=> Knows(providers'[q], b)
  <2>1. CASE b = a
    BY <1>3, <1>4, <1>7, <1>8, <1>10, <1>11, <1>12, <2>1 DEF Knows
  <2>2. CASE b # a
    BY <1>3, <1>4, <1>5, <1>7, <1>8, <1>10, <1>11, <2>2 DEF Knows
  <2> QED
    BY <2>1, <2>2
<1> QED
  BY <1>9, <1>11, <1>13 DEF Homes

----------------------------------------------------------------------------
(* Segments: the slots of the providers of a list, one after the other.    *)

StartsOf(start, shards, list, n, size) ==
    start = [k \in 1..size |->
               IF k = 1 THEN 0 ELSE start[k - 1] + ReadyCount(shards, list[k - 1], n)]

LEMMA StartsExist ==
    ASSUME NEW shards, NEW list, NEW n, NEW size \in Nat
    PROVE  \E start : StartsOf(start, shards, list, n, size)
<1> DEFINE bad == {k \in Nat : ~ \E start : StartsOf(start, shards, list, n, k)}
<1> SUFFICES ASSUME ~ \E start : StartsOf(start, shards, list, n, size) PROVE FALSE
  OBVIOUS
<1>1. PICK k \in bad : \A j \in bad : k <= j
  <2>1. size \in bad
    OBVIOUS
  <2> HIDE DEF bad
  <2> QED
    BY <2>1, LeastNumber DEF bad
<1>2. k \in Nat /\ ~ \E start : StartsOf(start, shards, list, n, k)
  OBVIOUS
<1>3. CASE k = 0
  <2>1. StartsOf([i \in 1..0 |-> 0], shards, list, n, 0)
    BY DEF StartsOf
  <2> QED
    BY <1>2, <1>3, <2>1
<1>4. CASE k # 0
  <2>1. k - 1 \in Nat /\ k - 1 \notin bad
    BY <1>1, <1>2, <1>4
  <2>2. PICK start : StartsOf(start, shards, list, n, k - 1)
    BY <2>1
  <2> DEFINE Count(i) == ReadyCount(shards, list[i], n)
             Step(f, i) == IF i = 1 THEN 0 ELSE f[i - 1] + Count(i - 1)
             more == [i \in 1..k |-> Step(start, i)]
  <2>3. start = [i \in 1..(k - 1) |-> Step(start, i)]
    BY <2>2 DEF StartsOf
  <2> HIDE DEF Count
  <2>4. \A i \in 1..(k - 1) : more[i] = start[i]
    BY <1>2, <2>3
  <2>5. ASSUME NEW i \in 1..k PROVE Step(more, i) = Step(start, i)
    <3> HIDE DEF more
    <3>1. i # 1 => i - 1 \in 1..(k - 1)
      BY <1>2
    <3> QED
      BY <2>4, <3>1
  <2>6. more = [i \in 1..k |-> Step(more, i)]
    BY <2>5
  <2>7. StartsOf(more, shards, list, n, k)
    BY <2>6 DEF StartsOf, Count
  <2> QED
    BY <1>2, <2>7
<1> QED
  BY <1>3, <1>4

LEMMA SegmentStarts ==
    ASSUME NEW shards, NEW n, NEW list \in Seq(Providers)
    PROVE  /\ SegmentStart(shards, list, 1, n) = 0
           /\ \A i \in 1..Len(list) :
                 SegmentStart(shards, list, i + 1, n) =
                    SegmentStart(shards, list, i, n) + ReadyCount(shards, list[i], n)
<1> DEFINE start == CHOOSE f : StartsOf(f, shards, list, n, Len(list) + 1)
<1>1. \A i : SegmentStart(shards, list, i, n) = start[i]
  BY DEF SegmentStart, StartsOf
<1>2. Len(list) \in Nat
  OBVIOUS
<1>3. StartsOf(start, shards, list, n, Len(list) + 1)
  BY <1>2, StartsExist
<1> HIDE DEF start
<1>4. start[1] = 0
  BY <1>2, <1>3 DEF StartsOf
<1>5. ASSUME NEW i \in 1..Len(list)
      PROVE  start[i + 1] = start[i] + ReadyCount(shards, list[i], n)
  <2>1. i + 1 \in 1..(Len(list) + 1) /\ i + 1 # 1 /\ (i + 1) - 1 = i
    BY <1>2
  <2> QED
    BY <1>3, <2>1 DEF StartsOf
<1> QED
  BY <1>1, <1>4, <1>5

(* The ready auths of one level that a list of providers has.              *)
ReadyOf(shards, p, n) ==
    IF p \in DOMAIN shards THEN ReadyAt(shards[p].entries, n) ELSE {}

(* The shards a mixed pick looks at: of different auths.                   *)
GoodShards(shards) ==
    /\ DOMAIN shards \subseteq Providers
    /\ \A p \in DOMAIN shards : GoodIndexes(shards[p])
    /\ \A p, q \in DOMAIN shards :
          p # q => Present(shards[p].entries) \cap Present(shards[q].entries) = {}

LEMMA ReadyCounted ==
    ASSUME NEW shards, GoodShards(shards), NEW p, NEW n \in Priorities
    PROVE  /\ ReadyOf(shards, p, n) \in SUBSET Auths
           /\ IsFiniteSet(ReadyOf(shards, p, n))
           /\ ReadyCount(shards, p, n) = Cardinality(ReadyOf(shards, p, n))
           /\ ReadyCount(shards, p, n) \in Nat
<1>1. ReadyOf(shards, p, n) \in SUBSET Auths
  BY DEF ReadyOf, ReadyAt, EntriesIn
<1>2. IsFiniteSet(ReadyOf(shards, p, n)) /\ ReadyOf(shards, p, n) \in SUBSET Nat
  BY <1>1, SchedulerConstants, FS_Subset
<1>3. Len(IDs(ReadyOf(shards, p, n))) = Cardinality(ReadyOf(shards, p, n))
  BY <1>2, IDsInOrder
<1>4. CASE p \in DOMAIN shards
  <2>1. shards[p].ready[n].all.flat = IDs(ReadyOf(shards, p, n))
    BY <1>4 DEF GoodShards, GoodIndexes, GoodView, Shows, ReadyOf
  <2> QED
    BY <1>1, <1>2, <1>3, <1>4, <2>1, FS_CardinalityType DEF ReadyCount
<1>5. CASE p \notin DOMAIN shards
  <2>1. ReadyOf(shards, p, n) = {}
    BY <1>5 DEF ReadyOf
  <2> QED
    BY <1>1, <1>2, <1>5, <2>1, FS_EmptySet DEF ReadyCount
<1> QED
  BY <1>4, <1>5

(* The slots before a position number the ready auths before it.           *)
Before(shards, list, i, n) ==
    {a \in Auths : \E j \in 1..(i - 1) : a \in ReadyOf(shards, list[j], n)}

LEMMA SlotsNumbered ==
    ASSUME NEW shards, GoodShards(shards), NEW n \in Priorities, NEW list \in ProviderLists,
           NEW i \in 1..(Len(list) + 1)
    PROVE  SegmentStart(shards, list, i, n) = Cardinality(Before(shards, list, i, n))
<1> DEFINE Start(k) == SegmentStart(shards, list, k, n)
           Ready(k) == ReadyOf(shards, list[k], n)
           Ahead(k) == Before(shards, list, k, n)
           bad == {k \in 1..(Len(list) + 1) : Start(k) # Cardinality(Ahead(k))}
<1>1. /\ list \in Seq(Providers) /\ Len(list) \in Nat
      /\ \A j, k \in 1..Len(list) : j # k => list[j] # list[k]
  BY SchedulerConstants
<1> SUFFICES ASSUME bad # {} PROVE FALSE
  OBVIOUS
<1>2. PICK k \in bad : \A j \in bad : k <= j
  <2>1. bad \in SUBSET Nat
    BY <1>1
  <2> HIDE DEF bad
  <2> QED
    BY <2>1, LeastNumber
<1>3. k \in 1..(Len(list) + 1) /\ Start(k) # Cardinality(Ahead(k))
  OBVIOUS
<1>4. k # 1
  <2>1. Ahead(1) = {}
    BY DEF Before
  <2>2. Start(1) = 0
    BY <1>1, SegmentStarts
  <2> HIDE DEF Ahead, Start
  <2> QED
    BY <1>3, <2>1, <2>2, FS_EmptySet
<1> DEFINE j == k - 1
<1>5. j \in 1..Len(list) /\ j + 1 = k /\ j \in 1..(Len(list) + 1) /\ j < k
  BY <1>1, <1>3, <1>4
<1>6. Start(j) = Cardinality(Ahead(j))
  <2>1. j \notin bad
    <3> HIDE DEF bad, j
    <3> QED
      BY <1>1, <1>2, <1>3, <1>5
  <2> QED
    BY <1>5, <2>1
<1> HIDE DEF bad, j
<1>7. Start(k) = Start(j) + Cardinality(Ready(j))
  <2>1. Start(j + 1) = Start(j) + ReadyCount(shards, list[j], n)
    BY <1>1, <1>5, SegmentStarts
  <2>2. ReadyCount(shards, list[j], n) = Cardinality(Ready(j))
    BY ReadyCounted
  <2> HIDE DEF Start, Ready
  <2> QED
    BY <1>5, <2>1, <2>2
<1>8. Ahead(k) = Ahead(j) \cup Ready(j)
  <2>1. Ready(j) \in SUBSET Auths
    BY ReadyCounted
  <2>2. \A x : x \in 1..(k - 1) <=> x \in 1..(j - 1) \/ x = j
    BY <1>1, <1>5
  <2> QED
    BY <2>1, <2>2 DEF Before
<1>9. Ahead(j) \cap Ready(j) = {}
  <2> SUFFICES ASSUME NEW x \in 1..(j - 1), NEW a \in Ready(x), a \in Ready(j) PROVE FALSE
    BY DEF Before
  <2>1. x \in 1..Len(list) /\ x # j
    BY <1>1, <1>5
  <2>2. list[x] # list[j]
    BY <1>1, <1>5, <2>1
  <2>3. /\ list[x] \in DOMAIN shards /\ list[j] \in DOMAIN shards
        /\ a \in Present(shards[list[x]].entries) /\ a \in Present(shards[list[j]].entries)
    BY ReadyPresent DEF ReadyOf
  <2> QED
    BY <2>2, <2>3 DEF GoodShards
<1>10. IsFiniteSet(Ahead(j)) /\ IsFiniteSet(Ready(j))
  BY SchedulerConstants, FS_Subset, ReadyCounted DEF Before
<1>11. Cardinality(Ahead(k)) = Cardinality(Ahead(j)) + Cardinality(Ready(j))
  <2> HIDE DEF Ahead, Ready
  <2>1. /\ Cardinality(Ahead(k)) = Cardinality(Ahead(j)) + Cardinality(Ready(j))
                                     - Cardinality({})
    BY <1>8, <1>9, <1>10, FS_Union
  <2> QED
    BY <1>10, <2>1, FS_EmptySet, FS_CardinalityType
<1> QED
  BY <1>3, <1>6, <1>7, <1>11

LEMMA Slots ==
    ASSUME NEW shards, GoodShards(shards), NEW n \in Priorities, NEW list \in ProviderLists
    PROVE  /\ SegmentStart(shards, list, 1, n) = 0
           /\ \A i \in 1..(Len(list) + 1) :
                 SegmentStart(shards, list, i, n) \in 0..Cardinality(Auths)
           /\ \A i \in 1..Len(list) :
                 /\ ReadyCount(shards, list[i], n) \in Nat
                 /\ SegmentStart(shards, list, i + 1, n) =
                       SegmentStart(shards, list, i, n) + ReadyCount(shards, list[i], n)
                 /\ SegmentStart(shards, list, i + 1, n)
                       <= SegmentStart(shards, list, Len(list) + 1, n)
<1> DEFINE Start(i) == SegmentStart(shards, list, i, n)
           Ahead(i) == Before(shards, list, i, n)
           last == Len(list) + 1
<1>1. list \in Seq(Providers) /\ Len(list) \in Nat
  BY SchedulerConstants
<1>2. \A i : Ahead(i) \in SUBSET Auths
  BY DEF Before
<1>3. \A i : IsFiniteSet(Ahead(i)) /\ Cardinality(Ahead(i)) \in 0..Cardinality(Auths)
  <2> HIDE DEF Ahead
  <2>1. \A i : IsFiniteSet(Ahead(i)) /\ Cardinality(Ahead(i)) <= Cardinality(Auths)
    BY <1>2, SchedulerConstants, FS_Subset
  <2> QED
    BY <2>1, SchedulerConstants, FS_CardinalityType
<1>4. \A i \in 1..last : Start(i) = Cardinality(Ahead(i))
  BY SlotsNumbered
<1>5. ASSUME NEW i \in 1..Len(list) PROVE Start(i + 1) <= Start(last)
  <2>1. i + 1 \in 1..last /\ last \in 1..last
    BY <1>1
  <2>2. Ahead(i + 1) \in SUBSET Ahead(last)
    <3>1. \A j \in 1..((i + 1) - 1) : j \in 1..(last - 1)
      BY <1>1
    <3> QED
      BY <3>1 DEF Before
  <2> HIDE DEF Ahead, Start, last
  <2>3. Cardinality(Ahead(i + 1)) <= Cardinality(Ahead(last))
    BY <1>3, <2>2, FS_Subset
  <2> QED
    BY <1>4, <2>1, <2>3
<1> QED
  BY <1>1, <1>3, <1>4, <1>5, SegmentStarts, ReadyCounted

(* The provider whose segment holds a slot.                                *)
LEMMA SegmentFound ==
    ASSUME NEW shards, GoodShards(shards), NEW n \in Priorities, NEW list \in ProviderLists,
           NEW slot \in Nat, slot < SegmentStart(shards, list, Len(list) + 1, n)
    PROVE  LET i == Segment(shards, list, n, slot)
           IN  /\ i \in 1..Len(list)
               /\ SegmentStart(shards, list, i, n) <= slot
               /\ slot < SegmentStart(shards, list, i + 1, n)
<1> DEFINE Start(i) == SegmentStart(shards, list, i, n)
           beyond == {i \in 1..(Len(list) + 1) : slot < Start(i)}
<1>1. list \in Seq(Providers) /\ Len(list) \in Nat
  BY SchedulerConstants
<1>2. Start(1) = 0 /\ \A i \in 1..(Len(list) + 1) : Start(i) \in Nat
  BY Slots
<1> HIDE DEF Start
<1>3. PICK i \in beyond : \A k \in beyond : i <= k
  <2>1. Len(list) + 1 \in beyond
    BY <1>1 DEF Start
  <2>2. beyond \in SUBSET Nat
    BY <1>1
  <2> HIDE DEF beyond
  <2> QED
    BY <2>1, <2>2, LeastNumber
<1>4. i \in 1..(Len(list) + 1) /\ slot < Start(i)
  OBVIOUS
<1>5. i # 1
  BY <1>2, <1>4
<1>6. i - 1 \in 1..Len(list) /\ i - 1 \in 1..(Len(list) + 1) /\ (i - 1) + 1 = i
  BY <1>1, <1>4, <1>5
<1>7. ~ (slot < Start(i - 1))
  <2>1. ~ (i <= i - 1)
    BY <1>4
  <2>2. i - 1 \notin beyond
    <3> HIDE DEF beyond
    <3> QED
      BY <1>3, <2>1
  <2> QED
    BY <1>6, <2>2
<1>8. Start(i - 1) <= slot /\ slot < Start((i - 1) + 1)
  BY <1>2, <1>4, <1>6, <1>7
<1>9. i - 1 \in DOMAIN list /\ DOMAIN list = 1..Len(list)
  BY <1>1, <1>6
<1> QED
  BY <1>8, <1>9 DEF Segment, Start

(* The level a mixed pick takes its auth from.                             *)
LEMMA BestLevelFound ==
    ASSUME NEW shards, GoodShards(shards), NEW allowed
    PROVE  LET n == BestLevel(shards, allowed)
               Ready(p) == ReadyIn(shards[p].entries, allowed)
           IN  /\ (\A p \in DOMAIN shards : Ready(p) = {}) => n = None
               /\ (\E p \in DOMAIN shards : Ready(p) # {}) =>
                     /\ n \in Priorities /\ n # None
                     /\ \E p \in DOMAIN shards :
                           ReadyAt(shards[p].entries, n) \cap allowed # {}
                     /\ \A p \in DOMAIN shards : \A a \in Ready(p) :
                           Priority(shards[p].entries, a) <= n
<1> DEFINE n == BestLevel(shards, allowed)
           Ready(p) == ReadyIn(shards[p].entries, allowed)
           Top(p) == highestReadyPriorityLocked(shards[p], FALSE, allowed)
           At(p, k) == ReadyAt(shards[p].entries, k) \cap allowed
           levels == {Top(p) : p \in DOMAIN shards} \ {None}
<1>1. n = IF levels = {} THEN None ELSE Highest(levels)
  BY DEF BestLevel
<1>2. ASSUME NEW p \in DOMAIN shards
      PROVE  /\ Ready(p) = {} => Top(p) = None
             /\ Ready(p) # {} =>
                   /\ Top(p) \in Priorities /\ Top(p) # None
                   /\ At(p, Top(p)) # {}
                   /\ \A a \in Ready(p) : Priority(shards[p].entries, a) <= Top(p)
  <2>1. GoodIndexes(shards[p])
    BY DEF GoodShards
  <2>2. /\ ReadyPool(shards[p].entries, FALSE, allowed) = Ready(p)
        /\ \A k : LevelPool(shards[p].entries, FALSE, k, allowed) = ReadyAt(shards[p].entries, k)
    BY DEF ReadyPool, LevelPool
  <2>3. /\ Ready(p) = {} => Top(p) = None
        /\ Ready(p) # {} => /\ Top(p) \in Priorities /\ Top(p) # None
                            /\ At(p, Top(p)) # {}
                            /\ At(p, Top(p)) = Foremost(shards[p].entries, Ready(p))
    BY <2>1, <2>2, HighestReady
  <2>4. \A k : \A b \in At(p, k) : Priority(shards[p].entries, b) = k
    BY DEF ReadyAt, Priority
  <2> HIDE DEF Ready, Top, At
  <2> QED
    BY <2>3, <2>4 DEF Foremost
<1> HIDE DEF n, Ready, Top, At
<1>3. CASE \A p \in DOMAIN shards : Ready(p) = {}
  <2>1. levels = {}
    BY <1>2, <1>3
  <2> QED
    BY <1>1, <1>3, <2>1 DEF n, Ready
<1>4. CASE \E p \in DOMAIN shards : Ready(p) # {}
  <2>1. levels # {} /\ levels \in SUBSET Priorities
    BY <1>2, <1>4
  <2>2. \A p \in DOMAIN shards : Ready(p) # {} => Top(p) \in levels
    BY <1>2
  <2>3. \A k \in levels : \E p \in DOMAIN shards : k = Top(p) /\ Ready(p) # {}
    BY <1>2
  <2> HIDE DEF levels
  <2>4. n \in levels /\ \A k \in levels : k <= n
    BY <1>1, <2>1, HighestIsGreatest
  <2>5. n \in Priorities /\ n # None
    BY <2>1, <2>4, SchedulerConstants
  <2>6. \E p \in DOMAIN shards : At(p, n) # {}
    BY <1>2, <2>3, <2>4
  <2>7. ASSUME NEW p \in DOMAIN shards, NEW a \in Ready(p)
        PROVE  Priority(shards[p].entries, a) <= n
    <3>1. Priority(shards[p].entries, a) <= Top(p) /\ Top(p) <= n
      BY <1>2, <2>2, <2>4, <2>7
    <3>2. Priority(shards[p].entries, a) \in Int
      <4>1. shards[p].entries \in EntryMaps /\ a \in Present(shards[p].entries)
        BY <2>7 DEF GoodShards, GoodIndexes, ModelShards, EntryMaps, Ready, ReadyIn,
                    EntriesIn, Present
      <4>2. shards[p].entries[a].meta.auth \in AuthSnapshots
        BY <4>1, EntryTyped
      <4> QED
        BY <4>2, SchedulerConstants DEF Priority, AuthSnapshots
    <3>3. Top(p) \in Int /\ n \in Int
      BY <1>2, <2>5, <2>7, SchedulerConstants
    <3> QED
      BY <3>1, <3>2, <3>3
  <2> QED
    BY <1>4, <2>5, <2>6, <2>7 DEF n, Ready, At
<1> QED
  BY <1>3, <1>4

LEMMA WillingOnes ==
    ASSUME NEW shards, GoodShards(shards), NEW n \in Priorities, NEW allowed
    PROVE  /\ Willing(shards, n, allowed) =
                {p \in DOMAIN shards : ReadyAt(shards[p].entries, n) \cap allowed # {}}
           /\ \A p \in Willing(shards, n, allowed) : ReadyCount(shards, p, n) > 0
<1>1. ASSUME NEW p \in DOMAIN shards
      PROVE  Range(shards[p].ready[n].all.flat) = ReadyAt(shards[p].entries, n)
  <2>1. ReadyAt(shards[p].entries, n) \in SUBSET Auths
    BY DEF ReadyAt, EntriesIn
  <2>2. shards[p].ready[n].all.flat = IDs(ReadyAt(shards[p].entries, n))
    BY DEF GoodShards, GoodIndexes, GoodView, Shows
  <2> QED
    BY <2>1, <2>2, SomeIDs
<1>2. Willing(shards, n, allowed) =
         {p \in DOMAIN shards : ReadyAt(shards[p].entries, n) \cap allowed # {}}
  BY <1>1 DEF Willing
<1>3. ASSUME NEW p \in Willing(shards, n, allowed) PROVE ReadyCount(shards, p, n) > 0
  <2>1. ReadyOf(shards, p, n) # {}
    BY <1>2 DEF ReadyOf
  <2>2. /\ IsFiniteSet(ReadyOf(shards, p, n))
        /\ ReadyCount(shards, p, n) = Cardinality(ReadyOf(shards, p, n))
        /\ ReadyCount(shards, p, n) \in Nat
    BY ReadyCounted
  <2>3. Cardinality(ReadyOf(shards, p, n)) # 0
    BY <2>1, <2>2, FS_EmptySet
  <2> QED
    BY <2>2, <2>3
<1> QED
  BY <1>2, <1>3

CursorsTyped(cursors) ==
    cursors \in [ProviderLists \X ModelKeys -> 0..Cardinality(Auths)]

(* The provider that serves, and the slot its pick leaves the cursor at.   *)
LEMMA ServingFound ==
    ASSUME NEW shards, GoodShards(shards), NEW n \in Priorities, NEW list \in ProviderLists,
           NEW m \in ModelKeys, NEW allowed, CursorsTyped(mixedCursors),
           NEW p \in Range(list), p \in Willing(shards, n, allowed)
    PROVE  LET i     == Serving(shards, list, m, allowed, n)
               start == StartSlot(shards, list, m, n)
               slot  == IF i = Segment(shards, list, n, start) THEN start
                        ELSE SegmentStart(shards, list, i, n)
           IN  /\ i \in 1..Len(list) /\ list[i] \in Willing(shards, n, allowed)
               /\ slot + 1 \in 0..Cardinality(Auths)
<1> DEFINE willing == Willing(shards, n, allowed)
           i == Serving(shards, list, m, allowed, n)
           cursor == mixedCursors[<<list, m>>]
           start == StartSlot(shards, list, m, n)
           total == SegmentStart(shards, list, Len(list) + 1, n)
           segment == Segment(shards, list, n, start)
           from == IF strategy = "fill-first" THEN 0 ELSE segment - 1
           slot == IF i = segment THEN start ELSE SegmentStart(shards, list, i, n)
<1>1. list \in Seq(Providers) /\ Len(list) \in Nat
  BY SchedulerConstants
<1>2. Cardinality(Auths) \in Nat
  BY SchedulerConstants, FS_CardinalityType
<1>3. cursor \in Nat
  <2>1. cursor \in 0..Cardinality(Auths)
    BY DEF CursorsTyped
  <2> QED
    BY <1>2, <2>1
<1>4. ASSUME NEW k \in 1..Len(list), list[k] \in willing
      PROVE  /\ SegmentStart(shards, list, k, n) \in Nat
             /\ SegmentStart(shards, list, k, n) < total
  <2>1. ReadyCount(shards, list[k], n) > 0
    BY <1>4, WillingOnes
  <2>2. k \in 1..(Len(list) + 1)
    BY <1>1
  <2>3. /\ SegmentStart(shards, list, k, n) \in Nat /\ total \in Nat
        /\ ReadyCount(shards, list[k], n) \in Nat
        /\ SegmentStart(shards, list, k, n) + ReadyCount(shards, list[k], n) <= total
    <3>1. Len(list) + 1 \in 1..(Len(list) + 1)
      BY <1>1
    <3> QED
      BY <1>2, <2>2, <3>1, Slots
  <2> HIDE DEF total
  <2> QED
    BY <2>1, <2>3
<1>5. PICK k \in 1..Len(list) : list[k] = p
  BY DEF Range
<1>6. total \in Nat /\ total > 0 /\ total <= Cardinality(Auths)
  <2>1. Len(list) + 1 \in 1..(Len(list) + 1)
    BY <1>1
  <2>2. total \in 0..Cardinality(Auths)
    BY <2>1, Slots
  <2> HIDE DEF total
  <2> QED
    BY <1>2, <1>4, <1>5, <2>2
<1>7. start \in 0..(total - 1)
  <2>1. start = cursor % total
    BY DEF StartSlot
  <2> HIDE DEF start, cursor, total
  <2> QED
    BY <1>3, <1>6, <2>1
<1> HIDE DEF start
<1>8. segment \in 1..Len(list)
  <2>1. start \in Nat /\ start < total
    BY <1>6, <1>7
  <2> QED
    BY <2>1, SegmentFound
<1>9. from \in 0..Len(list)
  BY <1>1, <1>8
<1>10. i = NextFrom(list, from, willing) + 1
  BY DEF Serving, start
<1> HIDE DEF from, willing, i
<1>11. Range(list) \cap willing # {}
  BY DEF willing
<1>12. i \in 1..Len(list) /\ list[i] \in willing
  <2>1. /\ NextFrom(list, from, willing) \in 0..(Len(list) - 1)
        /\ list[NextFrom(list, from, willing) + 1] \in willing
    BY <1>1, <1>9, <1>11, NextFromFinds
  <2> QED
    BY <1>1, <1>10, <2>1
<1>13. slot \in Nat /\ slot < total
  <2>1. CASE i = segment
    BY <1>6, <1>7, <2>1
  <2>2. CASE i # segment
    BY <1>4, <1>12, <2>2
  <2> QED
    BY <2>1, <2>2
<1>14. slot + 1 \in 0..Cardinality(Auths)
  <2> HIDE DEF slot, total
  <2> QED
    BY <1>2, <1>6, <1>13
<1> QED
  BY <1>12, <1>14 DEF i, start, willing

----------------------------------------------------------------------------
(* The inductive invariant.                                                *)

IInv ==
    /\ strategy \in Strategies
    /\ registered \in [Auths -> SUBSET Models]
    /\ now \in 0..MaxNow
    /\ CursorsTyped(mixedCursors)
    /\ GoodProviders(providers, now)
    /\ Homes(providers, authProviders)

LEMMA NowIsNat == IInv => now \in Nat
BY SchedulerConstants DEF IInv

(* The shards of a request, brought up to date.                            *)
LEMMA MixedShardsGood ==
    ASSUME IInv, NEW list \in ProviderLists, NEW m \in ModelKeys
    PROVE  LET shards == MixedShards(list, m)
           IN  /\ DOMAIN shards = {p \in Range(list) : providers[p] # NoProvider}
               /\ GoodShards(shards)
               /\ \A p \in DOMAIN shards :
                     /\ p \in Providers
                     /\ shards[p] = ensureModelLocked(providers[p], m, now)
                     /\ GoodShard(shards[p], providers[p].auths, m, now)
<1> DEFINE shards == MixedShards(list, m)
           Auth(p, a) == providers[p].auths[a]
<1>1. Range(list) \subseteq Providers
  <2>1. list \in Seq(Providers)
    BY SchedulerConstants
  <2> QED
    BY <2>1 DEF Range
<1>2. DOMAIN shards = {p \in Range(list) : providers[p] # NoProvider}
  BY DEF MixedShards
<1>3. \A p \in DOMAIN shards : shards[p] = ensureModelLocked(providers[p], m, now)
  BY DEF MixedShards
<1> HIDE DEF shards
<1>4. ASSUME NEW p \in DOMAIN shards
      PROVE  GoodShard(shards[p], providers[p].auths, m, now)
  BY <1>1, <1>2, <1>3, NowIsNat, Ensured DEF IInv, GoodProviders
<1>5. ASSUME NEW p \in DOMAIN shards, NEW a \in Present(shards[p].entries)
      PROVE  authProviders[a] = p
  <2>1. a \in Auths /\ Auth(p, a) # None
    BY <1>4 DEF GoodShard, GoodEntries, EntryOf, Present
  <2> QED
    BY <1>1, <1>2, <2>1 DEF IInv, Homes, Knows
<1>6. GoodShards(shards)
  BY <1>1, <1>2, <1>4, <1>5 DEF GoodShards, GoodShard
<1> QED
  BY <1>1, <1>2, <1>3, <1>4, <1>6 DEF shards

(* Good shards of known providers can be stored.                           *)
LEMMA ShardsStored ==
    ASSUME IInv, NEW m \in ModelKeys, NEW shards,
           \A p \in DOMAIN shards : /\ p \in Providers /\ providers[p] # NoProvider
                                    /\ GoodShard(shards[p], providers[p].auths, m, now)
    PROVE  /\ GoodProviders(StoreShards(shards, m), now)
           /\ Homes(StoreShards(shards, m), authProviders)
<1> DEFINE Stored(p) == [providers[p] EXCEPT !.shards[m] = shards[p]]
           new == StoreShards(shards, m)
<1>1. new = [p \in Providers |-> IF p \in DOMAIN shards THEN Stored(p) ELSE providers[p]]
  BY DEF StoreShards
<1>2. ASSUME NEW p \in DOMAIN shards
      PROVE  GoodProvider(Stored(p), now) /\ Stored(p).auths = providers[p].auths
  <2>1. GoodProvider(providers[p], now) /\ now \in Nat
    BY NowIsNat DEF IInv, GoodProviders
  <2> QED
    BY <2>1, ShardStored
<1> HIDE DEF Stored, new
<1>3. \A p \in DOMAIN shards : Stored(p) \in ProviderSchedulers /\ Stored(p) # NoProvider
  BY <1>2, ProviderTyped
<1>4. GoodProviders(new, now)
  BY <1>1, <1>2, <1>3 DEF GoodProviders, IInv
<1>5. \A p \in Providers, a \in Auths : Knows(new[p], a) <=> Knows(providers[p], a)
  BY <1>1, <1>2, <1>3 DEF Knows
<1>6. Homes(new, authProviders)
  BY <1>5 DEF IInv, Homes
<1> QED
  BY <1>4, <1>6 DEF new

(* A pick at a level that has an allowed ready auth.                       *)
LEMMA PickedAtLevel ==
    ASSUME NEW shard, GoodIndexes(shard), NEW n \in Priorities, NEW how, NEW allowed,
           ReadyAt(shard.entries, n) \cap allowed # {}
    PROVE  LET picked == pickReadyAtPriorityLocked(shard, FALSE, n, how, allowed)
           IN  /\ GoodIndexes(picked.shard)
               /\ picked.shard.entries = shard.entries
               /\ picked.auth \in ReadyAt(shard.entries, n) \cap allowed
<1>1. ASSUME NEW websocket \in BOOLEAN, ~ websocket
      PROVE  LET picked == pickReadyAtPriorityLocked(shard, websocket, n, how, allowed)
             IN  /\ GoodIndexes(picked.shard)
                 /\ picked.shard.entries = shard.entries
                 /\ picked.auth \in ReadyAt(shard.entries, n) \cap allowed
  <2>1. LevelPool(shard.entries, websocket, n, allowed) = ReadyAt(shard.entries, n)
    BY <1>1 DEF LevelPool
  <2> QED
    BY <2>1, PickedAtPriority
<1>2. FALSE \in BOOLEAN /\ ~ FALSE
  OBVIOUS
<1> QED
  BY <1>1, <1>2

(* What a pick over several providers gives.                               *)
LEMMA MixedPicked ==
    ASSUME IInv, NEW list \in ProviderLists, NEW m \in ModelKeys, NEW tried
    PROVE  LET outcome  == PickedMixed(list, m, tried)
               shards   == MixedShards(list, m)
               Ready(p) == ReadyIn(shards[p].entries, Auths \ tried)
           IN  /\ GoodProviders(outcome.providers, now)
               /\ Homes(outcome.providers, authProviders)
               /\ CursorsTyped(outcome.cursors)
               /\ (\A p \in DOMAIN shards : Ready(p) = {}) => outcome.auth = None
               /\ (\E p \in DOMAIN shards : Ready(p) # {}) =>
                     \E p \in DOMAIN shards :
                        /\ outcome.auth \in Ready(p)
                        /\ \A q \in DOMAIN shards : \A b \in Ready(q) :
                              Priority(shards[q].entries, b)
                                 <= Priority(shards[p].entries, outcome.auth)
<1> DEFINE outcome == PickedMixed(list, m, tried)
           shards == MixedShards(list, m)
           allowed == Auths \ tried
           Ready(p) == ReadyIn(shards[p].entries, allowed)
           n == BestLevel(shards, allowed)
           i == Serving(shards, list, m, allowed, n)
           server == list[i]
           picked == pickReadyAtPriorityLocked(shards[server], FALSE, n, strategy, allowed)
           start == StartSlot(shards, list, m, n)
           slot == IF i = Segment(shards, list, n, start) THEN start
                   ELSE SegmentStart(shards, list, i, n)
           stored == [shards EXCEPT ![server] = picked.shard]
           cursors == IF strategy = "fill-first" THEN mixedCursors
                      ELSE [mixedCursors EXCEPT ![<<list, m>>] = slot + 1]
<1>1. outcome = IF n = None
                THEN [auth |-> None, providers |-> StoreShards(shards, m),
                      cursors |-> mixedCursors, error |-> Unavailable(shards, allowed, now)]
                ELSE [auth |-> picked.auth, providers |-> StoreShards(stored, m),
                      cursors |-> cursors, error |-> Found]
  BY DEF PickedMixed, PickedFrom, PickedAt, MixedOutcome, NextSlot
<1>2. /\ DOMAIN shards = {p \in Range(list) : providers[p] # NoProvider}
      /\ GoodShards(shards)
      /\ \A p \in DOMAIN shards : /\ p \in Providers
                                  /\ GoodShard(shards[p], providers[p].auths, m, now)
  BY MixedShardsGood
<1>3. CursorsTyped(mixedCursors)
  BY DEF IInv
<1> HIDE DEF shards, outcome
<1>4. /\ (\A p \in DOMAIN shards : Ready(p) = {}) => n = None
      /\ (\E p \in DOMAIN shards : Ready(p) # {}) =>
            /\ n \in Priorities /\ n # None
            /\ \E p \in DOMAIN shards : ReadyAt(shards[p].entries, n) \cap allowed # {}
            /\ \A p \in DOMAIN shards : \A a \in Ready(p) :
                  Priority(shards[p].entries, a) <= n
  BY <1>2, BestLevelFound
<1> HIDE DEF n, allowed
<1>5. CASE \A p \in DOMAIN shards : Ready(p) = {}
  <2>1. /\ outcome.auth = None /\ outcome.providers = StoreShards(shards, m)
        /\ outcome.cursors = mixedCursors
    BY <1>1, <1>4, <1>5
  <2>2. /\ GoodProviders(StoreShards(shards, m), now)
        /\ Homes(StoreShards(shards, m), authProviders)
    BY <1>2, ShardsStored
  <2> QED
    BY <1>3, <1>5, <2>1, <2>2 DEF outcome, shards, allowed
<1>6. CASE \E p \in DOMAIN shards : Ready(p) # {}
  <2>1. PICK p \in DOMAIN shards : ReadyAt(shards[p].entries, n) \cap allowed # {}
    BY <1>4, <1>6
  <2>2. n \in Priorities /\ n # None
    BY <1>4, <1>6
  <2>3. p \in Range(list) /\ p \in Willing(shards, n, allowed)
    BY <1>2, <2>1, <2>2, WillingOnes
  <2>4. /\ i \in 1..Len(list) /\ server \in Willing(shards, n, allowed)
        /\ slot + 1 \in 0..Cardinality(Auths)
    BY <1>2, <1>3, <2>2, <2>3, ServingFound
  <2> HIDE DEF i, server, slot
  <2>5. server \in DOMAIN shards /\ ReadyAt(shards[server].entries, n) \cap allowed # {}
    BY <1>2, <2>2, <2>4, WillingOnes
  <2>6. /\ GoodIndexes(picked.shard) /\ picked.shard.entries = shards[server].entries
        /\ picked.auth \in ReadyAt(shards[server].entries, n) \cap allowed
    <3>1. GoodIndexes(shards[server])
      BY <1>2, <2>5 DEF GoodShards
    <3> QED
      <4>1. \A how : LET at == pickReadyAtPriorityLocked(shards[server], FALSE, n, how, allowed)
                     IN  /\ GoodIndexes(at.shard)
                         /\ at.shard.entries = shards[server].entries
                         /\ at.auth \in ReadyAt(shards[server].entries, n) \cap allowed
        BY <2>2, <2>5, <3>1, PickedAtLevel
      <4> QED
        BY <4>1
  <2> HIDE DEF picked
  <2>7. /\ outcome.auth = picked.auth /\ outcome.providers = StoreShards(stored, m)
        /\ outcome.cursors = cursors
    BY <1>1, <2>2
  <2>8. /\ GoodProviders(StoreShards(stored, m), now)
        /\ Homes(StoreShards(stored, m), authProviders)
    <3>1. DOMAIN stored = DOMAIN shards
      OBVIOUS
    <3>2. ASSUME NEW q \in DOMAIN stored
          PROVE  /\ q \in Providers /\ providers[q] # NoProvider
                 /\ GoodShard(stored[q], providers[q].auths, m, now)
      <4>1. stored[q] = IF q = server THEN picked.shard ELSE shards[q]
        BY <3>1
      <4> HIDE DEF stored
      <4> QED
        BY <1>2, <2>6, <3>1, <4>1 DEF GoodShard
    <3> HIDE DEF stored
    <3> QED
      BY <3>2, ShardsStored
  <2>9. CursorsTyped(cursors)
    BY <1>3, <2>4 DEF CursorsTyped
  <2>10. /\ picked.auth \in Ready(server)
         /\ Priority(shards[server].entries, picked.auth) = n
    BY <2>6 DEF ReadyIn, ReadyAt, Priority
  <2> HIDE DEF stored, cursors, Ready
  <2>11. \A q \in DOMAIN shards : \A b \in Ready(q) :
            Priority(shards[q].entries, b) <= Priority(shards[server].entries, picked.auth)
    BY <1>4, <1>6, <2>10
  <2> QED
    BY <1>6, <2>5, <2>7, <2>8, <2>9, <2>10, <2>11 DEF outcome, shards, allowed, Ready
<1> QED
  BY <1>5, <1>6

(* One of the foremost auths of the pool, or none if it is empty.          *)
SoundPick(auth, entries, pool) ==
    /\ auth # None => auth \in Foremost(entries, pool)
    /\ \A a \in pool : auth # None
    /\ strategy = "fill-first" => \A a \in Foremost(entries, pool) : auth <= a

(* The auths that a request for one provider chooses from.                 *)
RequestPool(entries, p, pinned, websocket, allowed) ==
    ReadyPool(entries, websocket /\ p = Codex /\ pinned = None, allowed)

(* What a pick from one shard tells, what it returns and why it failed.    *)
GoodOutcome(outcome, p, m, pinned, websocket, allowed) ==
    LET entries == ensureModelLocked(providers[p], m, now).entries
    IN  /\ outcome.providers[p].shards[m].entries = entries
        /\ SoundPick(outcome.auth, entries,
                     RequestPool(entries, p, pinned, websocket, allowed))
        /\ outcome.error =
              IF outcome.auth # None THEN Found
              ELSE Unavailable([q \in {p} |-> outcome.providers[p].shards[m]], allowed, now)

LEMMA SinglePicked ==
    ASSUME IInv, NEW p \in Providers, NEW m \in ModelKeys, NEW pinned, NEW tried,
           NEW websocket \in BOOLEAN, providers[p] # NoProvider
    PROVE  LET outcome == PickedSingle(p, m, pinned, tried, websocket)
           IN  /\ GoodProviders(outcome.providers, now)
               /\ Homes(outcome.providers, authProviders)
               /\ GoodOutcome(outcome, p, m, pinned, websocket, Allowed(pinned, tried))
<1> DEFINE outcome == PickedSingle(p, m, pinned, tried, websocket)
           allowed == Allowed(pinned, tried)
           shard == ensureModelLocked(providers[p], m, now)
           prefer == websocket /\ p = Codex /\ pinned = None
           pool == ReadyPool(shard.entries, prefer, allowed)
           picked == pickReadyLocked(shard, prefer, allowed)
           state == [providers[p] EXCEPT !.shards[m] = picked.shard]
<1>1. outcome = [auth |-> picked.auth,
                 providers |-> [providers EXCEPT ![p].shards[m] = picked.shard],
                 error |-> IF picked.auth # None THEN Found
                           ELSE Unavailable([q \in {p} |-> picked.shard], allowed, now)]
  BY DEF PickedSingle, SingleOutcome
<1>2. now \in Nat /\ GoodProvider(providers[p], now)
  BY NowIsNat DEF IInv, GoodProviders
<1>3. /\ GoodShard(shard, providers[p].auths, m, now)
      /\ UpToDate(shard, providers[p].auths, m, now, HeldIn(providers[p], m, now))
  BY <1>2, Ensured
<1> HIDE DEF shard, outcome, allowed
<1>4. prefer \in BOOLEAN
  OBVIOUS
<1> HIDE DEF prefer
<1>5. /\ GoodIndexes(picked.shard) /\ picked.shard.entries = shard.entries
      /\ pool = {} => picked.auth = None
      /\ pool # {} => /\ picked.auth \in Foremost(shard.entries, pool)
                      /\ picked.auth # None
                      /\ strategy = "fill-first" =>
                            \A a \in Foremost(shard.entries, pool) : picked.auth <= a
  <2>1. GoodIndexes(shard)
    BY <1>3 DEF GoodShard
  <2> QED
    BY <1>4, <2>1, PickedReady
<1> HIDE DEF picked, pool
<1>6. GoodShard(picked.shard, providers[p].auths, m, now)
  BY <1>3, <1>5 DEF GoodShard
<1>7. GoodProvider(state, now) /\ state.auths = providers[p].auths
  BY <1>2, <1>6, ShardStored
<1>8. outcome.providers = [providers EXCEPT ![p] = state]
  BY <1>1
<1>9. state.shards[m] = picked.shard
  BY <1>2, ProviderTyped DEF ProviderSchedulers
<1> HIDE DEF state
<1>10. /\ GoodProviders(outcome.providers, now)
       /\ Homes(outcome.providers, authProviders)
  <2>1. state # NoProvider
    BY <1>7, ProviderTyped
  <2> QED
    BY <1>7, <1>8, <2>1, ProviderStored, HomesStored DEF IInv
<1>11. outcome.providers[p].shards[m] = picked.shard
  BY <1>8, <1>9 DEF IInv, GoodProviders
<1>12. /\ outcome.auth = picked.auth
       /\ outcome.error = IF picked.auth # None THEN Found
                          ELSE Unavailable([q \in {p} |-> picked.shard], allowed, now)
  BY <1>1
<1>13. outcome.error = IF outcome.auth # None THEN Found
                       ELSE Unavailable([q \in {p} |-> outcome.providers[p].shards[m]],
                                        allowed, now)
  BY <1>11, <1>12
<1>14. outcome.providers[p].shards[m].entries = shard.entries
  BY <1>5, <1>11
<1>15. SoundPick(outcome.auth, shard.entries, pool)
  BY <1>5, <1>12 DEF SoundPick, Foremost
<1> QED
  BY <1>10, <1>13, <1>14, <1>15 DEF GoodOutcome, RequestPool, outcome, allowed, shard, prefer, pool

(* Of a request that prefers no transport: from all ready auths.           *)
PlainPick(outcome, p, m, allowed) ==
    LET entries == ensureModelLocked(providers[p], m, now).entries
    IN  /\ outcome.providers[p].shards[m].entries = entries
        /\ SoundPick(outcome.auth, entries, ReadyIn(entries, allowed))
        /\ outcome.error =
              IF outcome.auth # None THEN Found
              ELSE Unavailable([q \in {p} |-> outcome.providers[p].shards[m]], allowed, now)

LEMMA PlainPicked ==
    ASSUME IInv, NEW p \in Providers, NEW m \in ModelKeys, NEW pinned, NEW tried,
           providers[p] # NoProvider
    PROVE  PlainPick(PickedSingle(p, m, pinned, tried, FALSE), p, m, Allowed(pinned, tried))
<1>1. ASSUME NEW websocket \in BOOLEAN, ~ websocket
      PROVE  PlainPick(PickedSingle(p, m, pinned, tried, websocket), p, m,
                       Allowed(pinned, tried))
  <2> DEFINE outcome == PickedSingle(p, m, pinned, tried, websocket)
             allowed == Allowed(pinned, tried)
             entries == ensureModelLocked(providers[p], m, now).entries
  <2>1. RequestPool(entries, p, pinned, websocket, allowed) = ReadyIn(entries, allowed)
    BY <1>1 DEF RequestPool, ReadyPool
  <2>2. GoodOutcome(outcome, p, m, pinned, websocket, allowed)
    BY SinglePicked
  <2> HIDE DEF outcome, entries
  <2> QED
    BY <2>1, <2>2 DEF GoodOutcome, PlainPick, outcome, entries
<1> QED
  BY <1>1

LEMMA SinglePickStored ==
    ASSUME IInv, NEW p \in Providers, NEW m \in ModelKeys, NEW pinned, NEW tried,
           NEW websocket \in BOOLEAN
    PROVE  /\ GoodProviders(PickedSingle(p, m, pinned, tried, websocket).providers, now)
           /\ Homes(PickedSingle(p, m, pinned, tried, websocket).providers, authProviders)
<1>1. CASE providers[p] = NoProvider
  <2>1. PickedSingle(p, m, pinned, tried, websocket).providers = providers
    BY <1>1 DEF PickedSingle
  <2> QED
    BY <2>1 DEF IInv
<1>2. CASE providers[p] # NoProvider
  BY <1>2, SinglePicked
<1> QED
  BY <1>1, <1>2

LEMMA PinnedPickStored ==
    ASSUME IInv, NEW list, NEW m \in ModelKeys, NEW pinned \in Auths, NEW tried
    PROVE  /\ GoodProviders(PickedPinned(list, m, pinned, tried).providers, now)
           /\ Homes(PickedPinned(list, m, pinned, tried).providers, authProviders)
<1> DEFINE p == authProviders[pinned]
<1>1. CASE p = None \/ p \notin Range(list)
  <2>1. PickedPinned(list, m, pinned, tried).providers = providers
    BY <1>1 DEF PickedPinned
  <2> QED
    BY <2>1 DEF IInv
<1>2. CASE ~ (p = None \/ p \notin Range(list))
  <2>1. p \in Providers
    BY <1>2 DEF IInv, Homes
  <2>2. PickedPinned(list, m, pinned, tried) = PickedSingle(p, m, pinned, tried, FALSE)
    BY <1>2 DEF PickedPinned
  <2> HIDE DEF p
  <2>3. FALSE \in BOOLEAN
    OBVIOUS
  <2> QED
    BY <2>1, <2>2, <2>3, SinglePickStored
<1> QED
  BY <1>1, <1>2

----------------------------------------------------------------------------
(* Init, and every step, keep it.                                          *)

LEMMA InitIInv == Init => IInv
<1> SUFFICES ASSUME Init PROVE IInv
  OBVIOUS
<1>1. Cardinality(Auths) \in Nat /\ MaxNow \in Nat
  BY SchedulerConstants, FS_CardinalityType
<1>2. CursorsTyped(mixedCursors)
  BY <1>1 DEF Init, NoMixedCursors, CursorsTyped
<1>3. GoodProviders(providers, now)
  BY DEF Init, GoodProviders, NoProvider
<1>4. Homes(providers, authProviders)
  <2>1. \A p \in Providers : p # None
    BY SchedulerConstants
  <2> QED
    BY <2>1 DEF Init, Homes, Knows, NoProvider
<1> QED
  BY <1>1, <1>2, <1>3, <1>4 DEF Init, IInv

LEMMA RemovalKeepsIInv ==
    ASSUME IInv, NEW a \in Auths, removeAuthLocked(a),
           UNCHANGED <<strategy, mixedCursors, registered, now>>
    PROVE  IInv'
<1>1. GoodProviders(providers', now) /\ Homes(providers', authProviders')
  BY AuthLeft, NowIsNat DEF IInv, removeAuthLocked
<1> QED
  BY <1>1 DEF IInv

LEMMA UpsertAuthKeepsIInv == ASSUME IInv, NEW a \in Auths, UpsertAuth(a) PROVE IInv'
<1>1. PICK auth \in Snapshots[a] :
         IF auth.disabled THEN removeAuthLocked(a) ELSE upsertAuthLocked(a, auth)
  BY DEF UpsertAuth
<1>2. UNCHANGED <<strategy, mixedCursors, registered, now>>
  BY DEF UpsertAuth
<1>3. CASE removeAuthLocked(a)
  BY <1>2, <1>3, RemovalKeepsIInv
<1>4. CASE upsertAuthLocked(a, auth)
  <2>1. GoodProviders(providers', now) /\ Homes(providers', authProviders')
    BY <1>4, AuthUpserted, NowIsNat DEF IInv
  <2> QED
    BY <1>2, <2>1 DEF IInv
<1> QED
  BY <1>1, <1>3, <1>4

LEMMA RebuildKeepsIInv == ASSUME IInv, Rebuild PROVE IInv'
<1> DEFINE Auth(p, a) == IF authProviders[a] # p THEN None
                         ELSE [auth |-> providers[p].auths[a].auth, models |-> registered[a]]
           auths(p) == [a \in Auths |-> Auth(p, a)]
           New(p) == [EmptyProvider EXCEPT !.auths = auths(p)]
           Empty(p) == \A a \in Auths : authProviders[a] # p
<1>1. providers' = [p \in Providers |-> IF Empty(p) THEN NoProvider ELSE New(p)]
  BY DEF Rebuild
<1>2. /\ mixedCursors' = NoMixedCursors
      /\ UNCHANGED <<strategy, authProviders, registered, now>>
  BY DEF Rebuild
<1>3. ASSUME NEW p \in Providers, NEW a \in Auths
      PROVE  /\ Auth(p, a) \in Metas \cup {None}
             /\ Auth(p, a) # None <=> authProviders[a] = p
  <2>1. CASE authProviders[a] # p
    BY <2>1
  <2>2. CASE authProviders[a] = p
    <3>1. providers[p].auths \in AuthMaps /\ providers[p].auths[a] # None
      BY <2>2, ProviderTyped DEF IInv, Homes, Knows, GoodProviders
    <3>2. providers[p].auths[a] \in Metas
      BY <3>1 DEF AuthMaps
    <3>3. Auth(p, a) \in Metas
      BY <2>2, <3>2 DEF Metas, IInv
    <3> QED
      BY <2>2, <3>3, NoneIsNothing
  <2> QED
    BY <2>1, <2>2
<1> HIDE DEF Auth
<1>4. ASSUME NEW p \in Providers
      PROVE  /\ GoodProvider(New(p), now) /\ New(p) # NoProvider /\ New(p) \in ProviderSchedulers
             /\ \A a \in Auths : New(p).auths[a] # None <=> authProviders[a] = p
  <2>1. auths(p) \in AuthMaps
    BY <1>3 DEF AuthMaps
  <2>2. \A a \in Auths : auths(p)[a] = Auth(p, a)
    OBVIOUS
  <2> HIDE DEF auths
  <2>3. GoodProvider(New(p), now) /\ New(p).auths = auths(p)
    BY <2>1, NewProvider, NowIsNat
  <2> HIDE DEF New
  <2> QED
    BY <1>3, <2>2, <2>3, ProviderTyped
<1> HIDE DEF New, auths
<1>5. GoodProviders(providers', now)
  BY <1>1, <1>4 DEF GoodProviders, NoProvider
<1>6. Homes(providers', authProviders)
  BY <1>1, <1>4 DEF IInv, Homes, Knows
<1>7. CursorsTyped(mixedCursors')
  <2>1. Cardinality(Auths) \in Nat
    BY SchedulerConstants, FS_CardinalityType
  <2> QED
    BY <1>2, <2>1 DEF NoMixedCursors, CursorsTyped
<1> QED
  BY <1>2, <1>5, <1>6, <1>7 DEF IInv

LEMMA SetSelectorKeepsIInv == ASSUME IInv, NEW s \in Strategies, SetSelector(s) PROVE IInv'
<1>1. Cardinality(Auths) \in Nat
  BY SchedulerConstants, FS_CardinalityType
<1>2. CursorsTyped(mixedCursors')
  BY <1>1 DEF SetSelector, NoMixedCursors, CursorsTyped
<1> QED
  BY <1>2 DEF SetSelector, IInv

LEMMA PickSingleKeepsIInv ==
    ASSUME IInv, NEW p \in Providers, NEW m \in Requested, NEW pinned, NEW tried,
           NEW websocket \in BOOLEAN, PickSingle(p, m, pinned, tried, websocket)
    PROVE  IInv'
<1>1. m \in ModelKeys
  BY SchedulerConstants
<1>2. GoodProviders(providers', now) /\ Homes(providers', authProviders)
  BY <1>1, SinglePickStored DEF PickSingle
<1> QED
  BY <1>2 DEF PickSingle, IInv

LEMMA PickMixedKeepsIInv ==
    ASSUME IInv, NEW list \in ProviderLists, NEW m \in Requested, NEW tried,
           PickMixed(list, m, tried)
    PROVE  IInv'
<1>1. m \in ModelKeys
  BY SchedulerConstants
<1>2. /\ providers' = PickedMixed(list, m, tried).providers
      /\ mixedCursors' = PickedMixed(list, m, tried).cursors
  BY DEF PickMixed
<1>3. /\ GoodProviders(providers', now) /\ Homes(providers', authProviders)
      /\ CursorsTyped(mixedCursors')
  BY <1>1, <1>2, MixedPicked
<1> QED
  BY <1>3 DEF PickMixed, IInv

LEMMA PickPinnedKeepsIInv ==
    ASSUME IInv, NEW list, NEW m \in Requested, NEW pinned \in Auths, NEW tried,
           PickPinned(list, m, pinned, tried)
    PROVE  IInv'
<1>1. m \in ModelKeys
  BY SchedulerConstants
<1>2. GoodProviders(providers', now) /\ Homes(providers', authProviders)
  BY <1>1, PinnedPickStored DEF PickPinned
<1> QED
  BY <1>2 DEF PickPinned, IInv

LEMMA RegisterModelsKeepsIInv == ASSUME IInv, NEW a \in Relisted, RegisterModels(a) PROVE IInv'
<1>1. registered' \in [Auths -> SUBSET Models]
  BY SchedulerConstants DEF RegisterModels, IInv
<1> QED
  BY <1>1 DEF RegisterModels, IInv

LEMMA TickKeepsIInv == ASSUME IInv, Tick PROVE IInv'
<1>1. now \in Nat /\ now' = now + 1 /\ now' \in 0..MaxNow /\ now' \in Nat
  BY NowIsNat, SchedulerConstants DEF Tick, IInv
<1>2. GoodProviders(providers, now')
  BY <1>1, ProviderLater DEF IInv, GoodProviders
<1> QED
  BY <1>1, <1>2 DEF Tick, IInv

LEMMA StepKeepsIInv == ASSUME IInv, [Next]_vars PROVE IInv'
<1>1. CASE UNCHANGED vars
  BY <1>1 DEF vars, IInv
<1>2. ASSUME NEW a \in Auths, UpsertAuth(a) PROVE IInv'
  BY <1>2, UpsertAuthKeepsIInv
<1>3. ASSUME NEW a \in Auths, RemoveAuth(a) PROVE IInv'
  BY <1>3, RemovalKeepsIInv DEF RemoveAuth
<1>4. CASE Rebuild
  BY <1>4, RebuildKeepsIInv
<1>5. ASSUME NEW s \in Strategies, SetSelector(s) PROVE IInv'
  BY <1>5, SetSelectorKeepsIInv
<1>6. ASSUME Pick PROVE IInv'
  <2>1. PICK m \in Requested, tried \in TriedSets :
           \/ \E p \in Providers, pinned \in Auths \cup {None},
                 websocket \in BOOLEAN : PickSingle(p, m, pinned, tried, websocket)
           \/ \E list \in ProviderLists :
                 \/ PickMixed(list, m, tried)
                 \/ \E pinned \in Auths : PickPinned(list, m, pinned, tried)
    BY <1>6 DEF Pick
  <2> QED
    BY <2>1, PickSingleKeepsIInv, PickMixedKeepsIInv, PickPinnedKeepsIInv
<1>7. CASE Environment
  BY <1>7, TickKeepsIInv, RegisterModelsKeepsIInv DEF Environment
<1> QED
  BY <1>1, <1>2, <1>3, <1>4, <1>5, <1>6, <1>7 DEF Next, Synchronize

LEMMA Invariant == Spec => []IInv
<1>1. Init => IInv
  BY InitIInv
<1>2. IInv /\ [Next]_vars => IInv'
  BY StepKeepsIInv
<1> QED
  BY <1>1, <1>2, PTL DEF Spec

----------------------------------------------------------------------------
(* What it implies for the shards.                                         *)

LEMMA ShardsGood ==
    ASSUME IInv, NEW s \in Shards
    PROVE  /\ s[1] \in Providers /\ s[2] \in ModelKeys
           /\ providers[s[1]] # NoProvider /\ providers[s[1]].auths \in AuthMaps
           /\ GoodShard(providers[s[1]].shards[s[2]], providers[s[1]].auths, s[2], now)
<1>1. s[1] \in Providers /\ s[2] \in ModelKeys
  BY DEF Shards
<1>2. providers[s[1]] # NoProvider /\ providers[s[1]].shards[s[2]] # NoShard
  BY DEF Shards
<1> QED
  BY <1>1, <1>2, ProviderTyped DEF IInv, GoodProviders, GoodProvider

(* In every reachable state the scheduler is well-formed: no cursor leaves *)
(* its rotation and every blocked entry has a time to be looked at again   *)
(* (scheduler.go, normalizeCursor and rebuildIndexesLocked).               *)
THEOREM TypeCorrect == Spec => []TypeOK
<1>1. IInv => TypeOK
  <2> SUFFICES ASSUME IInv PROVE TypeOK
    OBVIOUS
  <2>1. ASSUME NEW s \in Shards, NEW n \in Priorities
        PROVE  /\ CursorsWithin(providers[s[1]].shards[s[2]].ready[n].all)
               /\ CursorsWithin(providers[s[1]].shards[s[2]].ready[n].ws)
    BY ShardsGood DEF GoodShard, GoodIndexes, GoodView
  <2>2. ASSUME NEW s \in Shards, NEW a \in providers[s[1]].shards[s[2]].blocked
        PROVE  providers[s[1]].shards[s[2]].entries[a].nextRetryAt # None
    <3> DEFINE shard == providers[s[1]].shards[s[2]]
    <3>1. /\ s[2] \in ModelKeys /\ providers[s[1]].auths \in AuthMaps
          /\ GoodShard(shard, providers[s[1]].auths, s[2], now)
      BY ShardsGood
    <3>2. a \in Present(shard.entries) /\ shard.entries[a].state \in Waiting
      BY <2>2, <3>1 DEF GoodShard, GoodIndexes, EntriesIn, Present
    <3> HIDE DEF shard
    <3>3. shard.entries[a].nextRetryAt \in Nat
      BY <3>1, <3>2, EntrySays, NowIsNat DEF GoodShard
    <3>4. shard.entries[a].nextRetryAt # None
      <4>1. None \notin Nat
        BY SchedulerConstants
      <4> QED
        BY <3>3, <4>1
    <3> QED
      BY <3>4 DEF shard
  <2> QED
    BY <2>1, <2>2 DEF TypeOK, IInv, CursorsTyped, GoodProviders, Homes
<1> QED
  BY <1>1, Invariant, PTL

(* In every reachable state the incrementally kept indexes of every shard  *)
(* are those of a rebuild from its entries, although upsertEntryLocked     *)
(* skips rebuilds.                                                         *)
THEOREM IndexesCorrect == Spec => []IndexesCoherent
<1>1. IInv => IndexesCoherent
  <2> SUFFICES ASSUME IInv, NEW s \in Shards
               PROVE  LET shard == providers[s[1]].shards[s[2]]
                          fresh == rebuildIndexesLocked(EmptyShard, shard.entries)
                      IN  /\ Arrangement(shard.ready) = Arrangement(fresh.ready)
                          /\ shard.blocked = fresh.blocked
    BY DEF IndexesCoherent
  <2> DEFINE shard == providers[s[1]].shards[s[2]]
             fresh == rebuildIndexesLocked(EmptyShard, shard.entries)
  <2>1. GoodIndexes(shard) /\ shard.entries \in EntryMaps
    BY ShardsGood DEF GoodShard, GoodEntries
  <2> HIDE DEF shard
  <2>2. GoodIndexes(fresh) /\ fresh.entries = shard.entries
    BY <2>1, Rebuilt, EmptyShardTyped
  <2> HIDE DEF fresh
  <2>3. ASSUME NEW n \in Priorities, NEW class \in {"all", "ws"}
        PROVE  /\ shard.ready[n][class].flat = fresh.ready[n][class].flat
               /\ shard.ready[n][class].parentOrder = fresh.ready[n][class].parentOrder
               /\ shard.ready[n][class].items = fresh.ready[n][class].items
    <3>1. CASE class = "all"
      BY <2>1, <2>2, <3>1 DEF GoodIndexes, GoodView, Shows
    <3>2. CASE class = "ws"
      BY <2>1, <2>2, <3>2 DEF GoodIndexes, GoodView, Shows
    <3> QED
      BY <3>1, <3>2
  <2>4. Arrangement(shard.ready) = Arrangement(fresh.ready)
    BY <2>3 DEF Arrangement
  <2>5. shard.blocked = fresh.blocked
    BY <2>1, <2>2 DEF GoodIndexes
  <2> QED
    BY <2>4, <2>5 DEF shard, fresh
<1> QED
  BY <1>1, Invariant, PTL

(* In every reachable state each auth is known to the one provider that    *)
(* authProviders names, and every shard holds exactly the auths of its     *)
(* provider that support its model, with their latest snapshots, whenever  *)
(* it was built (ensureModelLocked, upsertAuth, removeAuth).               *)
THEOREM ShardsCorrect == Spec => []ShardsComplete
<1>1. IInv => ShardsComplete
  <2> SUFFICES ASSUME IInv PROVE ShardsComplete
    OBVIOUS
  <2>1. \A p \in Providers, a \in Auths :
           (authProviders[a] = p) <=>
              (providers[p] # NoProvider /\ providers[p].auths[a] # None)
    BY DEF IInv, Homes, Knows
  <2>2. ASSUME NEW s \in Shards, NEW a \in Auths
        PROVE  LET meta  == providers[s[1]].auths[a]
                   entry == providers[s[1]].shards[s[2]].entries[a]
               IN  /\ (entry # None) <=> (meta # None /\ supportsModel(meta, s[2]))
                   /\ entry # None => entry.meta = meta
    BY ShardsGood DEF GoodShard, GoodEntries, EntryOf
  <2> QED
    BY <2>1, <2>2 DEF ShardsComplete
<1> QED
  BY <1>1, Invariant, PTL

----------------------------------------------------------------------------
(* What it implies for the picks.                                          *)

(* What a shard that was brought up to date has ready: the free auths, but *)
(* for those that were told to wait longer.                                *)
LEMMA ReadyAreFree ==
    ASSUME IInv, NEW p \in Providers, NEW m \in ModelKeys, providers[p] # NoProvider,
           NEW allowed \in SUBSET Auths
    PROVE  LET entries == ensureModelLocked(providers[p], m, now).entries
               free    == Free(p, m, allowed) \ HeldBack(p, m)
           IN  /\ ReadyIn(entries, allowed) = free
               /\ \A a \in free : entries[a].meta.auth = Snapshot(p, a)
<1> DEFINE shard == ensureModelLocked(providers[p], m, now)
           auths == providers[p].auths
           free == Free(p, m, allowed) \ HeldBack(p, m)
           waits == HeldIn(providers[p], m, now)
<1>1. now \in Nat /\ GoodProvider(providers[p], now) /\ auths \in AuthMaps
  BY NowIsNat, ProviderTyped DEF IInv, GoodProviders
<1>2. GoodShard(shard, auths, m, now) /\ UpToDate(shard, auths, m, now, waits)
  BY <1>1, Ensured
<1>3. HeldBack(p, m) = waits
  <2>1. <<p, m>> \in Shards <=> providers[p].shards[m] # NoShard
    BY DEF Shards
  <2>2. CASE providers[p].shards[m] = NoShard
    BY <2>1, <2>2 DEF HeldBack, HeldIn
  <2>3. CASE providers[p].shards[m] # NoShard
    <3>1. providers[p].shards[m].blocked \in SUBSET Auths
      BY <1>1, <2>3, ShardTyped DEF GoodProvider, ModelShards
    <3> QED
      BY <2>1, <2>3, <3>1 DEF HeldBack, HeldIn, Waits
  <2> QED
    BY <2>2, <2>3
<1> HIDE DEF shard, waits
<1>4. ASSUME NEW a \in Auths, shard.entries[a] # None
      PROVE  /\ auths[a] # None /\ supportsModel(auths[a], m)
             /\ shard.entries[a].meta = auths[a]
             /\ (shard.entries[a].state = "ready") <=>
                   (isAuthBlockedForModel(Snapshot(p, a), m, now) = NotBlocked /\ a \notin waits)
  <2>1. a \in Present(shard.entries)
    BY <1>4 DEF Present
  <2>2. /\ auths[a] \in Metas /\ shard.entries[a].meta = auths[a]
        /\ supportsModel(auths[a], m) /\ auths[a].auth \in AuthSnapshots
    BY <1>1, <1>2, <2>1, EntrySays DEF GoodShard
  <2>3. auths[a] # None
    BY <2>2, NoneIsNothing
  <2>4. shard.entries[a].state = "ready" <=>
           ~ Disabled(auths[a].auth, m) /\ ~ Held(auths[a].auth, m, now) /\ a \notin waits
    BY <1>2, <2>1 DEF UpToDate
  <2>5. isAuthBlockedForModel(auths[a].auth, m, now) = NotBlocked <=>
           ~ Disabled(auths[a].auth, m) /\ ~ Held(auths[a].auth, m, now)
    BY <1>1, <2>2, Verdict
  <2> QED
    BY <2>2, <2>3, <2>4, <2>5 DEF Snapshot
<1>5. \A a \in Auths : shard.entries[a] # None <=> auths[a] # None /\ supportsModel(auths[a], m)
  BY <1>2 DEF GoodShard, GoodEntries, EntryOf
<1>6. ReadyIn(shard.entries, allowed) = free
  BY <1>3, <1>4, <1>5 DEF ReadyIn, EntriesIn, Free, Candidates
<1>7. \A a \in free : shard.entries[a].meta.auth = Snapshot(p, a)
  BY <1>4, <1>5 DEF Free, Candidates, Snapshot
<1> QED
  BY <1>6, <1>7 DEF shard

LEMMA NoneFree ==
    ASSUME NEW p, providers[p] = NoProvider, NEW m, NEW allowed
    PROVE  Free(p, m, allowed) = {}
BY DEF Free, Candidates

(* In every reachable state a pick from one provider returns a free auth   *)
(* of the highest priority, the first one under fill-first, and fails only *)
(* if there is none (pickSingle).                                          *)
THEOREM PicksCorrect == Spec => []PickSound
<1>1. IInv => PickSound
  <2> SUFFICES ASSUME IInv, NEW p \in Providers, NEW m \in Requested,
                      NEW pinned \in Auths \cup {None}, NEW tried \in TriedSets,
                      NEW websocket \in BOOLEAN
               PROVE  LET got  == PickedSingle(p, m, pinned, tried, websocket).auth
                          free == Free(p, m, Allowed(pinned, tried)) \ HeldBack(p, m)
                          best == Best(p, Preferred(p, free, websocket, pinned))
                      IN  IF free = {} THEN got = None
                          ELSE /\ got \in best
                               /\ strategy = "fill-first" => \A a \in best : got <= a
    BY DEF PickSound
  <2> DEFINE allowed == Allowed(pinned, tried)
             got == PickedSingle(p, m, pinned, tried, websocket).auth
             free == Free(p, m, allowed) \ HeldBack(p, m)
             preferred == Preferred(p, free, websocket, pinned)
             best == Best(p, preferred)
             entries == ensureModelLocked(providers[p], m, now).entries
  <2>1. m \in ModelKeys /\ allowed \in SUBSET Auths
    BY SchedulerConstants DEF Allowed
  <2>2. CASE providers[p] = NoProvider
    <3>1. got = None
      BY <2>2 DEF PickedSingle
    <3>2. free = {}
      BY <2>2, NoneFree
    <3> QED
      BY <3>1, <3>2
  <2>3. CASE providers[p] # NoProvider
    <3> DEFINE pool == RequestPool(entries, p, pinned, websocket, allowed)
    <3>1. /\ pool = {} => got = None
          /\ pool # {} => /\ got \in Foremost(entries, pool)
                          /\ strategy = "fill-first" =>
                                \A a \in Foremost(entries, pool) : got <= a
      <4>1. GoodOutcome(PickedSingle(p, m, pinned, tried, websocket), p, m,
                        pinned, websocket, allowed)
        BY <2>1, <2>3, SinglePicked
      <4>2. SoundPick(got, entries, pool)
        BY <4>1 DEF GoodOutcome
      <4> HIDE DEF got, entries, pool
      <4> QED
        BY <4>2 DEF SoundPick, Foremost
    <3>2. /\ ReadyIn(entries, allowed) = free
          /\ \A a \in free : entries[a].meta.auth = Snapshot(p, a)
      BY <2>1, <2>3, ReadyAreFree
    <3> HIDE DEF entries, allowed, got, free
    <3>3. Websocket(entries, free) = WithTransport(p, free)
      BY <3>2 DEF Websocket, WithTransport
    <3>4. pool = preferred /\ preferred \in SUBSET free
      BY <3>2, <3>3 DEF RequestPool, ReadyPool, Preferred, WithTransport
    <3>5. preferred = {} => free = {}
      BY DEF Preferred
    <3> HIDE DEF pool, preferred
    <3>6. Foremost(entries, pool) = best
      BY <3>2, <3>4 DEF Foremost, Best, Priority
    <3> QED
      BY <3>1, <3>4, <3>5, <3>6 DEF got, free, preferred, allowed
  <2> QED
    BY <2>2, <2>3
<1> QED
  BY <1>1, Invariant, PTL

(* In every reachable state a failed pick says why: auth_not_found only if *)
(* there is no candidate, and model_cooldown only if every candidate is    *)
(* over quota until the reported time at least (unavailableErrorLocked).   *)
THEOREM FailuresCorrect == Spec => []FailureExplained
<1>1. IInv => FailureExplained
  <2> SUFFICES ASSUME IInv, NEW p \in Providers, NEW m \in Requested, NEW tried \in TriedSets
               PROVE  LET outcome == PickedSingle(p, m, None, tried, FALSE)
                          waiting == Candidates(p, m, Auths \ tried)
                          entry(a) == outcome.providers[p].shards[m].entries[a]
                      IN  /\ outcome.error.code = "auth_not_found" <=> waiting = {}
                          /\ outcome.error.code = "model_cooldown" =>
                                \A a \in waiting :
                                   /\ Snapshot(p, a).states[m].exceeded
                                   /\ entry(a).nextRetryAt >= now + outcome.error.resetIn
    BY DEF FailureExplained
  <2> DEFINE outcome == PickedSingle(p, m, None, tried, FALSE)
             allowed == Auths \ tried
             waiting == Candidates(p, m, allowed)
             auths == providers[p].auths
             shard == ensureModelLocked(providers[p], m, now)
             entries == shard.entries
             stored == outcome.providers[p].shards[m]
             one == [q \in {p} |-> stored]
  <2>1. m \in ModelKeys /\ now \in Nat /\ Allowed(None, tried) = allowed
    BY NowIsNat, SchedulerConstants DEF Allowed
  <2>2. CASE providers[p] = NoProvider
    <3>1. outcome.error = NotFound
      BY <2>2 DEF PickedSingle
    <3>2. waiting = {}
      BY <2>2 DEF Candidates
    <3> HIDE DEF outcome, waiting
    <3>3. outcome.error.code = "auth_not_found"
      BY <3>1 DEF NotFound
    <3> QED
      BY <3>2, <3>3 DEF outcome, waiting
  <2>3. CASE providers[p] # NoProvider
    <3> DEFINE pool == ReadyIn(entries, allowed)
    <3>1. PlainPick(outcome, p, m, allowed)
      BY <2>1, <2>3, PlainPicked
    <3> HIDE DEF outcome
    <3>2. /\ GoodShard(shard, auths, m, now)
          /\ UpToDate(shard, auths, m, now, HeldIn(providers[p], m, now))
      BY <2>1, <2>3, Ensured DEF IInv, GoodProviders
    <3>3. /\ stored.entries = entries
          /\ GoodShard(shard, auths, m, now)
          /\ UpToDate(shard, auths, m, now, HeldIn(providers[p], m, now))
          /\ SoundPick(outcome.auth, entries, pool)
          /\ outcome.error = IF outcome.auth # None THEN Found
                             ELSE Unavailable(one, allowed, now)
      BY <3>1, <3>2 DEF PlainPick
    <3> HIDE DEF shard
    <3>4. auths \in AuthMaps /\ GoodEntries(entries, auths, m, now)
      BY <2>3, <3>3, ProviderTyped DEF IInv, GoodProviders, GoodShard
    <3>5. waiting = {a \in allowed : entries[a] # None}
      BY <2>3, <3>4 DEF Candidates, GoodEntries, EntryOf
    <3>6. CASE outcome.auth # None
      <4>1. outcome.auth \in pool
        BY <3>3, <3>6 DEF SoundPick, Foremost
      <4>2. outcome.auth \in waiting
        BY <3>5, <4>1 DEF ReadyIn, EntriesIn
      <4>3. outcome.error.code = "ok"
        BY <3>3, <3>6 DEF Found
      <4> QED
        BY <4>2, <4>3 DEF outcome
    <3>7. CASE outcome.auth = None
      <4> DEFINE asked == {x \in {p} \X allowed : one[x[1]].entries[x[2]] # None}
                 cooling == {x \in asked : CoolingDown(one[x[1]].entries[x[2]])}
                 earliest == {one[x[1]].entries[x[2]].nextRetryAt : x \in cooling}
                 first == CHOOSE t \in earliest : \A u \in earliest : t <= u
                 resetIn == IF first < now THEN 0 ELSE first - now
      <4>1. outcome.error =
               IF asked = {} THEN [code |-> "auth_not_found", resetIn |-> None]
               ELSE IF cooling = asked
               THEN [code |-> "model_cooldown", resetIn |-> resetIn]
               ELSE [code |-> "auth_unavailable", resetIn |-> None]
        BY <3>3, <3>7 DEF Unavailable
      <4>2. one[p] = stored
        OBVIOUS
      <4> HIDE DEF one, stored
      <4>3. asked = {p} \X waiting
        BY <3>3, <3>5, <4>2
      <4>4. asked = {} <=> waiting = {}
        <5>1. ASSUME NEW a \in waiting PROVE <<p, a>> \in asked
          BY <4>3
        <5>2. ASSUME NEW x \in asked PROVE x[2] \in waiting
          BY <4>3
        <5> HIDE DEF asked, waiting
        <5> QED
          BY <5>1, <5>2
      <4>5. ASSUME cooling = asked, NEW a \in waiting
            PROVE  /\ Snapshot(p, a).states[m].exceeded
                   /\ stored.entries[a].nextRetryAt \in earliest
                   /\ stored.entries[a].nextRetryAt \in Nat
                   /\ stored.entries[a].nextRetryAt > now
        <5>1. <<p, a>> \in asked
          BY <4>3, <4>5
        <5>2. <<p, a>> \in cooling
          BY <4>5, <5>1
        <5>3. entries[a].state = "cooldown" /\ entries[a].nextRetryAt \in earliest
          <6>1. one[p].entries = entries
            BY <3>3, <4>2
          <6>2. PICK x \in cooling : x = <<p, a>>
            BY <5>2
          <6>3. x[1] = p /\ x[2] = a
            BY <6>2
          <6>4. /\ CoolingDown(one[x[1]].entries[x[2]])
                /\ one[x[1]].entries[x[2]].nextRetryAt \in earliest
            OBVIOUS
          <6> HIDE DEF earliest
          <6> QED
            BY <6>1, <6>3, <6>4 DEF CoolingDown
        <5>4. a \in Present(entries)
          BY <3>5 DEF Present
        <5>5. auths[a].auth.states[m].exceeded /\ entries[a].nextRetryAt \in Nat
          <6>1. /\ entries[a].state = "cooldown" => auths[a].auth.states[m].exceeded
                /\ entries[a].state \in Waiting => entries[a].nextRetryAt \in Nat
            BY <2>1, <3>4, <5>4, EntrySays
          <6> QED
            BY <5>3, <6>1 DEF Waiting
        <5>6. entries[a].nextRetryAt > now
          BY <3>3, <5>3, <5>4 DEF UpToDate, Waiting
        <5> QED
          BY <3>3, <5>3, <5>5, <5>6 DEF Snapshot
      <4>6. ASSUME cooling = asked, asked # {} PROVE earliest \in SUBSET Nat
        <5> SUFFICES ASSUME NEW x \in cooling
                     PROVE  one[x[1]].entries[x[2]].nextRetryAt \in Nat
          OBVIOUS
        <5>1. x \in {p} \X waiting
          BY <4>3
        <5>2. x[1] = p /\ x[2] \in waiting
          BY <5>1
        <5> QED
          BY <4>2, <4>5, <4>6, <5>2
      <4> HIDE DEF earliest, asked, cooling, waiting
      <4>7. ASSUME cooling = asked, NEW a \in waiting
            PROVE  stored.entries[a].nextRetryAt >= now + resetIn
        <5>1. earliest \in SUBSET Nat /\ earliest # {}
          BY <4>4, <4>5, <4>6, <4>7
        <5>2. first \in earliest /\ \A u \in earliest : first <= u
          BY <5>1, LeastNumber
        <5> HIDE DEF first
        <5>3. /\ first \in Nat /\ first <= stored.entries[a].nextRetryAt
              /\ stored.entries[a].nextRetryAt \in Nat
              /\ stored.entries[a].nextRetryAt > now
          BY <4>5, <4>7, <5>1, <5>2
        <5> QED
          BY <2>1, <5>3
      <4> HIDE DEF resetIn
      <4>8. outcome.error.code = "auth_not_found" <=> waiting = {}
        BY <4>1, <4>4
      <4>9. ASSUME outcome.error.code = "model_cooldown", NEW a \in waiting
            PROVE  /\ Snapshot(p, a).states[m].exceeded
                   /\ stored.entries[a].nextRetryAt >= now + outcome.error.resetIn
        <5>1. cooling = asked /\ outcome.error.resetIn = resetIn
          BY <4>1, <4>9
        <5> QED
          BY <4>5, <4>7, <4>9, <5>1
      <4> QED
        BY <4>8, <4>9 DEF outcome, waiting, stored
    <3> QED
      BY <3>6, <3>7
  <2> QED
    BY <2>2, <2>3
<1> QED
  BY <1>1, Invariant, PTL

(* A mixed pick finds a free auth of the highest priority, if there is one. *)
ForemostPicked(list, m, tried) ==
    LET free(p) == Free(p, m, Auths \ tried) \ HeldBack(p, m)
        pool == {x \in Range(list) \X Auths : x[2] \in free(x[1])}
        priority(x) == Snapshot(x[1], x[2]).priority
        got == PickedMixed(list, m, tried).auth
    IN  IF pool = {} THEN got = None
        ELSE \E x \in pool : /\ x[2] = got
                             /\ \A y \in pool : priority(y) <= priority(x)

(* In every reachable state a pick over several providers returns a free   *)
(* auth of the highest priority over all of them, and fails only if none   *)
(* has one; a pinned auth is found wherever it is (pickMixed).             *)
THEOREM MixedPicksCorrect == Spec => []MixedPickSound
<1>1. ASSUME IInv, NEW list \in ProviderLists, NEW m \in Requested, NEW tried \in TriedSets
      PROVE  ForemostPicked(list, m, tried)
  <2> DEFINE free(p) == Free(p, m, Auths \ tried) \ HeldBack(p, m)
             pool == {x \in Range(list) \X Auths : x[2] \in free(x[1])}
             got  == PickedMixed(list, m, tried).auth
             shards == MixedShards(list, m)
             Ready(p) == ReadyIn(shards[p].entries, Auths \ tried)
  <2>1. m \in ModelKeys
    BY SchedulerConstants
  <2>2. /\ DOMAIN shards = {p \in Range(list) : providers[p] # NoProvider}
        /\ \A p \in DOMAIN shards : /\ p \in Providers
                                    /\ shards[p] = ensureModelLocked(providers[p], m, now)
    BY <1>1, <2>1, MixedShardsGood
  <2>3. /\ (\A p \in DOMAIN shards : Ready(p) = {}) => got = None
        /\ (\E p \in DOMAIN shards : Ready(p) # {}) =>
              \E p \in DOMAIN shards :
                 /\ got \in Ready(p)
                 /\ \A q \in DOMAIN shards : \A b \in Ready(q) :
                       Priority(shards[q].entries, b) <= Priority(shards[p].entries, got)
    BY <1>1, <2>1, MixedPicked
  <2> HIDE DEF shards, got
  <2>4. ASSUME NEW p \in DOMAIN shards
        PROVE  /\ Ready(p) = free(p)
               /\ \A a \in free(p) : Priority(shards[p].entries, a) = Snapshot(p, a).priority
    <3>1. p \in Providers /\ providers[p] # NoProvider /\ Auths \ tried \in SUBSET Auths
      BY <2>2
    <3>2. shards[p] = ensureModelLocked(providers[p], m, now)
      BY <2>2
    <3> QED
      BY <1>1, <2>1, <3>1, <3>2, ReadyAreFree DEF Priority
  <2>5. \A p \in Range(list) : p \notin DOMAIN shards => free(p) = {}
    BY <2>2, NoneFree
  <2>6. \A p : free(p) \in SUBSET Auths
    BY DEF Free, Candidates
  <2> HIDE DEF free, Ready
  <2>7. CASE \A p \in DOMAIN shards : Ready(p) = {}
    <3>1. pool = {}
      <4> SUFFICES ASSUME NEW x \in pool PROVE FALSE
        OBVIOUS
      <4>1. x[1] \in Range(list) /\ x[2] \in free(x[1])
        OBVIOUS
      <4> QED
        BY <2>4, <2>5, <2>7, <4>1
    <3> QED
      BY <2>3, <2>7, <3>1 DEF got, free, ForemostPicked
  <2>8. CASE \E p \in DOMAIN shards : Ready(p) # {}
    <3>1. PICK p \in DOMAIN shards :
             /\ got \in Ready(p)
             /\ \A q \in DOMAIN shards : \A b \in Ready(q) :
                   Priority(shards[q].entries, b) <= Priority(shards[p].entries, got)
      BY <2>3, <2>8
    <3>2. <<p, got>> \in pool
      BY <2>2, <2>4, <2>6, <3>1
    <3>3. ASSUME NEW y \in pool
          PROVE  Snapshot(y[1], y[2]).priority <= Snapshot(p, got).priority
      <4>1. y[1] \in Range(list) /\ y[2] \in free(y[1])
        OBVIOUS
      <4>2. y[1] \in DOMAIN shards
        BY <2>5, <4>1
      <4> QED
        BY <2>4, <3>1, <4>1, <4>2
    <3>4. \E x \in pool : /\ x[2] = got
                          /\ \A y \in pool :
                                Snapshot(y[1], y[2]).priority <= Snapshot(x[1], x[2]).priority
      BY <3>2, <3>3
    <3> QED
      BY <3>2, <3>4 DEF got, free, ForemostPicked
  <2> QED
    BY <2>7, <2>8
<1>2. ASSUME IInv, NEW list \in ProviderLists, NEW m \in Requested, NEW tried \in TriedSets,
             NEW pinned \in Auths
      PROVE  PickedPinned(list, m, pinned, tried).auth =
                IF \E p \in Range(list) :
                      pinned \in Free(p, m, {pinned} \ tried) \ HeldBack(p, m)
                THEN pinned ELSE None
  <2> DEFINE p == authProviders[pinned]
             allowed == {pinned} \ tried
             free(q) == Free(q, m, allowed) \ HeldBack(q, m)
             got == PickedPinned(list, m, pinned, tried).auth
  <2>1. m \in ModelKeys /\ pinned # None /\ Range(list) \subseteq Providers
    <3>1. list \in Seq(Providers)
      BY SchedulerConstants
    <3> QED
      BY <3>1, SchedulerConstants DEF Range
  <2>2. \A q \in Range(list) : pinned \in free(q) => q = p
    BY <1>2, <2>1 DEF Free, Candidates, IInv, Homes, Knows
  <2>3. CASE p = None \/ p \notin Range(list)
    <3>1. got = None
      BY <2>3 DEF PickedPinned
    <3>2. p \notin Range(list)
      BY <2>1, <2>3, SchedulerConstants
    <3> QED
      BY <2>2, <3>1, <3>2
  <2>4. CASE p # None /\ p \in Range(list)
    <3>1. p \in Providers /\ providers[p] # NoProvider
      BY <1>2, <2>1, <2>4 DEF IInv, Homes, Knows
    <3> DEFINE entries == ensureModelLocked(providers[p], m, now).entries
               pool == ReadyIn(entries, allowed)
    <3>2. Allowed(pinned, tried) = allowed
      BY <2>1 DEF Allowed
    <3>3. PlainPick(PickedSingle(p, m, pinned, tried, FALSE), p, m, Allowed(pinned, tried))
      BY <1>2, <2>1, <3>1, PlainPicked
    <3>4. got = PickedSingle(p, m, pinned, tried, FALSE).auth
      BY <2>4 DEF PickedPinned
    <3> HIDE DEF p, got
    <3>5. SoundPick(got, entries, pool)
      BY <3>2, <3>3, <3>4 DEF PlainPick
    <3>6. allowed \in SUBSET Auths
      OBVIOUS
    <3>7. ReadyIn(entries, allowed) = free(p)
      BY <1>2, <2>1, <3>1, <3>6, ReadyAreFree
    <3> HIDE DEF entries
    <3>8. pool = free(p)
      BY <3>7
    <3> HIDE DEF pool
    <3>9. \A a \in free(p) : a = pinned
      BY DEF Free, Candidates
    <3> HIDE DEF free
    <3>10. got # None => got = pinned /\ pinned \in free(p)
      BY <3>5, <3>8, <3>9 DEF SoundPick, Foremost
    <3>11. pinned \in free(p) => got # None
      BY <3>5, <3>8 DEF SoundPick
    <3>12. got = IF \E q \in Range(list) : pinned \in free(q) THEN pinned ELSE None
      BY <2>2, <2>4, <3>10, <3>11
    <3> QED
      BY <3>12 DEF got, free
  <2> QED
    BY <2>3, <2>4
<1>3. ASSUME IInv PROVE MixedPickSound
  <2> USE <1>3
  <2> SUFFICES ASSUME NEW list \in ProviderLists, NEW m \in Requested, NEW tried \in TriedSets
               PROVE  LET free(p, S) == Free(p, m, S \ tried) \ HeldBack(p, m)
                          pool == {x \in Range(list) \X Auths : x[2] \in free(x[1], Auths)}
                          priority(x) == Snapshot(x[1], x[2]).priority
                          got  == PickedMixed(list, m, tried).auth
                      IN  /\ IF pool = {} THEN got = None
                             ELSE \E x \in pool :
                                     /\ x[2] = got
                                     /\ \A y \in pool : priority(y) <= priority(x)
                          /\ \A pinned \in Auths :
                                PickedPinned(list, m, pinned, tried).auth =
                                   IF \E p \in Range(list) : pinned \in free(p, {pinned})
                                   THEN pinned ELSE None
    BY DEF MixedPickSound
  <2>1. ForemostPicked(list, m, tried)
    BY <1>1
  <2>2. \A pinned \in Auths :
           PickedPinned(list, m, pinned, tried).auth =
              IF \E p \in Range(list) :
                    pinned \in Free(p, m, {pinned} \ tried) \ HeldBack(p, m)
              THEN pinned ELSE None
    BY <1>2
  <2> QED
    BY <2>1, <2>2 DEF ForemostPicked
<1> QED
  BY <1>3, Invariant, PTL

----------------------------------------------------------------------------
(* The record of who was served.                                           *)

LEMMA PickNothingTried == {} \in TriedSets
BY SchedulerConstants, FS_EmptySet DEF TriedSets

LEMMA RotatingPicks == ASSUME RotatingPick PROVE Pick
<1>1. PICK request \in Requests :
         LET list == request.providers
         IN  IF Len(list) = 1
             THEN PickSingle(list[1], request.model, None, {}, request.websocket)
             ELSE PickMixed(list, request.model, {})
  BY DEF RotatingPick
<1>2. /\ request.providers \in {<<p>> : p \in Providers} \cup ProviderLists
      /\ request.model \in Requested /\ request.websocket \in BOOLEAN
  BY DEF Requests
<1>3. {} \in TriedSets
  BY PickNothingTried
<1>4. CASE \E p \in Providers : request.providers = <<p>>
  <2>1. PICK p \in Providers : request.providers = <<p>>
    BY <1>4
  <2>2. PickSingle(p, request.model, None, {}, request.websocket)
    BY <1>1, <2>1
  <2>3. None \in Auths \cup {None}
    OBVIOUS
  <2> QED
    BY <1>2, <1>3, <2>2, <2>3 DEF Pick
<1>5. CASE request.providers \in ProviderLists
  <2>1. PickMixed(request.providers, request.model, {})
    BY <1>1, <1>5, SchedulerConstants
  <2> QED
    BY <1>2, <1>3, <1>5, <2>1 DEF Pick
<1> QED
  BY <1>2, <1>4, <1>5

(* The specification that the runs check, which records who was served,    *)
(* does what the scheduler does: whatever is proved of the scheduler holds *)
(* of it too.                                                              *)
THEOREM RotationRefines == RotationSpec => Spec
<1>1. RotationInit => Init
  BY DEF RotationInit
<1>2. [RotationNext]_rotationVars => [Next]_vars
  <2>1. CASE RotatingPick
    BY <2>1, RotatingPicks DEF Next
  <2>2. ASSUME FilteredPick PROVE Pick
    <3>1. PICK m \in Requested, tried \in TriedSets :
             \/ \E p \in Providers, pinned \in Auths \cup {None} :
                   PickSingle(p, m, pinned, tried, FALSE)
             \/ \E list \in ProviderLists :
                   \/ PickMixed(list, m, tried)
                   \/ \E pinned \in Auths : PickPinned(list, m, pinned, tried)
      BY <2>2 DEF FilteredPick
    <3>2. FALSE \in BOOLEAN
      OBVIOUS
    <3> QED
      BY <3>1, <3>2 DEF Pick
  <2>3. CASE \E a \in Auths : UpsertAuth(a) \/ RemoveAuth(a)
    BY <2>3 DEF Next, Synchronize
  <2>4. CASE Rebuild \/ \E s \in Strategies : SetSelector(s)
    BY <2>4 DEF Next, Synchronize
  <2>5. CASE Environment
    BY <2>5 DEF Next
  <2>6. CASE UNCHANGED rotationVars
    BY <2>6 DEF rotationVars
  <2> QED
    BY <2>1, <2>2, <2>3, <2>4, <2>5, <2>6 DEF RotationNext, Next
<1> QED
  BY <1>1, <1>2, PTL DEF RotationSpec, Spec

----------------------------------------------------------------------------
(* Trails: what was served, going back around a ring from its cursor.      *)

(* The position that was served d picks before a cursor, in a ring of n.   *)
Behind(cursor, d, n) == IF d < cursor THEN cursor - d ELSE cursor - d + n

LEMMA BehindMoves ==
    ASSUME NEW n \in Nat \ {0}, NEW cursor \in 0..n, NEW d \in 0..(n - 1)
    PROVE  /\ Behind(cursor, d, n) \in 1..n
           /\ \A e \in 0..(n - 1) : Behind(cursor, d, n) = Behind(cursor, e, n) => d = e
           /\ (cursor % n) + 1 \in 1..n
           /\ Behind((cursor % n) + 1, 0, n) = (cursor % n) + 1
           /\ d # 0 => Behind((cursor % n) + 1, d, n) = Behind(cursor, d - 1, n)
           /\ Behind(normalizeCursor(cursor, n), d, n) = Behind(cursor, d, n)
<1>1. cursor % n = IF cursor = n THEN 0 ELSE cursor
  OBVIOUS
<1>2. normalizeCursor(cursor, n) = cursor % n
  BY DEF normalizeCursor
<1> QED
  BY <1>1, <1>2 DEF Behind

(* The sequence was served from the members W of the ring's positions.     *)
Trail(seq, n, W, cursor) ==
    \A d \in 0..(n - 1) :
       d < Len(seq) => seq[Len(seq) - d] \in W[Behind(cursor, d, n)]

LEMMA LastOnes ==
    ASSUME NEW S, NEW seq \in Seq(S), NEW n \in Nat \ {0}
    PROVE  /\ LastOf(seq, n) \in Seq(S)
           /\ Len(LastOf(seq, n)) = IF Len(seq) <= n THEN Len(seq) ELSE n
           /\ \A d \in 0..(Len(LastOf(seq, n)) - 1) :
                 LastOf(seq, n)[Len(LastOf(seq, n)) - d] = seq[Len(seq) - d]
<1>1. CASE Len(seq) <= n
  BY <1>1 DEF LastOf
<1>2. CASE ~ (Len(seq) <= n)
  <2> DEFINE last == SubSeq(seq, Len(seq) - n + 1, Len(seq))
  <2>1. last \in Seq(S) /\ Len(last) = n /\ \A i \in 1..n : last[i] = seq[Len(seq) - n + i]
    BY <1>2
  <2>2. LastOf(seq, n) = last
    BY <1>2 DEF LastOf
  <2> HIDE DEF last
  <2>3. ASSUME NEW d \in 0..(n - 1) PROVE last[n - d] = seq[Len(seq) - d]
    <3>1. n - d \in 1..n /\ Len(seq) - n + (n - d) = Len(seq) - d
      OBVIOUS
    <3> QED
      BY <2>1, <3>1
  <2> QED
    BY <1>2, <2>1, <2>2, <2>3
<1> QED
  BY <1>1, <1>2

LEMMA TrailStarts ==
    ASSUME NEW n \in Nat \ {0}, NEW cursor \in 1..n, NEW W, NEW a, a \in W[cursor]
    PROVE  Trail(<<a>>, n, W, cursor)
BY DEF Trail, Behind

(* A pick of the next position makes the trail one longer.                 *)
LEMMA TrailMoves ==
    ASSUME NEW n \in Nat \ {0}, NEW cursor \in 0..n, NEW W, NEW S, NEW seq \in Seq(S),
           Trail(seq, n, W, cursor), NEW a \in S, a \in W[(cursor % n) + 1],
           NEW size \in Nat \ {0}
    PROVE  Trail(LastOf(Append(seq, a), size), n, W, (cursor % n) + 1)
<1> DEFINE more == Append(seq, a)
           last == LastOf(more, size)
<1>1. more \in Seq(S) /\ Len(more) = Len(seq) + 1
  OBVIOUS
<1>2. /\ Len(last) \in Nat /\ Len(last) <= Len(more)
      /\ \A d \in 0..(Len(last) - 1) : last[Len(last) - d] = more[Len(more) - d]
  <2>1. /\ last \in Seq(S)
        /\ Len(last) = IF Len(more) <= size THEN Len(more) ELSE size
        /\ \A d \in 0..(Len(last) - 1) : last[Len(last) - d] = more[Len(more) - d]
    BY <1>1, LastOnes
  <2> HIDE DEF last, more
  <2> QED
    BY <1>1, <2>1
<1> HIDE DEF last
<1>3. ASSUME NEW d \in 0..(n - 1), d < Len(last)
      PROVE  last[Len(last) - d] \in W[Behind((cursor % n) + 1, d, n)]
  <2>1. last[Len(last) - d] = more[Len(more) - d] /\ d < Len(more) /\ d \in Nat
    BY <1>1, <1>2, <1>3
  <2>2. CASE d = 0
    <3>1. more[Len(more) - d] = a
      BY <1>1, <2>2
    <3>2. Behind((cursor % n) + 1, d, n) = (cursor % n) + 1
      BY <2>2, BehindMoves
    <3> QED
      BY <2>1, <3>1, <3>2
  <2>3. CASE d # 0
    <3>1. /\ d - 1 \in 0..(n - 1) /\ d - 1 < Len(seq)
          /\ more[Len(more) - d] = seq[Len(seq) - (d - 1)]
      <4> DEFINE k == Len(seq) - (d - 1)
      <4>1. /\ d - 1 \in 0..(n - 1) /\ d - 1 < Len(seq)
            /\ Len(more) - d = k /\ k \in 1..Len(seq)
        <5> HIDE DEF more
        <5> QED
          BY <1>1, <2>1, <2>3
      <4> HIDE DEF k
      <4>2. more[k] = seq[k]
        BY <4>1
      <4> QED
        BY <4>1, <4>2 DEF k
    <3>2. seq[Len(seq) - (d - 1)] \in W[Behind(cursor, d - 1, n)]
      BY <3>1 DEF Trail
    <3>3. Behind((cursor % n) + 1, d, n) = Behind(cursor, d - 1, n)
      BY <2>3, BehindMoves
    <3> QED
      BY <2>1, <3>1, <3>2, <3>3
  <2> QED
    BY <2>2, <2>3
<1>4. Trail(last, n, W, (cursor % n) + 1)
  BY <1>3 DEF Trail
<1> QED
  BY <1>4 DEF last

LEMMA TrailNormalized ==
    ASSUME NEW n \in Nat, NEW cursor \in 0..n, NEW W, NEW seq, Trail(seq, n, W, cursor)
    PROVE  Trail(seq, n, W, normalizeCursor(cursor, n))
<1>1. CASE n = 0
  BY <1>1 DEF Trail
<1>2. CASE n # 0
  BY <1>2, BehindMoves DEF Trail
<1> QED
  BY <1>1, <1>2

LEMMA AllDistinct ==
    ASSUME NEW S, NEW seq \in Seq(S), \A i, j \in 1..Len(seq) : seq[i] = seq[j] => i = j
    PROVE  Distinct(seq)
<1>1. DOMAIN seq = 1..Len(seq) /\ Len(seq) \in Nat
  OBVIOUS
<1>2. seq \in Bijection(1..Len(seq), Range(seq))
  <2>1. seq \in [1..Len(seq) -> Range(seq)]
    BY <1>1 DEF Range
  <2>2. \A x \in Range(seq) : \E i \in 1..Len(seq) : seq[i] = x
    BY <1>1 DEF Range
  <2> QED
    BY <2>1, <2>2 DEF Bijection, Injection, Surjection, IsInjective
<1>3. ExistsBijection(1..Len(seq), Range(seq))
  BY <1>2 DEF ExistsBijection
<1>4. Cardinality(Range(seq)) = Len(seq)
  BY <1>1, <1>3, FS_CountingElements
<1> QED
  BY <1>4 DEF Distinct

(* A trail no longer than a ring of different members never repeats one.   *)
LEMMA TrailDistinct ==
    ASSUME NEW n \in Nat, NEW cursor \in 0..n, NEW W, NEW S, NEW seq \in Seq(S),
           Trail(seq, n, W, cursor), Len(seq) <= n,
           \A x, y \in 1..n : x # y => W[x] \cap W[y] = {}
    PROVE  Distinct(seq)
<1>1. ASSUME NEW i \in 1..Len(seq), NEW j \in 1..Len(seq), seq[i] = seq[j] PROVE i = j
  <2> DEFINE d == Len(seq) - i
             e == Len(seq) - j
  <2>1. /\ n \in Nat \ {0} /\ d \in 0..(n - 1) /\ e \in 0..(n - 1)
        /\ d < Len(seq) /\ e < Len(seq) /\ Len(seq) - d = i /\ Len(seq) - e = j
    OBVIOUS
  <2> HIDE DEF d, e
  <2>2. seq[i] \in W[Behind(cursor, d, n)] /\ seq[j] \in W[Behind(cursor, e, n)]
    BY <2>1 DEF Trail
  <2>3. Behind(cursor, d, n) \in 1..n /\ Behind(cursor, e, n) \in 1..n
    BY <2>1, BehindMoves
  <2>4. Behind(cursor, d, n) = Behind(cursor, e, n)
    BY <1>1, <2>2, <2>3
  <2>5. d = e
    BY <2>1, <2>4, BehindMoves
  <2> QED
    BY <2>1, <2>5
<1> QED
  BY <1>1, AllDistinct

----------------------------------------------------------------------------
(* The ring a view takes turns around: its auths, or its parents.          *)

Ring(view) ==
    IF view.parentOrder = <<>>
    THEN [x \in 1..Len(view.flat) |-> {view.flat[x]}]
    ELSE [x \in 1..Len(view.parentOrder) |-> Range(view.items[view.parentOrder[x]])]

RingSize(view) ==
    IF view.parentOrder = <<>> THEN Len(view.flat) ELSE Len(view.parentOrder)

RingCursor(view) ==
    IF view.parentOrder = <<>> THEN view.cursor ELSE view.parentCursor

SameTurns(view, old) ==
    /\ view.flat = old.flat
    /\ view.parentOrder = old.parentOrder
    /\ view.items = old.items

(* A member that is allowed where the cursor stands is taken.              *)
LEMMA NextFromHere ==
    ASSUME NEW T, NEW items \in Seq(T), NEW cursor \in 0..Len(items), NEW allowed,
           Len(items) # 0, items[(cursor % Len(items)) + 1] \in allowed
    PROVE  NextFrom(items, cursor, allowed) = cursor % Len(items)
<1> DEFINE size == Len(items)
           At(o) == (cursor + o) % size
           hits == {o \in 0..(size - 1) : items[At(o) + 1] \in allowed}
           first == CHOOSE o \in hits : \A h \in hits : o <= h
<1>1. size \in Nat \ {0} /\ cursor \in 0..size
  OBVIOUS
<1>2. NextFrom(items, cursor, allowed) = IF hits = {} THEN None ELSE At(first)
  BY DEF NextFrom
<1>3. At(0) = cursor % size
  BY <1>1
<1>4. 0 \in hits
  BY <1>1, <1>3
<1>5. \A h \in hits : 0 <= h
  OBVIOUS
<1>6. first = 0
  <2>1. \A o \in hits : o \in Nat
    BY <1>1
  <2> HIDE DEF hits
  <2> QED
    BY <1>4, <1>5, <2>1
<1> HIDE DEF hits, first, At
<1> QED
  BY <1>2, <1>3, <1>4, <1>6

LEMMA NextFromAll ==
    ASSUME NEW T, NEW items \in Seq(T), NEW cursor \in 0..Len(items), NEW allowed,
           Len(items) # 0, Range(items) \subseteq allowed
    PROVE  NextFrom(items, cursor, allowed) = cursor % Len(items)
<1>1. (cursor % Len(items)) + 1 \in 1..Len(items)
  <2>1. Len(items) \in Nat \ {0} /\ cursor \in 0..Len(items)
    OBVIOUS
  <2> QED
    BY <2>1
<1>2. items[(cursor % Len(items)) + 1] \in Range(items)
  BY <1>1 DEF Range
<1> QED
  BY <1>2, NextFromHere

(* A good view is grouped if it has an order of parents.                   *)
LEMMA ViewGrouped ==
    ASSUME NEW entries \in EntryMaps, NEW S \in SUBSET Present(entries),
           NEW view, GoodView(view, entries, S)
    PROVE  /\ S \in SUBSET Auths /\ IsFiniteSet(S)
           /\ view.flat \in Seq(Auths) /\ Range(view.flat) = S
           /\ Len(view.flat) = Cardinality(S)
           /\ \A i, j \in 1..Len(view.flat) : view.flat[i] = view.flat[j] => i = j
           /\ IsGrouped(entries, S) =>
                 /\ Len(view.parentOrder) > 1 /\ view.parentOrder # <<>>
                 /\ \A i, j \in 1..Len(view.parentOrder) :
                       view.parentOrder[i] = view.parentOrder[j] => i = j
                 /\ Groups(entries, S) \in SUBSET Parents
           /\ ~ IsGrouped(entries, S) => view.parentOrder = <<>>
<1>1. S \in SUBSET Auths /\ view.flat = IDs(S) /\ view.parentOrder = GroupOrder(entries, S)
  BY GroupsTyped DEF GoodView, Shows
<1>2. S \in SUBSET Nat /\ IsFiniteSet(S) /\ IDs(S) \in Seq(Auths)
  BY <1>1, SomeIDs, SchedulerConstants
<1>3. ASSUME NEW T \in SUBSET Nat, IsFiniteSet(T)
      PROVE  \A i, j \in 1..Len(IDs(T)) : IDs(T)[i] = IDs(T)[j] => i = j
  <2> SUFFICES ASSUME NEW i \in 1..Len(IDs(T)), NEW j \in 1..Len(IDs(T)), IDs(T)[i] = IDs(T)[j]
               PROVE  i = j
    OBVIOUS
  <2>1. IDs(T) \in Seq(T) /\ \A x, y \in 1..Len(IDs(T)) : x < y => IDs(T)[x] < IDs(T)[y]
    BY <1>3, IDsInOrder
  <2>2. Len(IDs(T)) \in Nat /\ IDs(T)[i] \in T
    BY <2>1
  <2>3. ~ (i < j) /\ ~ (j < i)
    <3>1. IDs(T)[i] \in Nat
      BY <2>2
    <3> QED
      BY <2>1, <3>1
  <2> QED
    BY <2>2, <2>3
<1>4. CASE IsGrouped(entries, S)
  <2>1. Groups(entries, S) \in SUBSET Parents
    BY <1>4, GroupsTyped
  <2>2. IsFiniteSet(Groups(entries, S)) /\ Groups(entries, S) \in SUBSET Nat
    BY <2>1, SchedulerConstants, FS_Subset
  <2>3. view.parentOrder = IDs(Groups(entries, S))
    BY <1>1, <1>4 DEF GroupOrder
  <2>4. /\ IDs(Groups(entries, S)) \in Seq(Groups(entries, S))
        /\ Len(IDs(Groups(entries, S))) = Cardinality(Groups(entries, S))
    BY <2>2, IDsInOrder
  <2>5. Len(view.parentOrder) > 1
    BY <1>4, <2>3, <2>4 DEF IsGrouped
  <2>6. view.parentOrder # <<>>
    <3>1. Len(<<>>) = 0
      OBVIOUS
    <3> QED
      BY <2>5, <3>1
  <2> QED
    BY <1>1, <1>2, <1>3, <1>4, <2>1, <2>2, <2>3, <2>5, <2>6, IDsInOrder
<1>5. CASE ~ IsGrouped(entries, S)
  <2>1. view.parentOrder = <<>>
    BY <1>1, <1>5 DEF GroupOrder
  <2> QED
    BY <1>1, <1>2, <1>3, <1>5, <2>1, IDsInOrder
<1> QED
  BY <1>4, <1>5

(* A round-robin pick that may take any auth takes the next one.           *)
LEMMA NextPicked ==
    ASSUME NEW entries \in EntryMaps, NEW S \in SUBSET Present(entries), S # {},
           NEW view, GoodView(view, entries, S)
    PROVE  LET picked == pickRoundRobin(view, Auths)
           IN  /\ RingSize(view) \in Nat \ {0}
               /\ RingCursor(view) \in 0..RingSize(view)
               /\ SameTurns(picked.view, view)
               /\ RingCursor(picked.view) = (RingCursor(view) % RingSize(view)) + 1
               /\ picked.auth \in Ring(view)[RingCursor(picked.view)]
               /\ picked.auth \in S
               /\ Len(view.flat) \in Nat \ {0}
<1> DEFINE picked == pickRoundRobin(view, Auths)
<1>1. /\ S \in SUBSET Auths /\ view.flat \in Seq(Auths) /\ Range(view.flat) = S
      /\ view \in Views /\ CursorsWithin(view) /\ Len(view.flat) # 0
  <2>1. S \in SUBSET Auths /\ view.flat \in Seq(Auths) /\ Range(view.flat) = S
    BY ViewGrouped
  <2>2. Len(view.flat) # 0
    <3> SUFFICES ASSUME Len(view.flat) = 0 PROVE FALSE
      OBVIOUS
    <3>1. DOMAIN view.flat = {}
      BY <2>1
    <3> QED
      BY <2>1, <3>1 DEF Range
  <2> QED
    BY <2>1, <2>2 DEF GoodView
<1>2. picked.auth \in S
  <2>1. S \cap Auths # {}
    BY <1>1
  <2>2. PicksFrom(picked, entries, S, Auths)
    BY RoundRobinPicked
  <2> QED
    BY <2>1, <2>2 DEF PicksFrom
<1>3. CASE ~ IsGrouped(entries, S)
  <2> DEFINE i == view.cursor % Len(view.flat)
  <2>1. view.parentOrder = <<>> /\ Len(view.parentOrder) = 0
    BY <1>3, ViewGrouped
  <2>2. view.cursor \in 0..Len(view.flat)
    BY <1>1 DEF CursorsWithin
  <2>3. NextFrom(view.flat, view.cursor, Auths) = i
    BY <1>1, <2>2, NextFromAll
  <2>4. i + 1 \in 1..Len(view.flat) /\ i # None /\ i + 1 \in Nat
    <3>1. i \in 0..(Len(view.flat) - 1)
      BY <1>1, <2>2
    <3> HIDE DEF i
    <3> QED
      BY <1>1, <3>1, SchedulerConstants
  <2> HIDE DEF i
  <2>5. picked = [auth |-> view.flat[i + 1], view |-> [view EXCEPT !.cursor = i + 1]]
    BY <2>1, <2>3, <2>4 DEF pickRoundRobin, pickFlatRoundRobin
  <2> HIDE DEF picked
  <2>6. /\ picked.view.flat = view.flat /\ picked.view.parentOrder = view.parentOrder
        /\ picked.view.items = view.items /\ picked.view.cursor = i + 1
        /\ picked.auth = view.flat[i + 1]
    <3>1. view \in Views
      BY <1>1
    <3> QED
      BY <2>5, <3>1 DEF Views
  <2>7. Len(view.flat) \in Nat \ {0}
    BY <1>1
  <2> HIDE DEF picked
  <2> QED
    BY <1>2, <2>1, <2>2, <2>4, <2>6, <2>7 DEF Ring, RingSize, RingCursor, SameTurns, picked, i
<1>4. CASE IsGrouped(entries, S)
  <2> DEFINE order == view.parentOrder
             i == view.parentCursor % Len(order)
             willing == {g \in Parents : Range(view.items[g]) \cap Auths # {}}
             g == order[i + 1]
             j == NextFrom(view.items[g], view.turn[g], Auths)
  <2>1. /\ order # <<>> /\ Len(order) > 1 /\ order \in Seq(Parents)
        /\ Range(order) = Groups(entries, S) /\ Groups(entries, S) \in SUBSET Parents
        /\ view.parentCursor \in 0..Len(order)
    <3>1. order = GroupOrder(entries, S)
      BY DEF GoodView, Shows
    <3>2. /\ order \in Seq(Parents) /\ Range(order) = Groups(entries, S)
          /\ Groups(entries, S) \in SUBSET Parents
      BY <1>4, <3>1, GroupsTyped
    <3>3. order # <<>> /\ Len(order) > 1
      BY <1>4, ViewGrouped
    <3> QED
      BY <1>1, <3>2, <3>3 DEF CursorsWithin
  <2>2. ASSUME NEW h \in Parents
        PROVE  /\ view.items[h] \in Seq(Auths)
               /\ Range(view.items[h]) = InGroup(entries, S, h)
               /\ view.turn[h] \in 0..Len(view.items[h])
    <3>1. view.items[h] = IDs(InGroup(entries, S, h))
      BY <1>4 DEF GoodView, Shows, GroupItems
    <3>2. InGroup(entries, S, h) \in SUBSET Auths
      BY <1>1 DEF InGroup
    <3> QED
      BY <1>1, <3>1, <3>2, SomeIDs DEF CursorsWithin
  <2>3. Range(order) \subseteq willing
    <3> SUFFICES ASSUME NEW a \in S
                 PROVE  Range(view.items[Group(entries, a)]) \cap Auths # {}
      BY <2>1 DEF Groups
    <3>1. Group(entries, a) \in Parents
      BY <2>1 DEF Groups
    <3>2. a \in Range(view.items[Group(entries, a)])
      BY <2>2, <3>1 DEF InGroup
    <3> QED
      BY <1>1, <3>2
  <2> HIDE DEF willing
  <2>4. NextFrom(order, view.parentCursor, willing) = i
    BY <2>1, <2>3, NextFromAll
  <2>5. i + 1 \in 1..Len(order) /\ i # None /\ i + 1 \in Nat
    <3>1. Len(order) \in Nat \ {0}
      BY <2>1
    <3>2. i \in 0..(Len(order) - 1)
      BY <2>1, <3>1
    <3> HIDE DEF i
    <3> QED
      BY <3>1, <3>2, SchedulerConstants
  <2> HIDE DEF i
  <2>6. picked = [auth |-> view.items[g][j + 1],
                  view |-> [view EXCEPT !.turn[g] = j + 1, !.parentCursor = i + 1]]
    BY <2>1, <2>4, <2>5 DEF pickRoundRobin, pickGroupedRoundRobin, willing
  <2> HIDE DEF picked, g, j
  <2>7. /\ picked.view.flat = view.flat /\ picked.view.parentOrder = view.parentOrder
        /\ picked.view.items = view.items /\ picked.view.parentCursor = i + 1
        /\ picked.auth = view.items[g][j + 1]
    <3>1. view \in Views
      BY <1>1
    <3> QED
      BY <2>6, <3>1 DEF Views
  <2>8. g \in Parents /\ Range(view.items[g]) \cap Auths # {}
    <3>1. g \in Range(order)
      BY <2>1, <2>5 DEF Range, g
    <3> QED
      BY <2>1, <2>3, <3>1 DEF willing
  <2>9. j + 1 \in 1..Len(view.items[g])
    <3>1. j \in 0..(Len(view.items[g]) - 1)
      BY <2>2, <2>8, NextFromFinds DEF j
    <3> QED
      BY <2>2, <2>8, <3>1
  <2>10. picked.auth \in Range(view.items[g])
    BY <2>2, <2>7, <2>8, <2>9 DEF Range
  <2>11. Len(order) \in Nat \ {0} /\ Len(view.flat) \in Nat \ {0}
    BY <1>1, <2>1
  <2> HIDE DEF picked
  <2> QED
    BY <1>2, <2>1, <2>5, <2>7, <2>10, <2>11
       DEF Ring, RingSize, RingCursor, SameTurns, picked, i, g
<1> QED
  BY <1>3, <1>4

----------------------------------------------------------------------------
(* The rotation of one shard.                                              *)

(* A cursor stays, or is brought back into a rotation of that size.        *)
CursorFollows(cursor, old, size) ==
    cursor = old \/ cursor = normalizeCursor(old, size)

ViewFollows(view, old) ==
    /\ CursorFollows(view.cursor, old.cursor, Len(view.flat))
    /\ CursorFollows(view.parentCursor, old.parentCursor, Len(view.parentOrder))

ShardFollows(shard, old) ==
    \A n \in Priorities : /\ ViewFollows(shard.ready[n].all, old.ready[n].all)
                          /\ ViewFollows(shard.ready[n].ws, old.ready[n].ws)

Arranged(shard, old) ==
    \A n \in Priorities : /\ SameTurns(shard.ready[n].all, old.ready[n].all)
                          /\ SameTurns(shard.ready[n].ws, old.ready[n].ws)

LEMMA ArrangementKept ==
    ASSUME NEW shard, NEW old
    PROVE  Arrangement(shard.ready) = Arrangement(old.ready) <=> Arranged(shard, old)
<1> DEFINE Of(ready, n, class) ==
              <<ready[n][class].flat, ready[n][class].parentOrder, ready[n][class].items>>
<1>1. ASSUME Arrangement(shard.ready) = Arrangement(old.ready), NEW n \in Priorities,
             NEW class \in {"all", "ws"}
      PROVE  SameTurns(shard.ready[n][class], old.ready[n][class])
  <2>1. \A x \in {shard, old} : Arrangement(x.ready)[n][class] = Of(x.ready, n, class)
    BY DEF Arrangement
  <2>2. Of(shard.ready, n, class) = Of(old.ready, n, class)
    BY <1>1, <2>1
  <2> QED
    BY <2>2 DEF SameTurns
<1>2. ASSUME Arrangement(shard.ready) = Arrangement(old.ready) PROVE Arranged(shard, old)
  <2>1. ASSUME NEW n \in Priorities
        PROVE  /\ SameTurns(shard.ready[n].all, old.ready[n].all)
               /\ SameTurns(shard.ready[n].ws, old.ready[n].ws)
    BY <1>1, <1>2
  <2> QED
    BY <2>1 DEF Arranged
<1>3. ASSUME Arranged(shard, old) PROVE Arrangement(shard.ready) = Arrangement(old.ready)
  <2>1. ASSUME NEW n \in Priorities, NEW class \in {"all", "ws"}
        PROVE  Of(shard.ready, n, class) = Of(old.ready, n, class)
    <3>1. CASE class = "all"
      BY <1>3, <3>1 DEF Arranged, SameTurns
    <3>2. CASE class = "ws"
      BY <1>3, <3>2 DEF Arranged, SameTurns
    <3> QED
      BY <3>1, <3>2
  <2> QED
    BY <2>1 DEF Arrangement
<1> QED
  BY <1>2, <1>3

LEMMA LevelKept ==
    ASSUME NEW shard, NEW old, Arranged(shard, old)
    PROVE  \A prefer, allowed : highestReadyPriorityLocked(shard, prefer, allowed)
                                   = highestReadyPriorityLocked(old, prefer, allowed)
<1>1. \A allowed : /\ LevelsWith(shard, "all", allowed) = LevelsWith(old, "all", allowed)
                   /\ LevelsWith(shard, "ws", allowed) = LevelsWith(old, "ws", allowed)
  BY DEF LevelsWith, Arranged, SameTurns
<1> QED
  BY <1>1 DEF highestReadyPriorityLocked

LEMMA ShownOnes ==
    ASSUME NEW entries \in EntryMaps, NEW S \in SUBSET Present(entries),
           NEW view, GoodView(view, entries, S)
    PROVE  S \in SUBSET Auths /\ view.flat \in Seq(Auths) /\ Range(view.flat) = S
BY ViewGrouped

(* Any auth may be taken: there is a first one if there is one at all.     *)
LEMMA FirstOfAny ==
    ASSUME NEW entries \in EntryMaps, NEW S \in SUBSET Present(entries),
           NEW view, GoodView(view, entries, S)
    PROVE  pickFirst(view, Auths) = None <=> view.flat = <<>>
<1>1. S \in SUBSET Auths /\ view.flat \in Seq(Auths) /\ Range(view.flat) = S
  BY ShownOnes
<1>2. \A a \in Auths : a # None
  BY SchedulerConstants
<1>3. /\ S \cap Auths = {} => pickFirst(view, Auths) = None
      /\ S \cap Auths # {} => pickFirst(view, Auths) \in S \cap Auths
  BY FirstPicked
<1>4. CASE view.flat = <<>>
  <2>1. DOMAIN view.flat = {}
    BY <1>4
  <2>2. S = {}
    BY <1>1, <2>1 DEF Range
  <2> QED
    BY <1>3, <1>4, <2>2
<1>5. CASE view.flat # <<>>
  <2>1. 1 \in DOMAIN view.flat
    BY <1>1, <1>5
  <2>2. S # {}
    BY <1>1, <2>1 DEF Range
  <2> QED
    BY <1>1, <1>2, <1>3, <1>5, <2>2
<1> QED
  BY <1>4, <1>5

(* The view that a pick at a level takes from, if all are allowed.         *)
ReadyViewOf(shard, prefer, n) ==
    IF prefer /\ shard.ready[n].ws.flat # <<>>
    THEN shard.ready[n].ws ELSE shard.ready[n].all

LEMMA ViewFound ==
    ASSUME NEW shard, GoodIndexes(shard), NEW n \in Priorities, NEW prefer
    PROVE  LET view == ReadyViewOf(shard, prefer, n)
               S    == Range(view.flat)
           IN  /\ shard.entries \in EntryMaps
               /\ S \in SUBSET ReadyAt(shard.entries, n) /\ S \in SUBSET Present(shard.entries)
               /\ GoodView(view, shard.entries, S)
<1> DEFINE entries == shard.entries
           all == shard.ready[n].all
           ws == shard.ready[n].ws
<1>1. /\ entries \in EntryMaps
      /\ GoodView(all, entries, ReadyAt(entries, n))
      /\ GoodView(ws, entries, WebsocketAt(entries, n))
  BY DEF GoodIndexes, ModelShards, EntryMaps
<1>2. Range(all.flat) = ReadyAt(entries, n) /\ Range(ws.flat) = WebsocketAt(entries, n)
  <2>1. /\ ReadyAt(entries, n) \in SUBSET Present(entries)
        /\ WebsocketAt(entries, n) \in SUBSET Present(entries)
    BY ReadyPresent
  <2> HIDE DEF all, ws, entries
  <2>2. Range(all.flat) = ReadyAt(entries, n)
    BY <1>1, <2>1, ShownOnes
  <2>3. Range(ws.flat) = WebsocketAt(entries, n)
    BY <1>1, <2>1, ShownOnes
  <2> QED
    BY <2>2, <2>3
<1> HIDE DEF all, ws, entries
<1>3. \A view \in {all, ws} : /\ Range(view.flat) \in SUBSET ReadyAt(entries, n)
                              /\ Range(view.flat) \in SUBSET Present(entries)
                              /\ GoodView(view, entries, Range(view.flat))
  BY <1>1, <1>2, ReadyPresent
<1>4. ReadyViewOf(shard, prefer, n) \in {all, ws}
  BY DEF ReadyViewOf, all, ws
<1> QED
  BY <1>1, <1>3, <1>4 DEF entries

(* The level of a pick that may take any auth has one.                     *)
LEMMA ViewServes ==
    ASSUME NEW shard, GoodIndexes(shard), NEW prefer \in BOOLEAN,
           highestReadyPriorityLocked(shard, prefer, Auths) # None
    PROVE  LET n == highestReadyPriorityLocked(shard, prefer, Auths)
           IN  n \in Priorities /\ Range(ReadyViewOf(shard, prefer, n).flat) # {}
<1> DEFINE n == highestReadyPriorityLocked(shard, prefer, Auths)
           entries == shard.entries
<1>1. n \in Priorities /\ LevelPool(entries, prefer, n, Auths) \cap Auths # {}
  BY HighestReady
<1> HIDE DEF n
<1>2. /\ GoodView(shard.ready[n].all, entries, ReadyAt(entries, n))
      /\ GoodView(shard.ready[n].ws, entries, WebsocketAt(entries, n))
      /\ entries \in EntryMaps
  BY <1>1 DEF GoodIndexes, ModelShards, EntryMaps
<1> HIDE DEF entries
<1>3. /\ Range(shard.ready[n].all.flat) = ReadyAt(entries, n)
      /\ Range(shard.ready[n].ws.flat) = WebsocketAt(entries, n)
      /\ shard.ready[n].ws.flat \in Seq(Auths)
      /\ WebsocketAt(entries, n) \in SUBSET Auths
  <2>1. /\ ReadyAt(entries, n) \in SUBSET Present(entries)
        /\ WebsocketAt(entries, n) \in SUBSET Present(entries)
    BY ReadyPresent
  <2>2. Range(shard.ready[n].all.flat) = ReadyAt(entries, n)
    BY <1>2, <2>1, ShownOnes
  <2>3. /\ Range(shard.ready[n].ws.flat) = WebsocketAt(entries, n)
        /\ shard.ready[n].ws.flat \in Seq(Auths)
        /\ WebsocketAt(entries, n) \in SUBSET Auths
    BY <1>2, <2>1, ShownOnes
  <2> QED
    BY <2>2, <2>3
<1>4. CASE prefer /\ shard.ready[n].ws.flat # <<>>
  <2>1. Range(shard.ready[n].ws.flat) # {}
    <3>1. 1 \in DOMAIN shard.ready[n].ws.flat
      BY <1>3, <1>4
    <3> QED
      BY <3>1 DEF Range
  <2> QED
    BY <1>1, <1>4, <2>1 DEF ReadyViewOf, n
<1>5. CASE ~ (prefer /\ shard.ready[n].ws.flat # <<>>)
  <2>1. prefer => WebsocketAt(entries, n) = {}
    <3>1. prefer => DOMAIN shard.ready[n].ws.flat = {}
      BY <1>5
    <3> QED
      BY <1>3, <3>1 DEF Range
  <2>2. LevelPool(entries, prefer, n, Auths) = ReadyAt(entries, n)
    BY <2>1 DEF LevelPool
  <2> QED
    BY <1>1, <1>3, <1>5, <2>2 DEF ReadyViewOf, n
<1> QED
  BY <1>4, <1>5

(* A round-robin pick at a level moves the cursor of that view alone.      *)
LEMMA ViewPicked ==
    ASSUME NEW shard, GoodIndexes(shard), NEW n \in Priorities, NEW prefer \in BOOLEAN,
           Range(ReadyViewOf(shard, prefer, n).flat) # {}
    PROVE  LET picked == pickReadyAtPriorityLocked(shard, prefer, n, "round-robin", Auths)
               turn   == pickRoundRobin(ReadyViewOf(shard, prefer, n), Auths)
           IN  /\ picked.auth = turn.auth
               /\ ReadyViewOf(picked.shard, prefer, n) = turn.view
               /\ \A k \in Priorities \ {n} : picked.shard.ready[k] = shard.ready[k]
               /\ Arranged(picked.shard, shard)
               /\ GoodIndexes(picked.shard)
               /\ picked.shard.entries = shard.entries
<1> DEFINE entries == shard.entries
           class == IF prefer /\ pickFirst(shard.ready[n].ws, Auths) # None
                    THEN "ws" ELSE "all"
           view == ReadyViewOf(shard, prefer, n)
           turn == pickRoundRobin(view, Auths)
           picked == pickReadyAtPriorityLocked(shard, prefer, n, "round-robin", Auths)
<1>1. /\ entries \in EntryMaps /\ Range(view.flat) \in SUBSET Present(entries)
      /\ GoodView(view, entries, Range(view.flat))
  BY ViewFound
<1>2. SameTurns(turn.view, view)
  BY <1>1, NextPicked
<1>3. class = IF prefer /\ shard.ready[n].ws.flat # <<>> THEN "ws" ELSE "all"
  <2>1. GoodView(shard.ready[n].ws, entries, WebsocketAt(entries, n))
    BY DEF GoodIndexes
  <2>2. WebsocketAt(entries, n) \in SUBSET Present(entries)
    BY ReadyPresent
  <2>3. pickFirst(shard.ready[n].ws, Auths) = None <=> shard.ready[n].ws.flat = <<>>
    BY <1>1, <2>1, <2>2, FirstOfAny
  <2> QED
    BY <2>3
<1>4. view = shard.ready[n][class] /\ class \in {"all", "ws"}
  BY <1>3 DEF ReadyViewOf
<1>5. picked = [auth |-> turn.auth, shard |-> [shard EXCEPT !.ready[n][class] = turn.view]]
  BY <1>4 DEF pickReadyAtPriorityLocked
<1>6. GoodIndexes(picked.shard) /\ picked.shard.entries = shard.entries
  BY PickedAtPriority
<1>7. shard \in ModelShards
  BY DEF GoodIndexes
<1> HIDE DEF turn, picked, class, view
<1>8. /\ \A k \in Priorities \ {n} : picked.shard.ready[k] = shard.ready[k]
      /\ picked.shard.ready[n] = [shard.ready[n] EXCEPT ![class] = turn.view]
      /\ shard.ready[n] \in [all : Views, ws : Views]
  BY <1>5, <1>7 DEF ModelShards
<1>9. CASE class = "all"
  <2>1. picked.shard.ready[n].all = turn.view /\ picked.shard.ready[n].ws = shard.ready[n].ws
    BY <1>8, <1>9
  <2>2. ReadyViewOf(picked.shard, prefer, n) = turn.view
    BY <1>3, <1>9, <2>1 DEF ReadyViewOf
  <2>3. view = shard.ready[n].all
    BY <1>4, <1>9
  <2>4. Arranged(picked.shard, shard)
    BY <1>2, <1>8, <2>1, <2>3 DEF Arranged, SameTurns
  <2> QED
    BY <1>5, <1>6, <1>8, <2>2, <2>4 DEF turn, view, picked
<1>10. CASE class = "ws"
  <2>1. picked.shard.ready[n].ws = turn.view /\ picked.shard.ready[n].all = shard.ready[n].all
    BY <1>8, <1>10
  <2>2. view = shard.ready[n].ws
    BY <1>4, <1>10
  <2>3. ReadyViewOf(picked.shard, prefer, n) = turn.view
    BY <1>2, <1>3, <1>10, <2>1, <2>2 DEF ReadyViewOf, SameTurns
  <2>4. Arranged(picked.shard, shard)
    BY <1>2, <1>8, <2>1, <2>2 DEF Arranged, SameTurns
  <2> QED
    BY <1>5, <1>6, <1>8, <2>3, <2>4 DEF turn, view, picked
<1> QED
  BY <1>4, <1>9, <1>10

(* The auths were served in turn by the best level of the shard.           *)
SingleTrail(shard, prefer, auths) ==
    LET n    == highestReadyPriorityLocked(shard, prefer, Auths)
        view == ReadyViewOf(shard, prefer, n)
    IN  /\ n \in Priorities
        /\ auths \in Seq(Range(view.flat))
        /\ Len(auths) <= Len(view.flat)
        /\ Trail(auths, RingSize(view), Ring(view), RingCursor(view))

LEMMA RingKept ==
    ASSUME NEW view, NEW old, SameTurns(view, old)
    PROVE  RingSize(view) = RingSize(old) /\ Ring(view) = Ring(old)
BY DEF SameTurns, RingSize, Ring

LEMMA RingTyped ==
    ASSUME NEW shard, GoodIndexes(shard), NEW n \in Priorities, NEW prefer
    PROVE  LET view == ReadyViewOf(shard, prefer, n)
           IN  RingSize(view) \in Nat /\ RingCursor(view) \in 0..RingSize(view)
<1> DEFINE view == ReadyViewOf(shard, prefer, n)
<1>1. view \in Views /\ CursorsWithin(view)
  BY ViewFound DEF GoodView
<1> HIDE DEF view
<1> QED
  BY <1>1 DEF Views, CursorsWithin, RingSize, RingCursor, view

LEMMA SingleKept ==
    ASSUME NEW old, GoodIndexes(old), NEW shard, Arranged(shard, old), ShardFollows(shard, old),
           NEW prefer, NEW auths, SingleTrail(old, prefer, auths)
    PROVE  SingleTrail(shard, prefer, auths)
<1> DEFINE n == highestReadyPriorityLocked(old, prefer, Auths)
           was == ReadyViewOf(old, prefer, n)
           view == ReadyViewOf(shard, prefer, n)
<1>1. /\ n \in Priorities /\ auths \in Seq(Range(was.flat)) /\ Len(auths) <= Len(was.flat)
      /\ Trail(auths, RingSize(was), Ring(was), RingCursor(was))
  BY DEF SingleTrail
<1>2. n = highestReadyPriorityLocked(shard, prefer, Auths)
  BY LevelKept
<1> HIDE DEF n
<1>3. SameTurns(view, was) /\ ViewFollows(view, was)
  BY <1>1 DEF Arranged, ShardFollows, ReadyViewOf, SameTurns
<1>4. RingSize(was) \in Nat /\ RingCursor(was) \in 0..RingSize(was)
  BY <1>1, RingTyped
<1> HIDE DEF was, view
<1>5. RingSize(view) = RingSize(was) /\ Ring(view) = Ring(was)
  BY <1>3, RingKept
<1>6. CursorFollows(RingCursor(view), RingCursor(was), RingSize(was))
  BY <1>3 DEF SameTurns, ViewFollows, RingCursor, RingSize
<1>7. Trail(auths, RingSize(view), Ring(view), RingCursor(view))
  <2>1. CASE RingCursor(view) = RingCursor(was)
    BY <1>1, <1>5, <2>1
  <2>2. CASE RingCursor(view) = normalizeCursor(RingCursor(was), RingSize(was))
    BY <1>1, <1>4, <1>5, <2>2, TrailNormalized
  <2> QED
    BY <1>6, <2>1, <2>2 DEF CursorFollows
<1>8. view.flat = was.flat
  BY <1>3 DEF SameTurns
<1> QED
  BY <1>1, <1>2, <1>7, <1>8 DEF SingleTrail, view

(* A pick that may take any auth starts a trail, or makes it longer.       *)
LEMMA SingleMoves ==
    ASSUME NEW shard, GoodIndexes(shard), NEW prefer \in BOOLEAN,
           highestReadyPriorityLocked(shard, prefer, Auths) # None
    PROVE  LET n == highestReadyPriorityLocked(shard, prefer, Auths)
               size == Len(ReadyViewOf(shard, prefer, n).flat)
               picked == pickReadyAtPriorityLocked(shard, prefer, n, "round-robin", Auths)
           IN  /\ GoodIndexes(picked.shard) /\ Arranged(picked.shard, shard)
               /\ picked.shard.entries = shard.entries
               /\ n \in Priorities /\ size \in Nat \ {0}
               /\ picked.auth \in Range(ReadyViewOf(shard, prefer, n).flat)
               /\ picked.auth \in Auths
               /\ SingleTrail(picked.shard, prefer, <<picked.auth>>)
               /\ \A auths : SingleTrail(shard, prefer, auths) =>
                     SingleTrail(picked.shard, prefer, LastOf(Append(auths, picked.auth), size))
<1> DEFINE n == highestReadyPriorityLocked(shard, prefer, Auths)
           was == ReadyViewOf(shard, prefer, n)
           picked == pickReadyAtPriorityLocked(shard, prefer, n, "round-robin", Auths)
           view == ReadyViewOf(picked.shard, prefer, n)
           turn == pickRoundRobin(was, Auths)
           S == Range(was.flat)
<1>1. n \in Priorities /\ S # {}
  BY ViewServes
<1>2. /\ picked.auth = turn.auth /\ view = turn.view
      /\ Arranged(picked.shard, shard) /\ GoodIndexes(picked.shard)
      /\ picked.shard.entries = shard.entries
  <2> HIDE DEF n
  <2> QED
    BY <1>1, ViewPicked
<1>3. /\ shard.entries \in EntryMaps /\ S \in SUBSET Present(shard.entries)
      /\ GoodView(was, shard.entries, S)
  <2> HIDE DEF n
  <2> QED
    BY <1>1, ViewFound
<1>4. highestReadyPriorityLocked(picked.shard, prefer, Auths) = n
  <2> HIDE DEF n, picked
  <2> QED
    BY <1>2, LevelKept DEF n
<1> HIDE DEF n, picked, was
<1>5. /\ RingSize(was) \in Nat \ {0} /\ RingCursor(was) \in 0..RingSize(was)
      /\ SameTurns(turn.view, was)
      /\ RingCursor(turn.view) = (RingCursor(was) % RingSize(was)) + 1
      /\ turn.auth \in Ring(was)[RingCursor(turn.view)]
      /\ turn.auth \in S /\ Len(was.flat) \in Nat \ {0}
  BY <1>1, <1>3, NextPicked
<1> DEFINE a == picked.auth
           moved == (RingCursor(was) % RingSize(was)) + 1
<1>6. /\ RingSize(view) = RingSize(was) /\ Ring(view) = Ring(was) /\ view.flat = was.flat
      /\ RingCursor(view) = moved /\ a \in Ring(was)[moved] /\ a \in S
      /\ moved \in 1..RingSize(was)
  <2>1. SameTurns(view, was) /\ RingCursor(view) = moved /\ a \in Ring(was)[moved] /\ a \in S
    BY <1>2, <1>5
  <2>2. moved \in 1..RingSize(was)
    <3>1. 0 \in 0..(RingSize(was) - 1)
      BY <1>5
    <3> QED
      BY <1>5, <3>1, BehindMoves
  <2> QED
    BY <2>1, <2>2, RingKept DEF SameTurns
<1> HIDE DEF view, turn, a, moved
<1>7. ASSUME NEW auths \in Seq(S), Len(auths) <= Len(was.flat),
             Trail(auths, RingSize(was), Ring(was), moved)
      PROVE  SingleTrail(picked.shard, prefer, auths)
  BY <1>1, <1>4, <1>6, <1>7 DEF SingleTrail, view
<1>8. SingleTrail(picked.shard, prefer, <<a>>)
  <2>1. <<a>> \in Seq(S) /\ Len(<<a>>) = 1 /\ 1 <= Len(was.flat)
    BY <1>5, <1>6
  <2>2. Trail(<<a>>, RingSize(was), Ring(was), moved)
    BY <1>5, <1>6, TrailStarts
  <2> QED
    BY <1>7, <2>1, <2>2
<1>9. ASSUME NEW auths, SingleTrail(shard, prefer, auths)
      PROVE  SingleTrail(picked.shard, prefer, LastOf(Append(auths, a), Len(was.flat)))
  <2>1. auths \in Seq(S) /\ Trail(auths, RingSize(was), Ring(was), RingCursor(was))
    BY <1>9 DEF SingleTrail, n, was
  <2>2. Trail(LastOf(Append(auths, a), Len(was.flat)), RingSize(was), Ring(was), moved)
    BY <1>5, <1>6, <2>1, TrailMoves DEF moved
  <2>3. Append(auths, a) \in Seq(S)
    BY <1>6, <2>1
  <2>4. /\ LastOf(Append(auths, a), Len(was.flat)) \in Seq(S)
        /\ Len(LastOf(Append(auths, a), Len(was.flat)))
              = IF Len(Append(auths, a)) <= Len(was.flat) THEN Len(Append(auths, a))
                ELSE Len(was.flat)
    BY <1>5, <2>3, LastOnes
  <2>5. Len(LastOf(Append(auths, a), Len(was.flat))) <= Len(was.flat)
    BY <1>5, <2>4
  <2> QED
    BY <1>7, <2>2, <2>4, <2>5
<1>10. a \in Auths
  <2>1. S \in SUBSET Auths
    BY <1>3, ShownOnes
  <2> HIDE DEF S
  <2> QED
    BY <1>6, <2>1
<1> QED
  BY <1>1, <1>2, <1>5, <1>6, <1>8, <1>9, <1>10 DEF n, was, picked, a

----------------------------------------------------------------------------
(* No operation on a shard loses a cursor.                                 *)

LEMMA RestoredFollows ==
    ASSUME NEW entries, NEW S, NEW old
    PROVE  ViewFollows(restoreReadyViewCursors(buildReadyView(entries, S), old), old)
<1> DEFINE built == buildReadyView(entries, S)
           view  == restoreReadyViewCursors(built, old)
           order == IF /\ None \notin {entries[a].meta.auth.parent : a \in S}
                       /\ Cardinality({entries[a].meta.auth.parent : a \in S}) > 1
                    THEN IDs({entries[a].meta.auth.parent : a \in S}) ELSE <<>>
<1>1. /\ built = [flat |-> IDs(S), cursor |-> 0, parentOrder |-> order, parentCursor |-> 0,
                  items |-> built.items, turn |-> [g \in Parents |-> 0]]
  <2> DEFINE items == built.items
  <2>1. built = [NoView EXCEPT !.flat = IDs(S), !.parentOrder = order, !.items = items]
    BY DEF buildReadyView, NoView
  <2> HIDE DEF built, order, items
  <2>2. built = [flat |-> IDs(S), cursor |-> 0, parentOrder |-> order, parentCursor |-> 0,
                 items |-> items, turn |-> [g \in Parents |-> 0]]
    BY <2>1 DEF NoView
  <2> QED
    BY <2>2 DEF items
<1>2. view = [built EXCEPT
                !.cursor = normalizeCursor(old.cursor, Len(built.flat)),
                !.parentCursor = normalizeCursor(old.parentCursor, Len(built.parentOrder)),
                !.turn = [g \in Parents |-> normalizeCursor(old.turn[g], Len(built.items[g]))]]
  BY DEF restoreReadyViewCursors
<1> HIDE DEF built, view, order
<1>3. /\ view.cursor = normalizeCursor(old.cursor, Len(view.flat))
      /\ view.parentCursor = normalizeCursor(old.parentCursor, Len(view.parentOrder))
  BY <1>1, <1>2
<1> QED
  BY <1>3 DEF ViewFollows, CursorFollows, view, built

LEMMA RebuiltFollows ==
    ASSUME NEW shard, NEW entries
    PROVE  ShardFollows(rebuildIndexesLocked(shard, entries), shard)
<1> DEFINE All(n) == restoreReadyViewCursors(
                        buildReadyView(entries, ReadyAt(entries, n)), shard.ready[n].all)
           Ws(n)  == restoreReadyViewCursors(
                        buildReadyView(entries, WebsocketAt(entries, n)), shard.ready[n].ws)
           new    == rebuildIndexesLocked(shard, entries)
<1>1. \A n \in Priorities : new.ready[n].all = All(n) /\ new.ready[n].ws = Ws(n)
  BY DEF rebuildIndexesLocked, WebsocketAt
<1>2. \A n : /\ ViewFollows(All(n), shard.ready[n].all)
             /\ ViewFollows(Ws(n), shard.ready[n].ws)
  BY RestoredFollows
<1> HIDE DEF All, Ws, new
<1>3. \A n \in Priorities : /\ ViewFollows(new.ready[n].all, shard.ready[n].all)
                            /\ ViewFollows(new.ready[n].ws, shard.ready[n].ws)
  <2> SUFFICES ASSUME NEW n \in Priorities
               PROVE  /\ ViewFollows(new.ready[n].all, shard.ready[n].all)
                      /\ ViewFollows(new.ready[n].ws, shard.ready[n].ws)
    OBVIOUS
  <2>1. new.ready[n].all = All(n) /\ new.ready[n].ws = Ws(n)
    BY <1>1
  <2> QED
    BY <1>2, <2>1
<1> QED
  BY <1>3 DEF ShardFollows, new

LEMMA SameFollows ==
    ASSUME NEW shard, NEW old, shard.ready = old.ready
    PROVE  ShardFollows(shard, old)
BY DEF ShardFollows, ViewFollows, CursorFollows

LEMMA UpsertFollows ==
    ASSUME NEW shard \in ModelShards, NEW a, NEW meta, NEW m, NEW at
    PROVE  ShardFollows(upsertEntryLocked(shard, a, meta, m, at), shard)
<1> DEFINE entries == [shard.entries EXCEPT ![a] = Evaluate(meta, m, at)]
<1>1. upsertEntryLocked(shard, a, meta, m, at)
         \in {[shard EXCEPT !.entries = entries], rebuildIndexesLocked(shard, entries)}
  BY DEF upsertEntryLocked
<1> HIDE DEF entries
<1>2. [shard EXCEPT !.entries = entries].ready = shard.ready
  BY DEF ModelShards
<1> QED
  BY <1>1, <1>2, SameFollows, RebuiltFollows

LEMMA RemoveFollows ==
    ASSUME NEW shard, NEW a
    PROVE  ShardFollows(removeEntryLocked(shard, a), shard)
BY SameFollows, RebuiltFollows DEF removeEntryLocked

LEMMA PromoteFollows ==
    ASSUME NEW shard, NEW m, NEW at
    PROVE  ShardFollows(promoteExpiredLocked(shard, m, at), shard)
<1> DEFINE due == {a \in shard.blocked : shard.entries[a].nextRetryAt <= at}
           entries == [a \in Auths |-> IF a \in due THEN Evaluate(shard.entries[a].meta, m, at)
                                       ELSE shard.entries[a]]
<1>1. promoteExpiredLocked(shard, m, at) \in {shard, rebuildIndexesLocked(shard, entries)}
  BY DEF promoteExpiredLocked
<1> HIDE DEF entries
<1> QED
  BY <1>1, SameFollows, RebuiltFollows

(* The shards of a provider map follow those of another: none is new, none *)
(* lost its cursors.                                                       *)
Built(map, p, m) == map[p] # NoProvider /\ map[p].shards[m] # NoShard

MapFollows(new, map) ==
    \A p \in Providers, m \in ModelKeys : Built(new, p, m) =>
       Built(map, p, m) /\ ShardFollows(new[p].shards[m], map[p].shards[m])

LEMMA RemovalFollows ==
    ASSUME NEW at, NEW state, GoodProvider(state, at), NEW a \in Auths, NEW m \in ModelKeys,
           providerRemove(state, a).shards[m] # NoShard
    PROVE  /\ state.shards[m] # NoShard
           /\ ShardFollows(providerRemove(state, a).shards[m], state.shards[m])
<1>1. providerRemove(state, a).shards[m]
         = IF state.shards[m] = NoShard THEN NoShard ELSE removeEntryLocked(state.shards[m], a)
  BY DEF providerRemove
<1> QED
  BY <1>1, RemoveFollows

LEMMA UpsertionFollows ==
    ASSUME NEW at, NEW state, GoodProvider(state, at), NEW a \in Auths, NEW m \in ModelKeys,
           NEW meta, providerUpsert(state, a, meta, at).shards[m] # NoShard
    PROVE  /\ state.shards[m] # NoShard
           /\ ShardFollows(providerUpsert(state, a, meta, at).shards[m], state.shards[m])
<1>1. providerUpsert(state, a, meta, at).shards[m]
         = IF state.shards[m] = NoShard THEN NoShard
           ELSE IF supportsModel(meta, m)
           THEN upsertEntryLocked(state.shards[m], a, meta, m, at)
           ELSE removeEntryLocked(state.shards[m], a)
  BY DEF providerUpsert
<1>2. state.shards[m] # NoShard
  BY <1>1
<1>3. state.shards[m] \in ModelShards
  BY <1>2 DEF GoodProvider, ProviderSchedulers, NoShard
<1> QED
  BY <1>1, <1>2, <1>3, UpsertFollows, RemoveFollows

LEMMA LeavingFollows ==
    ASSUME NEW a \in Auths, IInv
    PROVE  MapFollows(WithoutAuth(providers, a), providers)
<1>1. CASE authProviders[a] = None
  BY <1>1, SameFollows DEF WithoutAuth, MapFollows
<1>2. CASE authProviders[a] # None
  <2> DEFINE q == authProviders[a]
             state == providerRemove(providers[q], a)
             new == [providers EXCEPT ![q] = state]
  <2>1. WithoutAuth(providers, a) = new
    BY <1>2 DEF WithoutAuth
  <2>2. q \in Providers /\ providers[q] # NoProvider /\ GoodProvider(providers[q], now)
    BY <1>2 DEF IInv, Homes, Knows, GoodProviders
  <2>3. \A p \in Providers : new[p] = IF p = q THEN state ELSE providers[p]
    BY DEF IInv, GoodProviders
  <2>4. \A m \in ModelKeys : state.shards[m] # NoShard =>
           /\ providers[q].shards[m] # NoShard
           /\ ShardFollows(state.shards[m], providers[q].shards[m])
    BY <2>2, RemovalFollows
  <2> HIDE DEF new, state
  <2> SUFFICES ASSUME NEW p \in Providers, NEW m \in ModelKeys, Built(new, p, m)
               PROVE  /\ Built(providers, p, m)
                      /\ ShardFollows(new[p].shards[m], providers[p].shards[m])
    BY <2>1 DEF MapFollows
  <2>5. CASE p = q
    BY <2>2, <2>3, <2>4, <2>5 DEF Built
  <2>6. CASE p # q
    BY <2>3, <2>6, SameFollows DEF Built
  <2> QED
    BY <2>5, <2>6
<1> QED
  BY <1>1, <1>2

LEMMA UpsertingFollows ==
    ASSUME NEW a \in Auths, NEW auth \in Snapshots[a], IInv, upsertAuthLocked(a, auth)
    PROVE  MapFollows(providers', providers)
<1> DEFINE meta == [auth |-> auth, models |-> registered[a]]
           q == auth.provider
           left == IF authProviders[a] \in {None, q} THEN providers
                   ELSE WithoutAuth(providers, a)
           home == IF left[q] = NoProvider THEN EmptyProvider ELSE left[q]
           state == providerUpsert(home, a, meta, now)
           new == [left EXCEPT ![q] = state]
<1>1. providers' = new
  BY DEF upsertAuthLocked
<1>2. q \in Providers
  BY SchedulerConstants DEF AuthSnapshots
<1>3. MapFollows(left, providers) /\ GoodProviders(left, now)
  <2>1. MapFollows(providers, providers) /\ GoodProviders(providers, now)
    BY SameFollows DEF MapFollows, IInv
  <2>2. MapFollows(WithoutAuth(providers, a), providers) /\ GoodProviders(WithoutAuth(providers, a), now)
    BY LeavingFollows, AuthLeft, NowIsNat DEF IInv
  <2> QED
    BY <2>1, <2>2
<1>4. left[q] = providers[q]
  <2>1. CASE authProviders[a] \in {None, q}
    BY <2>1
  <2>2. CASE authProviders[a] \notin {None, q}
    <3>1. left = [providers EXCEPT ![authProviders[a]] = providerRemove(@, a)]
      BY <2>2 DEF WithoutAuth
    <3> QED
      BY <1>2, <2>2, <3>1 DEF IInv, GoodProviders
  <2> QED
    BY <2>1, <2>2
<1> HIDE DEF left, meta
<1>5. \A p \in Providers : new[p] = IF p = q THEN state ELSE left[p]
  BY <1>3 DEF GoodProviders
<1>6. \A m \in ModelKeys : state.shards[m] # NoShard =>
         /\ left[q] # NoProvider /\ left[q].shards[m] # NoShard
         /\ ShardFollows(state.shards[m], left[q].shards[m])
  <2>1. CASE left[q] = NoProvider
    <3>1. \A m \in ModelKeys : EmptyProvider.shards[m] = NoShard
      BY DEF EmptyProvider
    <3>2. \A m \in ModelKeys : state.shards[m] = NoShard
      BY <2>1, <3>1 DEF providerUpsert
    <3> QED
      BY <3>2
  <2>2. CASE left[q] # NoProvider
    <3>1. GoodProvider(left[q], now)
      BY <1>2, <1>3, <2>2 DEF GoodProviders
    <3> QED
      BY <2>2, <3>1, UpsertionFollows
  <2> QED
    BY <2>1, <2>2
<1> HIDE DEF new, state, home
<1> SUFFICES ASSUME NEW p \in Providers, NEW m \in ModelKeys, Built(new, p, m)
             PROVE  Built(providers, p, m) /\ ShardFollows(new[p].shards[m], providers[p].shards[m])
  BY <1>1 DEF MapFollows
<1>7. CASE p = q
  BY <1>2, <1>4, <1>5, <1>6, <1>7 DEF Built
<1>8. CASE p # q
  BY <1>3, <1>5, <1>8 DEF Built, MapFollows
<1> QED
  BY <1>7, <1>8

(* The steps that serve nobody and keep the rotation.                      *)
LEMMA StepFollows ==
    ASSUME IInv,
           (\E a \in Auths : UpsertAuth(a) \/ RemoveAuth(a)) \/ Environment \/ UNCHANGED vars
    PROVE  MapFollows(providers', providers) /\ mixedCursors' = mixedCursors
<1>1. ASSUME NEW a \in Auths, UpsertAuth(a)
      PROVE  MapFollows(providers', providers) /\ mixedCursors' = mixedCursors
  <2>1. PICK auth \in Snapshots[a] :
           IF auth.disabled THEN removeAuthLocked(a) ELSE upsertAuthLocked(a, auth)
    BY <1>1 DEF UpsertAuth
  <2>2. mixedCursors' = mixedCursors
    BY <1>1 DEF UpsertAuth
  <2>3. CASE removeAuthLocked(a)
    BY <2>2, <2>3, LeavingFollows DEF removeAuthLocked
  <2>4. CASE upsertAuthLocked(a, auth)
    BY <2>2, <2>4, UpsertingFollows
  <2> QED
    BY <2>1, <2>3, <2>4
<1>2. ASSUME NEW a \in Auths, RemoveAuth(a)
      PROVE  MapFollows(providers', providers) /\ mixedCursors' = mixedCursors
  BY <1>2, LeavingFollows DEF RemoveAuth, removeAuthLocked
<1>3. MapFollows(providers, providers)
  BY SameFollows DEF MapFollows
<1>4. CASE Environment
  BY <1>3, <1>4 DEF Environment, Tick, RegisterModels
<1>5. CASE UNCHANGED vars
  BY <1>3, <1>5 DEF vars
<1> QED
  BY <1>1, <1>2, <1>4, <1>5

----------------------------------------------------------------------------
(* The slots of a pick over several providers, and who is served in them.  *)

LEMMA StartsRise ==
    ASSUME NEW shards, GoodShards(shards), NEW n \in Priorities, NEW list \in ProviderLists,
           NEW i \in 1..(Len(list) + 1), NEW j \in i..(Len(list) + 1)
    PROVE  /\ SegmentStart(shards, list, i, n) \in Nat
           /\ SegmentStart(shards, list, i, n) <= SegmentStart(shards, list, j, n)
<1>1. Len(list) \in Nat /\ j \in 1..(Len(list) + 1)
  BY SchedulerConstants
<1>2. /\ SegmentStart(shards, list, i, n) = Cardinality(Before(shards, list, i, n))
      /\ SegmentStart(shards, list, j, n) = Cardinality(Before(shards, list, j, n))
  BY <1>1, SlotsNumbered
<1>3. Before(shards, list, i, n) \in SUBSET Before(shards, list, j, n)
  <2>1. \A k \in 1..(i - 1) : k \in 1..(j - 1)
    BY <1>1
  <2> QED
    BY <2>1 DEF Before
<1>4. IsFiniteSet(Before(shards, list, j, n))
  BY SchedulerConstants, FS_Subset DEF Before
<1>5. /\ IsFiniteSet(Before(shards, list, i, n))
      /\ Cardinality(Before(shards, list, i, n)) <= Cardinality(Before(shards, list, j, n))
  BY <1>3, <1>4, FS_Subset
<1> QED
  BY <1>2, <1>5, FS_CardinalityType

(* The segment that holds a slot is that of one provider of the list.      *)
Holds(shards, list, n, i, slot) ==
    /\ SegmentStart(shards, list, i, n) <= slot
    /\ slot < SegmentStart(shards, list, i + 1, n)

LEMMA SegmentIs ==
    ASSUME NEW shards, GoodShards(shards), NEW n \in Priorities, NEW list \in ProviderLists,
           NEW slot \in Nat, NEW i \in 1..Len(list), Holds(shards, list, n, i, slot)
    PROVE  Segment(shards, list, n, slot) = i
<1> DEFINE j == Segment(shards, list, n, slot)
           Start(k) == SegmentStart(shards, list, k, n)
<1>1. Len(list) \in Nat
  BY SchedulerConstants
<1>2. \A x \in 1..(Len(list) + 1) : \A y \in x..(Len(list) + 1) :
         Start(x) \in Nat /\ Start(x) <= Start(y)
  BY StartsRise
<1>3. Start(i) <= slot /\ slot < Start(i + 1)
  BY DEF Holds
<1> HIDE DEF Start
<1>4. slot < Start(Len(list) + 1)
  <2>1. /\ i + 1 \in 1..(Len(list) + 1) /\ Len(list) + 1 \in (i + 1)..(Len(list) + 1)
        /\ Len(list) + 1 \in 1..(Len(list) + 1) /\ Len(list) + 1 \in (Len(list) + 1)..(Len(list) + 1)
    BY <1>1
  <2>2. Start(i + 1) \in Nat /\ Start(Len(list) + 1) \in Nat /\ Start(i + 1) <= Start(Len(list) + 1)
    BY <1>2, <2>1
  <2> QED
    BY <1>3, <2>2
<1>5. j \in 1..Len(list) /\ Start(j) <= slot /\ slot < Start(j + 1)
  BY <1>4, SegmentFound DEF Start
<1> HIDE DEF j
<1>6. ~ (i < j)
  <2> SUFFICES ASSUME i < j PROVE FALSE
    OBVIOUS
  <2>1. /\ i + 1 \in 1..(Len(list) + 1) /\ j \in (i + 1)..(Len(list) + 1)
        /\ j \in 1..(Len(list) + 1) /\ j \in j..(Len(list) + 1)
    BY <1>1, <1>5
  <2>2. Start(i + 1) \in Nat /\ Start(j) \in Nat /\ Start(i + 1) <= Start(j)
    BY <1>2, <2>1
  <2> QED
    BY <1>3, <1>5, <2>2
<1>7. ~ (j < i)
  <2> SUFFICES ASSUME j < i PROVE FALSE
    OBVIOUS
  <2>1. /\ j + 1 \in 1..(Len(list) + 1) /\ i \in (j + 1)..(Len(list) + 1)
        /\ i \in 1..(Len(list) + 1) /\ i \in i..(Len(list) + 1)
    BY <1>1, <1>5
  <2>2. Start(j + 1) \in Nat /\ Start(i) \in Nat /\ Start(j + 1) <= Start(i)
    BY <1>2, <2>1
  <2> QED
    BY <1>3, <1>5, <2>2
<1> QED
  BY <1>1, <1>5, <1>6, <1>7 DEF j

LEMMA TotalTyped ==
    ASSUME NEW shards, GoodShards(shards), NEW n \in Priorities, NEW list \in ProviderLists
    PROVE  SegmentStart(shards, list, Len(list) + 1, n) \in Nat
<1>1. Len(list) \in Nat /\ Len(list) + 1 \in 1..(Len(list) + 1)
      /\ Len(list) + 1 \in (Len(list) + 1)..(Len(list) + 1)
  BY SchedulerConstants
<1> QED
  BY <1>1, StartsRise

(* The segment of a slot and the view it is served from.                   *)
SegmentOf(shards, list, n, slot) ==
    LET i     == Segment(shards, list, n, slot)
        start == SegmentStart(shards, list, i, n)
        view  == shards[list[i]].ready[n].all
        size  == Len(view.flat)
    IN  /\ i \in 1..Len(list) /\ list[i] \in DOMAIN shards
        /\ Holds(shards, list, n, i, slot)
        /\ start \in Nat /\ size \in Nat \ {0}
        /\ start <= slot /\ slot < start + size
        /\ SegmentStart(shards, list, i + 1, n) = start + size
        /\ start + size <= SegmentStart(shards, list, Len(list) + 1, n)
        /\ GoodView(view, shards[list[i]].entries, ReadyAt(shards[list[i]].entries, n))
        /\ view.cursor \in 0..size

LEMMA SlotFound ==
    ASSUME NEW shards, GoodShards(shards), NEW n \in Priorities, NEW list \in ProviderLists,
           NEW slot \in Nat, slot < SegmentStart(shards, list, Len(list) + 1, n)
    PROVE  SegmentOf(shards, list, n, slot)
<1> DEFINE i == Segment(shards, list, n, slot)
           start == SegmentStart(shards, list, i, n)
           view == shards[list[i]].ready[n].all
           size == Len(view.flat)
           total == SegmentStart(shards, list, Len(list) + 1, n)
<1>1. /\ i \in 1..Len(list) /\ start <= slot /\ slot < SegmentStart(shards, list, i + 1, n)
  BY SegmentFound
<1>2. list \in Seq(Providers) /\ Len(list) \in Nat
  BY SchedulerConstants
<1> HIDE DEF i
<1>3. /\ i \in 1..(Len(list) + 1) /\ i \in i..(Len(list) + 1)
      /\ i + 1 \in 1..(Len(list) + 1) /\ Len(list) + 1 \in (i + 1)..(Len(list) + 1)
  BY <1>1, <1>2
<1>4. start \in Nat /\ SegmentStart(shards, list, i + 1, n) \in Nat
      /\ SegmentStart(shards, list, i + 1, n) <= total
  BY <1>3, StartsRise
<1>5. /\ SegmentStart(shards, list, i + 1, n) = start + ReadyCount(shards, list[i], n)
      /\ ReadyCount(shards, list[i], n) \in Nat
  BY <1>1, <1>2, SegmentStarts, ReadyCounted
<1>6. ReadyCount(shards, list[i], n) # 0
  BY <1>1, <1>4, <1>5
<1>7. list[i] \in DOMAIN shards /\ ReadyCount(shards, list[i], n) = size
  BY <1>6 DEF ReadyCount
<1>8. GoodView(view, shards[list[i]].entries, ReadyAt(shards[list[i]].entries, n))
  BY <1>7 DEF GoodShards, GoodIndexes
<1>9. view.cursor \in 0..size
  BY <1>8 DEF GoodView, CursorsWithin
<1> HIDE DEF start, view, size, total
<1>10. size \in Nat \ {0} /\ slot < start + size /\ start + size <= total
  BY <1>1, <1>4, <1>5, <1>6, <1>7
<1> QED
  BY <1>1, <1>4, <1>5, <1>7, <1>8, <1>9, <1>10 
     DEF SegmentOf, i, start, view, size, total, Holds

----------------------------------------------------------------------------
(* Whose turn it is in a segment.                                          *)

(* How many of the slots of a segment a cursor has passed.                 *)
Passed(cursor, start, size) ==
    IF cursor <= start THEN 0
    ELSE IF cursor - start <= size THEN cursor - start ELSE size

(* The position in a rotation of n whose turn comes at slot y of a segment *)
(* that has passed p of its slots.                                         *)
Place(cursor, y, p, n) ==
    LET x == cursor + y - p
    IN  IF x < 1 THEN x + n ELSE IF x > n THEN x - n ELSE x

LEMMA PlaceTyped ==
    ASSUME NEW n \in Nat \ {0}, NEW cursor \in 0..n, NEW p \in 0..n, NEW y \in 1..n
    PROVE  /\ Place(cursor, y, p, n) \in 1..n
           /\ \A z \in 1..n : Place(cursor, y, p, n) = Place(cursor, z, p, n) => y = z
           /\ Place(normalizeCursor(cursor, n), y, p, n) = Place(cursor, y, p, n)
<1>1. normalizeCursor(cursor, n) = IF cursor = n THEN 0 ELSE cursor
  BY DEF normalizeCursor
<1> QED
  BY <1>1 DEF Place

LEMMA PassedTyped ==
    ASSUME NEW cursor \in Nat, NEW start \in Nat, NEW size \in Nat
    PROVE  Passed(cursor, start, size) \in 0..size
BY DEF Passed

----------------------------------------------------------------------------
(* The rotation over several providers.                                    *)

(* The auths that the pick of slot x may take, or took, when the cursor of *)
(* the slots stands there: one, or any of a provider with groups.          *)
SlotAuth(shards, list, n, cursor, x) ==
    LET i     == Segment(shards, list, n, x - 1)
        start == SegmentStart(shards, list, i, n)
        view  == shards[list[i]].ready[n].all
        size  == Len(view.flat)
    IN  IF view.parentOrder # <<>> THEN Range(view.flat)
        ELSE {view.flat[Place(view.cursor, x - start, Passed(cursor, start, size), size)]}

SlotAuths(shards, list, n, cursor) ==
    [x \in 1..SegmentStart(shards, list, Len(list) + 1, n) |->
        SlotAuth(shards, list, n, cursor, x)]

(* The auths were served in turn from the slots of the best level.         *)
MixedTrail(shards, list, cursor, auths) ==
    LET n     == BestLevel(shards, Auths)
        total == SegmentStart(shards, list, Len(list) + 1, n)
    IN  /\ n \in Priorities
        /\ cursor \in 0..total
        /\ auths \in Seq(Auths)
        /\ Len(auths) <= total
        /\ Trail(auths, total, SlotAuths(shards, list, n, cursor), cursor)

ShardsArranged(shards, old) ==
    /\ DOMAIN shards = DOMAIN old
    /\ \A p \in DOMAIN old : Arranged(shards[p], old[p])

ShardsFollow(shards, old) ==
    \A p \in DOMAIN old : ShardFollows(shards[p], old[p])

LEMMA BestLevelKept ==
    ASSUME NEW shards, NEW old, ShardsArranged(shards, old)
    PROVE  BestLevel(shards, Auths) = BestLevel(old, Auths)
<1> DEFINE Top(all, p) == highestReadyPriorityLocked(all[p], FALSE, Auths)
<1>1. \A p \in DOMAIN old : Top(shards, p) = Top(old, p)
  <2> SUFFICES ASSUME NEW p \in DOMAIN old PROVE Top(shards, p) = Top(old, p)
    OBVIOUS
  <2>1. Arranged(shards[p], old[p])
    BY DEF ShardsArranged
  <2>2. \A prefer, allowed : highestReadyPriorityLocked(shards[p], prefer, allowed)
                               = highestReadyPriorityLocked(old[p], prefer, allowed)
    BY <2>1, LevelKept
  <2> QED
    BY <2>2
<1>2. DOMAIN shards = DOMAIN old
  BY DEF ShardsArranged
<1> HIDE DEF Top
<1>3. {Top(shards, p) : p \in DOMAIN shards} = {Top(old, p) : p \in DOMAIN old}
  BY <1>1, <1>2
<1> QED
  BY <1>3 DEF BestLevel, Top

LEMMA SegmentsKept ==
    ASSUME NEW shards, GoodShards(shards), NEW old, GoodShards(old), ShardsArranged(shards, old),
           NEW n \in Priorities, NEW list \in ProviderLists
    PROVE  /\ \A i \in 1..(Len(list) + 1) :
                 SegmentStart(shards, list, i, n) = SegmentStart(old, list, i, n)
           /\ \A slot \in Nat : slot < SegmentStart(old, list, Len(list) + 1, n) =>
                 Segment(shards, list, n, slot) = Segment(old, list, n, slot)
<1>1. Len(list) \in Nat
  BY SchedulerConstants
<1>2. ASSUME NEW p PROVE ReadyOf(shards, p, n) = ReadyOf(old, p, n)
  <2>1. CASE p \in DOMAIN old
    <3>1. ASSUME NEW shard, GoodIndexes(shard)
          PROVE  Range(shard.ready[n].all.flat) = ReadyAt(shard.entries, n)
      BY <3>1, ReadyPresent, ShownOnes DEF GoodIndexes, ModelShards, EntryMaps
    <3>2. GoodIndexes(shards[p]) /\ GoodIndexes(old[p]) /\ p \in DOMAIN shards
      BY <2>1 DEF ShardsArranged, GoodShards
    <3>3. shards[p].ready[n].all.flat = old[p].ready[n].all.flat
      BY <2>1 DEF ShardsArranged, Arranged, SameTurns
    <3> QED
      BY <2>1, <3>1, <3>2, <3>3 DEF ReadyOf
  <2>2. CASE p \notin DOMAIN old
    BY <2>2 DEF ReadyOf, ShardsArranged
  <2> QED
    BY <2>1, <2>2
<1>3. ASSUME NEW i \in 1..(Len(list) + 1)
      PROVE  SegmentStart(shards, list, i, n) = SegmentStart(old, list, i, n)
  <2>1. Before(shards, list, i, n) = Before(old, list, i, n)
    BY <1>2 DEF Before
  <2> QED
    BY <2>1, SlotsNumbered
<1>4. ASSUME NEW slot \in Nat, slot < SegmentStart(old, list, Len(list) + 1, n)
      PROVE  Segment(shards, list, n, slot) = Segment(old, list, n, slot)
  <2> DEFINE i == Segment(old, list, n, slot)
  <2>1. /\ i \in 1..Len(list) /\ SegmentStart(old, list, i, n) <= slot
        /\ slot < SegmentStart(old, list, i + 1, n)
    BY <1>4, SegmentFound
  <2> HIDE DEF i
  <2>2. i \in 1..(Len(list) + 1) /\ i + 1 \in 1..(Len(list) + 1)
    BY <1>1, <2>1
  <2>3. Holds(shards, list, n, i, slot)
    BY <1>3, <2>1, <2>2 DEF Holds
  <2>4. Segment(shards, list, n, slot) = i
    BY <2>1, <2>3, SegmentIs
  <2> QED
    BY <2>4 DEF i
<1> QED
  BY <1>3, <1>4

LEMMA MixedKept ==
    ASSUME NEW old, GoodShards(old), NEW shards, GoodShards(shards),
           ShardsArranged(shards, old), ShardsFollow(shards, old), NEW list \in ProviderLists,
           NEW cursor, NEW auths, MixedTrail(old, list, cursor, auths)
    PROVE  MixedTrail(shards, list, cursor, auths)
<1> DEFINE n == BestLevel(old, Auths)
           total == SegmentStart(old, list, Len(list) + 1, n)
<1>1. /\ n \in Priorities /\ cursor \in 0..total /\ auths \in Seq(Auths) /\ Len(auths) <= total
      /\ Trail(auths, total, SlotAuths(old, list, n, cursor), cursor)
  BY DEF MixedTrail
<1>2. BestLevel(shards, Auths) = n
  BY BestLevelKept
<1> HIDE DEF n
<1>3. /\ \A i \in 1..(Len(list) + 1) :
            SegmentStart(shards, list, i, n) = SegmentStart(old, list, i, n)
      /\ \A slot \in Nat : slot < total => Segment(shards, list, n, slot) = Segment(old, list, n, slot)
  BY <1>1, SegmentsKept
<1>4. total \in Nat
  BY <1>1, TotalTyped
<1>5. SegmentStart(shards, list, Len(list) + 1, n) = total
  <2>1. Len(list) + 1 \in 1..(Len(list) + 1)
    BY SchedulerConstants
  <2> QED
    BY <1>3, <2>1
<1> HIDE DEF total
<1>6. ASSUME NEW x \in 1..total
      PROVE  SlotAuth(shards, list, n, cursor, x) = SlotAuth(old, list, n, cursor, x)
  <2> DEFINE i == Segment(old, list, n, x - 1)
             start == SegmentStart(old, list, i, n)
             was == old[list[i]].ready[n].all
             view == shards[list[i]].ready[n].all
             size == Len(was.flat)
             passed == Passed(cursor, start, size)
             y == x - start
  <2>1. x - 1 \in Nat /\ x - 1 < total
    BY <1>4
  <2>2. /\ i \in 1..Len(list) /\ list[i] \in DOMAIN old
        /\ start \in Nat /\ size \in Nat \ {0}
        /\ start <= x - 1 /\ x - 1 < start + size
        /\ was.cursor \in 0..size
    <3> DEFINE slot == x - 1
    <3>1. slot \in Nat /\ slot < SegmentStart(old, list, Len(list) + 1, n)
      BY <2>1 DEF total
    <3> HIDE DEF slot
    <3>2. SegmentOf(old, list, n, slot)
      BY <1>1, <3>1, SlotFound
    <3> QED
      BY <3>2 DEF SegmentOf, slot
  <2>3. Segment(shards, list, n, x - 1) = i
    BY <1>3, <2>1
  <2> HIDE DEF i
  <2>4. SegmentStart(shards, list, i, n) = start
    <3>1. i \in 1..(Len(list) + 1)
      BY <2>2, SchedulerConstants
    <3> QED
      BY <1>3, <3>1
  <2>5. SameTurns(view, was) /\ ViewFollows(view, was)
    BY <1>1, <2>2 DEF ShardsArranged, ShardsFollow, Arranged, ShardFollows
  <2>6. /\ SlotAuth(old, list, n, cursor, x)
             = IF was.parentOrder # <<>> THEN Range(was.flat)
               ELSE {was.flat[Place(was.cursor, y, passed, size)]}
        /\ SlotAuth(shards, list, n, cursor, x)
             = IF was.parentOrder # <<>> THEN Range(was.flat)
               ELSE {was.flat[Place(view.cursor, y, passed, size)]}
    BY <2>3, <2>4, <2>5 DEF SlotAuth, SameTurns, i
  <2> HIDE DEF start, was, view, size
  <2>7. view.cursor = was.cursor \/ view.cursor = normalizeCursor(was.cursor, size)
    BY <2>5 DEF SameTurns, ViewFollows, CursorFollows, size
  <2>8. passed \in 0..size
    <3>1. cursor \in Nat
      BY <1>1, <1>4
    <3> QED
      BY <2>2, <3>1, PassedTyped
  <2> HIDE DEF passed
  <2>9. y \in 1..size
    BY <1>4, <2>2
  <2> HIDE DEF y
  <2>10. Place(normalizeCursor(was.cursor, size), y, passed, size)
            = Place(was.cursor, y, passed, size)
    <3> DEFINE at == was.cursor
    <3>1. at \in 0..size /\ size \in Nat \ {0}
      BY <2>2
    <3> HIDE DEF at
    <3>2. Place(normalizeCursor(at, size), y, passed, size) = Place(at, y, passed, size)
      BY <2>8, <2>9, <3>1, PlaceTyped
    <3> QED
      BY <3>2 DEF at
  <2>11. Place(view.cursor, y, passed, size) = Place(was.cursor, y, passed, size)
    BY <2>7, <2>10
  <2> QED
    BY <2>6, <2>11
<1>7. SlotAuths(shards, list, n, cursor) = SlotAuths(old, list, n, cursor)
  BY <1>5, <1>6 DEF SlotAuths, total
<1> QED
  BY <1>1, <1>2, <1>5, <1>7 DEF MixedTrail

(* Where any auth may be taken, the provider that serves is the one whose  *)
(* segment holds the slot of the cursor.                                   *)
LEMMA SlotServed ==
    ASSUME NEW shards, GoodShards(shards), NEW list \in ProviderLists, NEW m \in ModelKeys,
           DOMAIN shards \subseteq Range(list), CursorsTyped(mixedCursors),
           strategy = "round-robin", BestLevel(shards, Auths) # None
    PROVE  LET n     == BestLevel(shards, Auths)
               total == SegmentStart(shards, list, Len(list) + 1, n)
               start == StartSlot(shards, list, m, n)
           IN  /\ n \in Priorities /\ total \in Nat \ {0}
               /\ start = mixedCursors[<<list, m>>] % total
               /\ start \in Nat /\ start < total
               /\ Serving(shards, list, m, Auths, n) = Segment(shards, list, n, start)
<1> DEFINE n == BestLevel(shards, Auths)
           total == SegmentStart(shards, list, Len(list) + 1, n)
           cursor == mixedCursors[<<list, m>>]
           start == StartSlot(shards, list, m, n)
           i == Segment(shards, list, n, start)
           willing == Willing(shards, n, Auths)
<1>1. /\ n \in Priorities
      /\ \E p \in DOMAIN shards : ReadyAt(shards[p].entries, n) \cap Auths # {}
  <2>1. n # None
    OBVIOUS
  <2>2. ~ \A p \in DOMAIN shards : ReadyIn(shards[p].entries, Auths) = {}
    <3>1. (\A p \in DOMAIN shards : ReadyIn(shards[p].entries, Auths) = {}) => n = None
      BY BestLevelFound
    <3> QED
      BY <2>1, <3>1
  <2>3. (\E p \in DOMAIN shards : ReadyIn(shards[p].entries, Auths) # {}) =>
           n \in Priorities /\ \E p \in DOMAIN shards : ReadyAt(shards[p].entries, n) \cap Auths # {}
    BY BestLevelFound
  <2> HIDE DEF n
  <2> QED
    BY <2>2, <2>3
<1> HIDE DEF n
<1>2. PICK p \in DOMAIN shards : p \in willing
  BY <1>1, WillingOnes
<1>3. list \in Seq(Providers) /\ Len(list) \in Nat
  BY SchedulerConstants
<1>4. total \in Nat \ {0}
  <2>1. PICK k \in 1..Len(list) : list[k] = p
    BY <1>3 DEF Range
  <2>2. ReadyCount(shards, list[k], n) > 0
    BY <1>1, <1>2, <2>1, WillingOnes
  <2>3. /\ k \in 1..(Len(list) + 1) /\ Len(list) + 1 \in 1..(Len(list) + 1)
        /\ k + 1 \in 1..(Len(list) + 1) /\ k \in k..(Len(list) + 1)
        /\ Len(list) + 1 \in (k + 1)..(Len(list) + 1)
    BY <1>3, <2>1
  <2>4. /\ SegmentStart(shards, list, k, n) \in Nat
        /\ SegmentStart(shards, list, k + 1, n) \in Nat
        /\ SegmentStart(shards, list, k + 1, n) <= total
    BY <1>1, <2>3, StartsRise
  <2>5. SegmentStart(shards, list, k + 1, n)
           = SegmentStart(shards, list, k, n) + ReadyCount(shards, list[k], n)
    BY <1>3, <2>1, SegmentStarts
  <2>6. ReadyCount(shards, list[k], n) \in Nat
    BY <1>1, ReadyCounted
  <2>7. total \in Nat
    BY <1>1, TotalTyped
  <2> HIDE DEF total
  <2> QED
    BY <2>2, <2>4, <2>5, <2>6, <2>7
<1>5. cursor \in Nat
  <2>1. Cardinality(Auths) \in Nat
    BY SchedulerConstants, FS_CardinalityType
  <2>2. cursor \in 0..Cardinality(Auths)
    BY DEF CursorsTyped
  <2> QED
    BY <2>1, <2>2
<1>6. start = cursor % total
  BY DEF StartSlot
<1> HIDE DEF total, start, cursor
<1>7. start \in Nat /\ start < total
  BY <1>4, <1>5, <1>6
<1>8. /\ i \in 1..Len(list) /\ list[i] \in DOMAIN shards
      /\ Len(shards[list[i]].ready[n].all.flat) \in Nat \ {0}
      /\ GoodView(shards[list[i]].ready[n].all, shards[list[i]].entries,
                  ReadyAt(shards[list[i]].entries, n))
  <2>1. SegmentOf(shards, list, n, start)
    BY <1>1, <1>7, SlotFound DEF total
  <2> QED
    BY <2>1 DEF SegmentOf
<1> HIDE DEF i
<1>9. list[i] \in willing
  <2> DEFINE view == shards[list[i]].ready[n].all
             entries == shards[list[i]].entries
  <2>1. entries \in EntryMaps
    BY <1>8 DEF GoodShards, GoodIndexes, ModelShards, EntryMaps
  <2>2. ReadyAt(entries, n) \in SUBSET Present(entries)
    BY ReadyPresent
  <2>3. view.flat \in Seq(Auths) /\ Range(view.flat) = ReadyAt(entries, n)
        /\ ReadyAt(entries, n) \in SUBSET Auths
    BY <1>8, <2>1, <2>2, ShownOnes
  <2>4. 1 \in DOMAIN view.flat
    BY <1>8, <2>3
  <2>5. ReadyAt(entries, n) \cap Auths # {}
    BY <2>3, <2>4 DEF Range
  <2> QED
    BY <1>1, <1>8, <2>5, WillingOnes
<1>10. Serving(shards, list, m, Auths, n) = NextFrom(list, i - 1, willing) + 1
  <2>1. strategy # "fill-first"
    OBVIOUS
  <2> QED
    BY <2>1 DEF Serving, i, start
<1>11. NextFrom(list, i - 1, willing) = i - 1
  <2>1. /\ i - 1 \in 0..Len(list) /\ (i - 1) % Len(list) = i - 1 /\ (i - 1) + 1 = i
        /\ Len(list) # 0
    BY <1>3, <1>8
  <2>2. list[((i - 1) % Len(list)) + 1] \in willing
    BY <1>9, <2>1
  <2> HIDE DEF willing
  <2> QED
    BY <1>3, <2>1, <2>2, NextFromHere
<1>12. Serving(shards, list, m, Auths, n) = i
  BY <1>8, <1>10, <1>11
<1> QED
  BY <1>1, <1>4, <1>6, <1>7, <1>12 DEF n, total, cursor, start, i

----------------------------------------------------------------------------
(* A pick over several providers makes their rotation one longer.          *)

LEMMA AnyPicked ==
    ASSUME NEW shard, GoodIndexes(shard), NEW n \in Priorities, NEW prefer \in BOOLEAN, ~ prefer,
           Range(shard.ready[n].all.flat) # {}
    PROVE  LET picked == pickReadyAtPriorityLocked(shard, prefer, n, "round-robin", Auths)
               was    == shard.ready[n].all
               view   == picked.shard.ready[n].all
           IN  /\ GoodIndexes(picked.shard) /\ picked.shard.entries = shard.entries
               /\ Arranged(picked.shard, shard)
               /\ picked.auth \in Range(was.flat) /\ picked.auth \in Auths
               /\ picked.auth \in ReadyAt(shard.entries, n)
               /\ was.parentOrder = <<>> =>
                     /\ view.cursor = (was.cursor % Len(was.flat)) + 1
                     /\ picked.auth = was.flat[view.cursor]
<1> DEFINE was == ReadyViewOf(shard, prefer, n)
           picked == pickReadyAtPriorityLocked(shard, prefer, n, "round-robin", Auths)
           view == ReadyViewOf(picked.shard, prefer, n)
           turn == pickRoundRobin(was, Auths)
           S == Range(was.flat)
<1>1. was = shard.ready[n].all /\ view = picked.shard.ready[n].all
  BY DEF ReadyViewOf
<1> HIDE DEF was, view, picked
<1>2. S # {}
  BY <1>1
<1>3. /\ picked.auth = turn.auth /\ view = turn.view
      /\ Arranged(picked.shard, shard) /\ GoodIndexes(picked.shard)
      /\ picked.shard.entries = shard.entries
  BY <1>2, ViewPicked DEF was, view, picked
<1>4. /\ shard.entries \in EntryMaps /\ S \in SUBSET Present(shard.entries)
      /\ S \in SUBSET ReadyAt(shard.entries, n) /\ GoodView(was, shard.entries, S)
  BY ViewFound DEF was
<1>5. /\ RingSize(was) \in Nat \ {0} /\ RingCursor(was) \in 0..RingSize(was)
      /\ SameTurns(turn.view, was)
      /\ RingCursor(turn.view) = (RingCursor(was) % RingSize(was)) + 1
      /\ turn.auth \in Ring(was)[RingCursor(turn.view)]
      /\ turn.auth \in S /\ Len(was.flat) \in Nat \ {0}
  BY <1>2, <1>4, NextPicked
<1>6. S \in SUBSET Auths
  BY <1>4, ShownOnes
<1> HIDE DEF turn, S
<1>7. ASSUME was.parentOrder = <<>>
      PROVE  view.cursor = (was.cursor % Len(was.flat)) + 1 /\ picked.auth = was.flat[view.cursor]
  <2>1. view.parentOrder = <<>> /\ RingCursor(view) = view.cursor
        /\ RingCursor(was) = was.cursor /\ RingSize(was) = Len(was.flat)
    BY <1>3, <1>5, <1>7 DEF SameTurns, RingCursor, RingSize
  <2>2. was.cursor \in 0..Len(was.flat) /\ view.cursor = (was.cursor % Len(was.flat)) + 1
    BY <1>3, <1>5, <2>1
  <2>3. view.cursor \in 1..Len(was.flat)
    <3>1. Len(was.flat) \in Nat \ {0}
      BY <1>5
    <3> QED
      BY <2>2, <3>1
  <2>4. picked.auth \in Ring(was)[view.cursor]
    BY <1>3, <1>5, <2>1
  <2>5. Ring(was)[view.cursor] = {was.flat[view.cursor]}
    BY <1>7, <2>3 DEF Ring
  <2> QED
    BY <2>2, <2>4, <2>5
<1> QED
  BY <1>1, <1>3, <1>4, <1>5, <1>6, <1>7 DEF picked, S

(* The provider whose slot it is, what it serves, and the shards it leaves. *)
Server(shards, list, m, n) ==
    list[Segment(shards, list, n, StartSlot(shards, list, m, n))]

ServedBy(shards, list, m, n) ==
    pickReadyAtPriorityLocked(shards[Server(shards, list, m, n)], FALSE, n, "round-robin", Auths)

LeftBy(shards, list, m, n) ==
    [shards EXCEPT ![Server(shards, list, m, n)] = ServedBy(shards, list, m, n).shard]

(* With the provider that serves, the slots move on.                       *)
LEMMA MixedServed ==
    ASSUME NEW shards, GoodShards(shards), NEW list \in ProviderLists, NEW m \in ModelKeys,
           DOMAIN shards \subseteq Range(list), CursorsTyped(mixedCursors),
           strategy = "round-robin", BestLevel(shards, Auths) # None
    PROVE  LET n      == BestLevel(shards, Auths)
               start  == StartSlot(shards, list, m, n)
               server == Server(shards, list, m, n)
               picked == ServedBy(shards, list, m, n)
               stored == LeftBy(shards, list, m, n)
               next   == start + 1
           IN  /\ server \in DOMAIN shards
               /\ GoodIndexes(picked.shard) /\ picked.shard.entries = shards[server].entries
               /\ GoodShards(stored) /\ ShardsArranged(stored, shards)
               /\ picked.auth \in ReadyAt(shards[server].entries, n) /\ picked.auth \in Auths
               /\ mixedCursors[<<list, m>>] \in 0..SegmentStart(shards, list, Len(list) + 1, n) =>
                     SlotAuths(stored, list, n, next)
                        = SlotAuths(shards, list, n, mixedCursors[<<list, m>>])
               /\ picked.auth \in SlotAuth(stored, list, n, next, next)
<1> DEFINE n == BestLevel(shards, Auths)
           total == SegmentStart(shards, list, Len(list) + 1, n)
           cursor == mixedCursors[<<list, m>>]
           start == StartSlot(shards, list, m, n)
           i == Segment(shards, list, n, start)
           server == list[i]
           prefer == FALSE
           picked == pickReadyAtPriorityLocked(shards[server], FALSE, n, "round-robin", Auths)
           stored == [shards EXCEPT ![server] = picked.shard]
           from == SegmentStart(shards, list, i, n)
           was == shards[server].ready[n].all
           view == picked.shard.ready[n].all
           size == Len(was.flat)
           next == start + 1
<1>1. /\ n \in Priorities /\ total \in Nat \ {0}
      /\ start = cursor % total /\ start \in Nat /\ start < total
  BY SlotServed
<1> HIDE DEF n
<1>2. /\ i \in 1..Len(list) /\ server \in DOMAIN shards /\ Holds(shards, list, n, i, start)
      /\ from \in Nat /\ size \in Nat \ {0} /\ from <= start /\ start < from + size
      /\ from + size <= total
      /\ was.cursor \in 0..size
  <2> HIDE DEF start
  <2>1. SegmentOf(shards, list, n, start)
    BY <1>1, SlotFound
  <2> QED
    BY <2>1 DEF SegmentOf
<1> HIDE DEF start, i
<1>3. GoodIndexes(shards[server])
  BY <1>2 DEF GoodShards
<1>4. Range(was.flat) # {}
  <2>1. 1 \in DOMAIN was.flat
    <3>1. was.flat \in Seq(Auths)
      <4>1. was \in Views
        BY <1>1, <1>3 DEF GoodIndexes, GoodView
      <4> QED
        BY <4>1 DEF Views
    <3> QED
      BY <1>2, <3>1
  <2> QED
    BY <2>1 DEF Range
<1>5. /\ GoodIndexes(picked.shard) /\ picked.shard.entries = shards[server].entries
      /\ Arranged(picked.shard, shards[server])
      /\ picked.auth \in Range(was.flat) /\ picked.auth \in Auths
      /\ picked.auth \in ReadyAt(shards[server].entries, n)
      /\ was.parentOrder = <<>> =>
            /\ view.cursor = (was.cursor % Len(was.flat)) + 1
            /\ picked.auth = was.flat[view.cursor]
  <2>1. ASSUME NEW no \in BOOLEAN, ~ no
        PROVE  LET at == pickReadyAtPriorityLocked(shards[server], no, n, "round-robin", Auths)
                   to == at.shard.ready[n].all
               IN  /\ GoodIndexes(at.shard) /\ at.shard.entries = shards[server].entries
                   /\ Arranged(at.shard, shards[server])
                   /\ at.auth \in Range(was.flat) /\ at.auth \in Auths
                   /\ at.auth \in ReadyAt(shards[server].entries, n)
                   /\ was.parentOrder = <<>> =>
                         /\ to.cursor = (was.cursor % Len(was.flat)) + 1
                         /\ at.auth = was.flat[to.cursor]
    <3> HIDE DEF server
    <3> QED
      BY <1>1, <1>3, <1>4, <2>1, AnyPicked
  <2> QED
    BY <2>1
<1> HIDE DEF picked, server
<1>6. /\ DOMAIN stored = DOMAIN shards /\ stored[server] = picked.shard
      /\ \A p \in DOMAIN shards : p # server => stored[p] = shards[p]
  BY <1>2
<1> HIDE DEF stored
<1>7. \A p \in DOMAIN shards : stored[p].entries = shards[p].entries /\ GoodIndexes(stored[p])
  BY <1>5, <1>6 DEF GoodShards
<1>8. GoodShards(stored)
  BY <1>6, <1>7 DEF GoodShards
<1>9. ShardsArranged(stored, shards)
  <2>1. \A shard : Arranged(shard, shard)
    BY DEF Arranged, SameTurns
  <2> QED
    BY <1>5, <1>6, <2>1 DEF ShardsArranged
<1>10. /\ \A k \in 1..(Len(list) + 1) :
             SegmentStart(stored, list, k, n) = SegmentStart(shards, list, k, n)
       /\ \A slot \in Nat : slot < total =>
             Segment(stored, list, n, slot) = Segment(shards, list, n, slot)
  BY <1>1, <1>8, <1>9, SegmentsKept
<1>11. Len(list) \in Nat /\ Len(list) + 1 \in 1..(Len(list) + 1)
       /\ \A j, k \in 1..Len(list) : j # k => list[j] # list[k]
  BY SchedulerConstants
<1>12. SegmentStart(stored, list, Len(list) + 1, n) = total
  BY <1>10, <1>11
<1>16. next = start + 1
  OBVIOUS
<1> HIDE DEF total, next
<1>13. ASSUME NEW x \in 1..total, cursor \in 0..total
       PROVE  SlotAuth(stored, list, n, next, x) = SlotAuth(shards, list, n, cursor, x)
  <2> DEFINE slot == x - 1
             j == Segment(shards, list, n, slot)
             begin == SegmentStart(shards, list, j, n)
             old == shards[list[j]].ready[n].all
             new == stored[list[j]].ready[n].all
             length == Len(old.flat)
             y == x - begin
  <2>1. slot \in Nat /\ slot < total /\ x = slot + 1
    BY <1>1
  <2> HIDE DEF slot
  <2>2. /\ j \in 1..Len(list) /\ list[j] \in DOMAIN shards
        /\ begin \in Nat /\ length \in Nat \ {0}
        /\ begin <= slot /\ slot < begin + length /\ begin + length <= total
        /\ SegmentStart(shards, list, j + 1, n) = begin + length
        /\ old.cursor \in 0..length
    <3>1. SegmentOf(shards, list, n, slot)
      BY <1>1, <2>1, SlotFound DEF total
    <3> QED
      BY <3>1 DEF SegmentOf, total
  <2>3. Segment(stored, list, n, slot) = j
    BY <1>10, <2>1
  <2> HIDE DEF j
  <2>4. SegmentStart(stored, list, j, n) = begin
    <3>1. j \in 1..(Len(list) + 1)
      BY <1>11, <2>2
    <3> QED
      BY <1>10, <3>1
  <2>5. SameTurns(new, old)
    BY <1>1, <1>9, <2>2 DEF ShardsArranged, Arranged
  <2>6. /\ SlotAuth(shards, list, n, cursor, x)
             = IF old.parentOrder # <<>> THEN Range(old.flat)
               ELSE {old.flat[Place(old.cursor, y, Passed(cursor, begin, length), length)]}
        /\ SlotAuth(stored, list, n, next, x)
             = IF old.parentOrder # <<>> THEN Range(old.flat)
               ELSE {old.flat[Place(new.cursor, y, Passed(next, begin, length), length)]}
    BY <2>3, <2>4, <2>5 DEF SlotAuth, SameTurns, j, slot
  <2> HIDE DEF begin, old, new, length
  <2>7. y \in 1..length
    <3>1. /\ slot \in Nat /\ begin \in Nat /\ length \in Nat /\ x = slot + 1
          /\ begin <= slot /\ slot < begin + length
      BY <2>1, <2>2
    <3> HIDE DEF total
    <3> QED
      BY <3>1
  <2> HIDE DEF y
  <2> DEFINE turn == old.cursor
  <2>8. /\ start = cursor % total /\ next = start + 1 /\ total \in Nat \ {0} /\ cursor \in 0..total
        /\ begin \in Nat /\ length \in Nat \ {0} /\ begin + length <= total
        /\ turn \in 0..length /\ start \in Nat /\ next \in Nat
    BY <1>1, <1>16, <1>13, <2>2
  <2> HIDE DEF turn, cursor
  <2>11. cursor % total = IF cursor = total THEN 0 ELSE cursor
    BY <2>8
  <2>9. CASE j = i /\ old.parentOrder = <<>>
    <3>1. /\ begin = from /\ length = size /\ old = was /\ new = view
      BY <1>6, <2>9 DEF begin, old, new, length, server
    <3> DEFINE moved == new.cursor
    <3>2. moved = (turn % length) + 1
      BY <1>5, <2>9, <3>1 DEF turn
    <3>3. begin <= start /\ start < begin + length
      BY <1>2, <3>1
    <3> HIDE DEF moved, was, view, size, from
    <3> HIDE DEF prefer
    <3>4. Place(moved, y, Passed(next, begin, length), length)
             = Place(turn, y, Passed(cursor, begin, length), length)
      <4>1. turn % length = IF turn = length THEN 0 ELSE turn
        BY <2>8
      <4> QED
        BY <2>7, <2>8, <2>11, <3>2, <3>3, <4>1 DEF Place, Passed
    <3> QED
      BY <2>6, <2>8, <3>4 DEF turn, moved
  <2>10. CASE j # i
    <3>1. list[j] # server
      BY <1>2, <1>11, <2>2, <2>10 DEF server
    <3>2. new = old
      BY <1>6, <2>2, <3>1 DEF new, old
    <3>3. ~ (begin <= start /\ start < begin + length)
      <4> SUFFICES ASSUME begin <= start, start < begin + length PROVE FALSE
        BY <2>8
      <4>1. Holds(shards, list, n, j, start)
        BY <2>2 DEF Holds, begin
      <4>2. Segment(shards, list, n, start) = j
        BY <1>1, <2>2, <4>1, SegmentIs
      <4> QED
        BY <2>10, <4>2 DEF i
    <3> HIDE DEF prefer, was, view, size, from
    <3>4. Place(turn, y, Passed(next, begin, length), length)
             = Place(turn, y, Passed(cursor, begin, length), length)
      BY <2>7, <2>8, <2>11, <3>3 DEF Place, Passed
    <3> QED
      BY <2>6, <2>8, <3>2, <3>4 DEF turn
  <2> QED
    BY <2>6, <2>9, <2>10
<1>14. cursor \in 0..total => SlotAuths(stored, list, n, next) = SlotAuths(shards, list, n, cursor)
  BY <1>12, <1>13 DEF SlotAuths, total
<1>15. picked.auth \in SlotAuth(stored, list, n, next, next)
  <2> DEFINE place == Place(view.cursor, next - from, Passed(next, from, size), size)
  <2>1. next - 1 = start
    BY <1>1, <1>16
  <2>2. Segment(stored, list, n, next - 1) = i
    BY <1>1, <1>10, <2>1 DEF i
  <2>3. SegmentStart(stored, list, i, n) = from
    <3>1. i \in 1..(Len(list) + 1)
      BY <1>2, <1>11
    <3> QED
      BY <1>10, <3>1
  <2>4. SameTurns(view, was) /\ stored[list[i]] = picked.shard
    BY <1>1, <1>5, <1>6 DEF Arranged, server
  <2>5. SlotAuth(stored, list, n, next, next)
           = IF was.parentOrder # <<>> THEN Range(was.flat) ELSE {was.flat[place]}
    <3> HIDE DEF i
    <3>1. stored[list[i]].ready[n].all = view
      BY <2>4
    <3> HIDE DEF view, was, stored, from
    <3>2. view.flat = was.flat /\ view.parentOrder = was.parentOrder
      BY <2>4 DEF SameTurns
    <3> QED
      BY <2>2, <2>3, <3>1, <3>2 DEF SlotAuth
  <2> HIDE DEF was, view, size, from
  <2>6. ASSUME was.parentOrder = <<>> PROVE place = view.cursor
    <3>1. Passed(next, from, size) = next - from
      BY <1>1, <1>16, <1>2 DEF Passed
    <3>2. view.cursor \in 1..size
      <4>1. view.cursor = (was.cursor % size) + 1
        BY <1>5, <2>6 DEF size, view, was
      <4> QED
        BY <1>2, <4>1
    <3> QED
      <4> DEFINE z == view.cursor
      <4>1. z \in 1..size /\ size \in Nat /\ next - from \in Nat
        BY <1>1, <1>16, <1>2, <3>2
      <4>2. Place(z, next - from, next - from, size) = z
        <5> HIDE DEF z
        <5> QED
          BY <4>1 DEF Place
      <4> QED
        BY <3>1, <4>2
  <2>7. was.parentOrder = <<>> => picked.auth = was.flat[view.cursor]
    BY <1>5 DEF was, view
  <2> HIDE DEF place
  <2> QED
    BY <1>5, <2>5, <2>6, <2>7 DEF was
<1> QED
  BY <1>2, <1>5, <1>8, <1>9, <1>14, <1>15
     DEF n, start, server, i, picked, stored, cursor, total, next, Server, ServedBy, LeftBy

(* What that does to the trails.                                           *)
MixedTurn(shards, list, m, n, next) ==
    LET server == Server(shards, list, m, n)
        picked == ServedBy(shards, list, m, n)
        stored == LeftBy(shards, list, m, n)
        total  == SegmentStart(shards, list, Len(list) + 1, n)
    IN  /\ server \in DOMAIN shards
        /\ GoodIndexes(picked.shard) /\ picked.shard.entries = shards[server].entries
        /\ GoodShards(stored) /\ ShardsArranged(stored, shards)
        /\ picked.auth \in ReadyAt(shards[server].entries, n) /\ picked.auth \in Auths
        /\ MixedTrail(stored, list, next, <<picked.auth>>)
        /\ \A auths : MixedTrail(shards, list, mixedCursors[<<list, m>>], auths) =>
              MixedTrail(stored, list, next, LastOf(Append(auths, picked.auth), total))

LEMMA MixedMoves ==
    ASSUME NEW shards, GoodShards(shards), NEW list \in ProviderLists, NEW m \in ModelKeys,
           DOMAIN shards \subseteq Range(list), CursorsTyped(mixedCursors),
           strategy = "round-robin", BestLevel(shards, Auths) # None
    PROVE  LET n == BestLevel(shards, Auths)
           IN  MixedTurn(shards, list, m, n, StartSlot(shards, list, m, n) + 1)
<1> DEFINE n == BestLevel(shards, Auths)
           total == SegmentStart(shards, list, Len(list) + 1, n)
           cursor == mixedCursors[<<list, m>>]
           start == StartSlot(shards, list, m, n)
           server == Server(shards, list, m, n)
           picked == ServedBy(shards, list, m, n)
           stored == LeftBy(shards, list, m, n)
           next == start + 1
           a == picked.auth
           W == SlotAuths(stored, list, n, next)
<1>1. /\ n \in Priorities /\ total \in Nat \ {0}
      /\ start = cursor % total /\ start \in Nat /\ start < total
  BY SlotServed
<1>2. /\ server \in DOMAIN shards
      /\ GoodIndexes(picked.shard) /\ picked.shard.entries = shards[server].entries
      /\ a \in ReadyAt(shards[server].entries, n)
      /\ GoodShards(stored) /\ ShardsArranged(stored, shards)
      /\ a \in Auths
      /\ cursor \in 0..total => W = SlotAuths(shards, list, n, cursor)
      /\ a \in SlotAuth(stored, list, n, next, next)
  BY MixedServed
<1>3. BestLevel(stored, Auths) = n
  <2> HIDE DEF n, stored
  <2> QED
    BY <1>2, BestLevelKept DEF n
<1> HIDE DEF n, server, picked, stored, a, start
<1>4. SegmentStart(stored, list, Len(list) + 1, n) = total
  <2>1. Len(list) + 1 \in 1..(Len(list) + 1)
    BY SchedulerConstants
  <2> QED
    BY <1>1, <1>2, <2>1, SegmentsKept
<1> HIDE DEF total, cursor
<1>5. next \in 1..total
  BY <1>1
<1> HIDE DEF next
<1>6. a \in W[next]
  BY <1>2, <1>4, <1>5 DEF SlotAuths
<1> HIDE DEF W
<1>7. ASSUME NEW auths \in Seq(Auths), Len(auths) <= total, Trail(auths, total, W, next)
      PROVE  MixedTrail(stored, list, next, auths)
  <2>1. next \in 0..total
    BY <1>1, <1>5
  <2> QED
    BY <1>1, <1>3, <1>4, <1>7, <2>1 DEF MixedTrail, W
<1>8. MixedTrail(stored, list, next, <<a>>)
  <2>1. <<a>> \in Seq(Auths) /\ Len(<<a>>) = 1 /\ 1 <= total
    BY <1>1, <1>2
  <2>2. Trail(<<a>>, total, W, next)
    BY <1>1, <1>5, <1>6, TrailStarts
  <2> QED
    BY <1>7, <2>1, <2>2
<1>9. ASSUME NEW auths, MixedTrail(shards, list, cursor, auths)
      PROVE  MixedTrail(stored, list, next, LastOf(Append(auths, a), total))
  <2>1. /\ auths \in Seq(Auths) /\ cursor \in 0..total
        /\ Trail(auths, total, SlotAuths(shards, list, n, cursor), cursor)
    BY <1>9 DEF MixedTrail, n, total
  <2>2. Trail(auths, total, W, cursor)
    BY <1>2, <2>1
  <2>3. (cursor % total) + 1 = next
    BY <1>1 DEF next
  <2>4. a \in W[(cursor % total) + 1]
    BY <1>6, <2>3
  <2>5. Trail(LastOf(Append(auths, a), total), total, W, (cursor % total) + 1)
    BY <1>1, <1>2, <2>1, <2>2, <2>4, TrailMoves
  <2>6. Append(auths, a) \in Seq(Auths)
    BY <1>2, <2>1
  <2>7. /\ LastOf(Append(auths, a), total) \in Seq(Auths)
        /\ Len(LastOf(Append(auths, a), total))
              = IF Len(Append(auths, a)) <= total THEN Len(Append(auths, a)) ELSE total
    BY <1>1, <2>6, LastOnes
  <2>8. Len(LastOf(Append(auths, a), total)) <= total
    BY <1>1, <2>7
  <2> QED
    BY <1>7, <2>3, <2>5, <2>7, <2>8
<1> QED
  BY <1>2, <1>8, <1>9
     DEF n, total, cursor, start, server, picked, stored, next, a, MixedTurn

----------------------------------------------------------------------------
(* The rotation on record, as a function of the provider map.              *)

StoredShards(map, list, m) ==
    [p \in {q \in Range(list) : Built(map, q, m)} |-> map[p].shards[m]]

MembersIn(map, request) ==
    [p \in {q \in Range(request.providers) : Built(map, q, request.model)} |->
        Arrangement(map[p].shards[request.model].ready)]

LevelIn(map, homes, a) == map[homes[a]].auths[a].auth.priority

ViewIn(map, request, p, n) ==
    LET bucket == map[p].shards[request.model].ready[n]
    IN  IF Len(request.providers) = 1 /\ request.websocket /\ p = Codex
           /\ bucket.ws.flat # <<>>
        THEN bucket.ws ELSE bucket.all

TurnsIn(map, request, n) ==
    Cardinality(UNION {Range(ViewIn(map, request, p, n).flat) :
                         p \in {q \in Range(request.providers) : Built(map, q, request.model)}})

(* Where a request asks: one provider, or a list of several.               *)
LEMMA Asked ==
    ASSUME NEW request \in Requests
    PROVE  /\ request.model \in ModelKeys /\ request.model \in Requested
           /\ request.websocket \in BOOLEAN
           /\ request.providers \in Seq(Providers) /\ Range(request.providers) \subseteq Providers
           /\ Len(request.providers) = 1 =>
                 /\ request.providers[1] \in Providers
                 /\ request.providers = <<request.providers[1]>>
                 /\ Range(request.providers) = {request.providers[1]}
           /\ Len(request.providers) # 1 => request.providers \in ProviderLists
<1> DEFINE list == request.providers
<1>1. /\ list \in {<<p>> : p \in Providers} \cup ProviderLists
      /\ request.model \in Requested /\ request.websocket \in BOOLEAN
  BY DEF Requests
<1>2. request.model \in ModelKeys
  BY <1>1, SchedulerConstants
<1> HIDE DEF list
<1>3. CASE \E p \in Providers : list = <<p>>
  <2>1. PICK p \in Providers : list = <<p>>
    BY <1>3
  <2>2. /\ list \in Seq(Providers) /\ Len(list) = 1 /\ list[1] = p /\ DOMAIN list = {1}
    BY <2>1
  <2>3. Range(list) = {list[1]}
    BY <2>2 DEF Range
  <2> QED
    BY <1>1, <1>2, <2>1, <2>2, <2>3 DEF list
<1>4. CASE list \in ProviderLists
  <2>1. list \in Seq(Providers) /\ Len(list) # 1
    BY <1>4, SchedulerConstants
  <2>2. Range(list) \subseteq Providers
    BY <2>1 DEF Range
  <2> QED
    BY <1>1, <1>2, <1>4, <2>1, <2>2 DEF list
<1> QED
  BY <1>1, <1>3, <1>4

LEMMA RecordRead ==
    ASSUME NEW request \in Requests
    PROVE  /\ Members(request) = MembersIn(providers, request)
           /\ \A a : Level(request, a) = LevelIn(providers, authProviders, a)
           /\ \A p, n : View(p, request, n) = ViewIn(providers, request, p, n)
           /\ \A n : Turns(request, n) = TurnsIn(providers, request, n)
           /\ \A p \in Range(request.providers) :
                 <<p, request.model>> \in Shards <=> Built(providers, p, request.model)
<1> DEFINE known == {q \in Range(request.providers) : <<q, request.model>> \in Shards}
           built == {q \in Range(request.providers) : Built(providers, q, request.model)}
<1>1. \A p \in Range(request.providers) :
         <<p, request.model>> \in Shards <=> Built(providers, p, request.model)
  BY Asked DEF Shards, Built
<1>2. known = built
  BY <1>1
<1>3. DOMAIN Members(request) = built
  BY <1>2 DEF Members
<1>4. \A p, n : View(p, request, n) = ViewIn(providers, request, p, n)
  BY DEF View, ViewIn
<1>5. \A n : Turns(request, n) = TurnsIn(providers, request, n)
  BY <1>3, <1>4 DEF Turns, TurnsIn
<1>6. Members(request) = MembersIn(providers, request)
  BY <1>2 DEF Members, MembersIn
<1> QED
  BY <1>1, <1>4, <1>5, <1>6 DEF Level, Snapshot, LevelIn

LEMMA RecordReadNext ==
    ASSUME NEW request \in Requests
    PROVE  /\ Members(request)' = MembersIn(providers', request)
           /\ \A a : Level(request, a)' = LevelIn(providers', authProviders', a)
           /\ \A n : Turns(request, n)' = TurnsIn(providers', request, n)
           /\ \A a : Turns(request, Level(request, a))'
                        = TurnsIn(providers', request, LevelIn(providers', authProviders', a))
<1> DEFINE known == {q \in Range(request.providers) : <<q, request.model>> \in Shards'}
           built == {q \in Range(request.providers) : Built(providers', q, request.model)}
<1>1. \A p \in Range(request.providers) :
         <<p, request.model>> \in Shards' <=> Built(providers', p, request.model)
  BY Asked DEF Shards, Built
<1>2. known = built
  BY <1>1
<1>3. (DOMAIN Members(request))' = built
  BY <1>2 DEF Members
<1>4. \A p, n : View(p, request, n)' = ViewIn(providers', request, p, n)
  BY DEF View, ViewIn
<1>5. \A n : Turns(request, n)' = TurnsIn(providers', request, n)
  BY <1>3, <1>4 DEF Turns, TurnsIn
<1>6. Members(request)' = MembersIn(providers', request)
  BY <1>2 DEF Members, MembersIn
<1>7. \A a : Level(request, a)' = LevelIn(providers', authProviders', a)
  BY DEF Level, Snapshot, LevelIn
<1>8. \A a : Turns(request, Level(request, a))'
                = TurnsIn(providers', request, LevelIn(providers', authProviders', a))
  BY <1>3, <1>4, <1>7 DEF Turns, TurnsIn
<1> QED
  BY <1>5, <1>6, <1>7, <1>8

(* The auths were served in turn from the shards of the request.           *)
Rotates(request, auths, map, cursors) ==
    LET list == request.providers
        m    == request.model
    IN  /\ request \in Requests
        /\ auths \in Seq(Auths)
        /\ Len(list) = 1 =>
              /\ Built(map, list[1], m)
              /\ SingleTrail(map[list[1]].shards[m], request.websocket /\ list[1] = Codex, auths)
        /\ Len(list) # 1 => MixedTrail(StoredShards(map, list, m), list, cursors[<<list, m>>], auths)

LEMMA StoredGood ==
    ASSUME NEW map, NEW at, GoodProviders(map, at), NEW homes, Homes(map, homes),
           NEW list \in ProviderLists, NEW m \in ModelKeys
    PROVE  /\ GoodShards(StoredShards(map, list, m))
           /\ DOMAIN StoredShards(map, list, m) \subseteq Range(list)
           /\ Range(list) \subseteq Providers
<1> DEFINE shards == StoredShards(map, list, m)
<1>1. Range(list) \subseteq Providers
  <2>1. list \in Seq(Providers)
    BY SchedulerConstants
  <2> QED
    BY <2>1 DEF Range
<1>2. /\ DOMAIN shards = {q \in Range(list) : Built(map, q, m)}
      /\ \A p \in DOMAIN shards : shards[p] = map[p].shards[m]
  BY DEF StoredShards
<1> HIDE DEF shards
<1>3. ASSUME NEW p \in DOMAIN shards
      PROVE  GoodShard(shards[p], map[p].auths, m, at)
  BY <1>1, <1>2 DEF Built, GoodProviders, GoodProvider
<1>4. ASSUME NEW p \in DOMAIN shards, NEW a \in Present(shards[p].entries)
      PROVE  homes[a] = p
  <2>1. a \in Auths /\ map[p].auths[a] # None
    BY <1>3 DEF GoodShard, GoodEntries, EntryOf, Present
  <2> QED
    BY <1>1, <1>2, <2>1 DEF Homes, Knows, Built
<1>5. GoodShards(shards)
  BY <1>1, <1>2, <1>3, <1>4 DEF GoodShards, GoodShard
<1> QED
  BY <1>1, <1>2, <1>5 DEF shards

(* A step that serves nobody and keeps the members keeps the rotation.     *)
LEMMA RotationKept ==
    ASSUME NEW map, NEW at, GoodProviders(map, at), NEW homes, Homes(map, homes),
           NEW new, NEW later, GoodProviders(new, later), NEW newHomes, Homes(new, newHomes),
           MapFollows(new, map), NEW request, MembersIn(new, request) = MembersIn(map, request),
           NEW auths, NEW cursors, Rotates(request, auths, map, cursors)
    PROVE  Rotates(request, auths, new, cursors)
<1> DEFINE list == request.providers
           m == request.model
           members(x) == {q \in Range(list) : Built(x, q, m)}
<1>1. request \in Requests /\ auths \in Seq(Auths)
  BY DEF Rotates
<1>2. /\ m \in ModelKeys /\ Range(list) \subseteq Providers
      /\ Len(list) = 1 => list[1] \in Providers /\ Range(list) = {list[1]}
      /\ Len(list) # 1 => list \in ProviderLists
  BY <1>1, Asked
<1>3. members(new) = members(map)
  <2>1. \A x : members(x) = DOMAIN MembersIn(x, request)
    BY DEF MembersIn
  <2> QED
    BY <2>1
<1>4. ASSUME NEW p \in members(map)
      PROVE  /\ Arranged(new[p].shards[m], map[p].shards[m])
             /\ ShardFollows(new[p].shards[m], map[p].shards[m])
  <2>1. MembersIn(new, request)[p] = Arrangement(new[p].shards[m].ready)
    BY <1>3, <1>4 DEF MembersIn
  <2>2. MembersIn(map, request)[p] = Arrangement(map[p].shards[m].ready)
    BY <1>4 DEF MembersIn
  <2>3. Arranged(new[p].shards[m], map[p].shards[m])
    BY <2>1, <2>2, ArrangementKept
  <2>4. p \in Providers /\ Built(new, p, m)
    BY <1>2, <1>3, <1>4
  <2> QED
    BY <1>2, <2>3, <2>4 DEF MapFollows
<1>5. CASE Len(list) = 1
  <2> DEFINE p == list[1]
             prefer == request.websocket /\ p = Codex
  <2>1. Built(map, p, m) /\ SingleTrail(map[p].shards[m], prefer, auths)
    BY <1>5 DEF Rotates
  <2>2. p \in members(map) /\ p \in members(new)
    BY <1>2, <1>3, <1>5, <2>1
  <2>3. GoodIndexes(map[p].shards[m])
    BY <1>2, <1>5, <2>1 DEF Built, GoodProviders, GoodProvider, GoodShard
  <2>4. Arranged(new[p].shards[m], map[p].shards[m]) /\ ShardFollows(new[p].shards[m], map[p].shards[m])
    BY <1>4, <2>2
  <2>5. SingleTrail(new[p].shards[m], prefer, auths)
    <3> HIDE DEF prefer, p, m
    <3> QED
      BY <2>1, <2>3, <2>4, SingleKept
  <2> QED
    BY <1>1, <1>5, <2>2, <2>5 DEF Rotates
<1>6. CASE Len(list) # 1
  <2> DEFINE old == StoredShards(map, list, m)
             shards == StoredShards(new, list, m)
  <2>1. list \in ProviderLists
    BY <1>2, <1>6
  <2>2. GoodShards(old) /\ GoodShards(shards)
    BY <1>2, <2>1, StoredGood
  <2>3. /\ DOMAIN old = members(map) /\ DOMAIN shards = members(map)
        /\ \A p \in members(map) : old[p] = map[p].shards[m] /\ shards[p] = new[p].shards[m]
    BY <1>3 DEF StoredShards
  <2>4. MixedTrail(old, list, cursors[<<list, m>>], auths)
    BY <1>6 DEF Rotates
  <2> HIDE DEF old, shards, members, list, m
  <2>5. ShardsArranged(shards, old) /\ ShardsFollow(shards, old)
    BY <1>4, <2>3 DEF ShardsArranged, ShardsFollow
  <2> DEFINE cursor == cursors[<<list, m>>]
  <2>6. MixedTrail(shards, list, cursor, auths)
    <3> HIDE DEF cursor
    <3>1. MixedTrail(old, list, cursor, auths)
      BY <2>4 DEF cursor
    <3> QED
      BY <2>1, <2>2, <2>5, <3>1, MixedKept
  <2> QED
    BY <1>1, <1>6, <2>6 DEF Rotates, shards, list, m
<1> QED
  BY <1>5, <1>6

(* An auth that is ready in a shard is its provider's, of that level.      *)
LEMMA LevelFound ==
    ASSUME NEW map, NEW at, GoodProviders(map, at), NEW homes, Homes(map, homes),
           NEW p \in Providers, NEW m \in ModelKeys, Built(map, p, m), NEW n,
           NEW a \in ReadyAt(map[p].shards[m].entries, n)
    PROVE  /\ a \in Auths /\ homes[a] = p /\ LevelIn(map, homes, a) = n
           /\ map[p].auths[a] = map[p].shards[m].entries[a].meta
<1> DEFINE entries == map[p].shards[m].entries
<1>1. a \in Auths /\ entries[a] # None /\ entries[a].meta.auth.priority = n
  BY DEF ReadyAt, EntriesIn
<1>2. GoodEntries(entries, map[p].auths, m, at)
  BY DEF Built, GoodProviders, GoodProvider, GoodShard
<1> HIDE DEF entries
<1>3. entries[a].meta = map[p].auths[a] /\ map[p].auths[a] # None
  BY <1>1, <1>2 DEF GoodEntries, EntryOf
<1>4. homes[a] = p
  BY <1>1, <1>3 DEF Homes, Knows, Built
<1> QED
  BY <1>1, <1>3, <1>4 DEF LevelIn, entries

----------------------------------------------------------------------------
(* The turns of a request: the slots, or the auths, of its level.          *)

LEMMA SingleTurns ==
    ASSUME NEW map, NEW at, GoodProviders(map, at), NEW request \in Requests,
           Len(request.providers) = 1, NEW p, p = request.providers[1],
           Built(map, p, request.model), NEW n \in Priorities
    PROVE  LET shard == map[p].shards[request.model]
               view  == ReadyViewOf(shard, request.websocket /\ p = Codex, n)
           IN  /\ GoodIndexes(shard) /\ ViewIn(map, request, p, n) = view
               /\ TurnsIn(map, request, n) = Len(view.flat)
<1> DEFINE shard == map[p].shards[request.model]
           prefer == request.websocket /\ p = Codex
           view == ReadyViewOf(shard, prefer, n)
           known == {q \in Range(request.providers) : Built(map, q, request.model)}
<1>1. p \in Providers /\ request.model \in ModelKeys /\ Range(request.providers) = {p}
  BY Asked
<1>2. GoodIndexes(shard)
  BY <1>1 DEF Built, GoodProviders, GoodProvider, GoodShard
<1>3. ViewIn(map, request, p, n) = view
  BY DEF ViewIn, ReadyViewOf
<1>4. known = {p}
  BY <1>1
<1>5. TurnsIn(map, request, n) = Cardinality(Range(view.flat))
  <2>1. UNION {Range(ViewIn(map, request, q, n).flat) : q \in {p}} = Range(view.flat)
    BY <1>3
  <2> QED
    BY <1>4, <2>1 DEF TurnsIn
<1> HIDE DEF shard, prefer
<1>6. /\ shard.entries \in EntryMaps /\ Range(view.flat) \in SUBSET Present(shard.entries)
      /\ GoodView(view, shard.entries, Range(view.flat))
  BY <1>2, ViewFound
<1>7. Len(view.flat) = Cardinality(Range(view.flat))
  <2> HIDE DEF view
  <2> QED
    BY <1>6, ViewGrouped
<1> QED
  BY <1>2, <1>3, <1>5, <1>7 DEF shard, prefer

LEMMA MixedTurns ==
    ASSUME NEW map, NEW at, GoodProviders(map, at), NEW homes, Homes(map, homes),
           NEW request \in Requests, Len(request.providers) # 1, NEW n \in Priorities
    PROVE  LET list   == request.providers
               shards == StoredShards(map, list, request.model)
           IN  TurnsIn(map, request, n) = SegmentStart(shards, list, Len(list) + 1, n)
<1> DEFINE list == request.providers
           m == request.model
           shards == StoredShards(map, list, m)
           known == {q \in Range(list) : Built(map, q, m)}
           Of(p) == Range(ViewIn(map, request, p, n).flat)
<1>1. list \in ProviderLists /\ m \in ModelKeys
  BY Asked
<1>2. GoodShards(shards)
  BY <1>1, StoredGood
<1>3. DOMAIN shards = known /\ \A p \in known : shards[p] = map[p].shards[m]
  BY DEF StoredShards
<1>4. list \in Seq(Providers) /\ Len(list) \in Nat /\ Len(list) + 1 \in 1..(Len(list) + 1)
      /\ (Len(list) + 1) - 1 = Len(list)
  BY <1>1, SchedulerConstants
<1>5. ASSUME NEW p \in known PROVE Of(p) = ReadyOf(shards, p, n)
  <2>1. ViewIn(map, request, p, n) = shards[p].ready[n].all
    BY <1>3, <1>5 DEF ViewIn
  <2>2. GoodIndexes(shards[p])
    BY <1>2, <1>3 DEF GoodShards
  <2> HIDE DEF shards
  <2>3. Range(shards[p].ready[n].all.flat) = ReadyAt(shards[p].entries, n)
    BY <2>2, ReadyPresent, ShownOnes DEF GoodIndexes, ModelShards, EntryMaps
  <2> QED
    BY <1>3, <2>1, <2>3 DEF ReadyOf
<1>6. \A p : p \notin known => ReadyOf(shards, p, n) = {}
  BY <1>3 DEF ReadyOf
<1>7. \A p : ReadyOf(shards, p, n) \in SUBSET Auths
  BY <1>2, ReadyCounted
<1> HIDE DEF shards, Of
<1>8. UNION {Of(p) : p \in known} = Before(shards, list, Len(list) + 1, n)
  <2>1. ASSUME NEW p \in known, NEW a \in Of(p) PROVE a \in Before(shards, list, Len(list) + 1, n)
    <3>1. PICK j \in 1..Len(list) : list[j] = p
      BY <1>4, <2>1 DEF Range
    <3>2. a \in Auths /\ a \in ReadyOf(shards, list[j], n)
      BY <1>5, <1>7, <2>1, <3>1
    <3> QED
      BY <1>4, <3>2 DEF Before
  <2>2. ASSUME NEW a \in Before(shards, list, Len(list) + 1, n)
        PROVE  \E p \in known : a \in Of(p)
    <3>1. PICK j \in 1..Len(list) : a \in ReadyOf(shards, list[j], n)
      BY <1>4, <2>2 DEF Before
    <3>2. list[j] \in known
      BY <1>6, <3>1
    <3> QED
      BY <1>5, <3>1, <3>2
  <2> HIDE DEF known
  <2> QED
    BY <2>1, <2>2
<1>9. TurnsIn(map, request, n) = Cardinality(UNION {Of(p) : p \in known})
  BY DEF TurnsIn, Of
<1> HIDE DEF known
<1>10. SegmentStart(shards, list, Len(list) + 1, n) = Cardinality(Before(shards, list, Len(list) + 1, n))
  BY <1>1, <1>2, <1>4, SlotsNumbered
<1> QED
  BY <1>8, <1>9, <1>10 DEF shards

(* A cut that leaves room for one keeps one.                               *)
LEMMA OneKept ==
    ASSUME NEW a, NEW size \in Nat \ {0}
    PROVE  LastOf(<<a>>, size) = <<a>>
<1>1. Len(<<a>>) = 1 /\ 1 <= size
  OBVIOUS
<1> QED
  BY <1>1 DEF LastOf

----------------------------------------------------------------------------
(* The picks that serve in turn.                                           *)

(* Serving a keeps the rotation on record, or starts one.                  *)
Rotated(request, a) ==
    LET size == TurnsIn(providers', request, LevelIn(providers', authProviders', a))
    IN  /\ Rotates(request, LastOf(<<a>>, size), providers', mixedCursors')
        /\ \A auths : Rotates(request, auths, providers, mixedCursors)
                         /\ MembersIn(providers', request) = MembersIn(providers, request) =>
              Rotates(request, LastOf(Append(auths, a), size), providers', mixedCursors')

(* The shard of a provider, brought up to date, follows the stored one.    *)
LEMMA EnsuredFollows ==
    ASSUME NEW p, NEW m, Built(providers, p, m)
    PROVE  ShardFollows(ensureModelLocked(providers[p], m, now), providers[p].shards[m])
BY PromoteFollows DEF ensureModelLocked, Built

LEMMA SameArrangement ==
    ASSUME NEW new, NEW shard, NEW old, Arranged(new, shard), Arranged(new, old)
    PROVE  Arranged(shard, old)
BY DEF Arranged, SameTurns

LEMMA SingleRotated ==
    ASSUME IInv, IInv', NEW request \in Requests, Len(request.providers) = 1,
           strategy = "round-robin", NEW p, p = request.providers[1],
           PickSingle(p, request.model, None, {}, request.websocket), NEW a,
           a = PickedSingle(p, request.model, None, {}, request.websocket).auth, a # None
    PROVE  Rotated(request, a)
<1> DEFINE m == request.model
           shard == ensureModelLocked(providers[p], m, now)
           prefer == request.websocket /\ p = Codex
           n == highestReadyPriorityLocked(shard, prefer, Auths)
           picked == pickReadyAtPriorityLocked(shard, prefer, n, "round-robin", Auths)
           stored == providers'[p].shards[m]
           size == Len(ReadyViewOf(shard, prefer, n).flat)
<1>1. /\ p \in Providers /\ m \in ModelKeys /\ request.websocket \in BOOLEAN
      /\ Range(request.providers) = {p}
  BY Asked
<1>2. providers[p] # NoProvider
  BY DEF PickedSingle
<1>3. Allowed(None, {}) = Auths
  BY DEF Allowed
<1>4. prefer \in BOOLEAN /\ (request.websocket /\ p = Codex /\ None = None) = prefer
  OBVIOUS
<1>5. PickedSingle(p, m, None, {}, request.websocket)
         = SingleOutcome(p, m, pickReadyLocked(shard, prefer, Auths), Auths)
  BY <1>2, <1>3, <1>4 DEF PickedSingle
<1> HIDE DEF shard, prefer
<1>6. /\ pickReadyLocked(shard, prefer, Auths)
           = IF n = None THEN [auth |-> None, shard |-> shard] ELSE picked
  BY DEF pickReadyLocked
<1> HIDE DEF n, picked
<1>7. n # None /\ a = picked.auth /\ providers' = [providers EXCEPT ![p].shards[m] = picked.shard]
      /\ mixedCursors' = mixedCursors /\ authProviders' = authProviders
  <2>1. n # None
    BY <1>5, <1>6 DEF SingleOutcome
  <2> QED
    <3> DEFINE outcome == PickedSingle(p, m, None, {}, request.websocket)
    <3>1. outcome = SingleOutcome(p, m, picked, Auths)
      BY <1>5, <1>6, <2>1
    <3>2. /\ providers' = outcome.providers /\ a = outcome.auth
          /\ mixedCursors' = mixedCursors /\ authProviders' = authProviders
      BY DEF PickSingle
    <3> HIDE DEF outcome, m
    <3>3. /\ outcome.auth = picked.auth
          /\ outcome.providers = [providers EXCEPT ![p].shards[m] = picked.shard]
      BY <3>1 DEF SingleOutcome
    <3> QED
      BY <2>1, <3>2, <3>3 DEF m
<1>8. now \in Nat /\ GoodProvider(providers[p], now)
  BY <1>1, <1>2, NowIsNat DEF IInv, GoodProviders
<1>9. GoodIndexes(shard)
  BY <1>1, <1>8, Ensured DEF GoodShard, shard
<1>10. /\ GoodIndexes(picked.shard) /\ Arranged(picked.shard, shard)
       /\ picked.shard.entries = shard.entries
       /\ n \in Priorities /\ size \in Nat \ {0}
       /\ picked.auth \in Range(ReadyViewOf(shard, prefer, n).flat)
       /\ picked.auth \in Auths
       /\ SingleTrail(picked.shard, prefer, <<picked.auth>>)
       /\ \A auths : SingleTrail(shard, prefer, auths) =>
             SingleTrail(picked.shard, prefer, LastOf(Append(auths, picked.auth), size))
  BY <1>4, <1>7, <1>9, SingleMoves DEF n, picked
<1>11. /\ providers \in [Providers -> ProviderSchedulers \cup {None}]
       /\ providers[p] \in ProviderSchedulers
  BY <1>8 DEF IInv, GoodProviders, GoodProvider
<1>12. stored = picked.shard
  <2>1. providers'[p] = [providers[p] EXCEPT !.shards[m] = picked.shard]
    BY <1>1, <1>7, <1>11
  <2> QED
    BY <1>1, <1>11, <2>1 DEF ProviderSchedulers
<1>13. Built(providers', p, m)
  <2>1. stored # NoShard
    BY <1>10, <1>12, NoneIsNothing DEF GoodIndexes, NoShard
  <2>2. GoodProviders(providers', now)
    BY DEF IInv, PickSingle
  <2>3. providers'[p] # NoProvider
    <3>1. providers'[p] = [providers[p] EXCEPT !.shards[m] = picked.shard]
      BY <1>1, <1>7, <1>11
    <3>2. GoodShard(picked.shard, providers[p].auths, m, now)
      BY <1>1, <1>8, <1>10, Ensured DEF GoodShard, shard
    <3> QED
      BY <1>1, <1>8, <3>1, <3>2, ShardStored, ProviderTyped
  <2> QED
    BY <2>1, <2>3 DEF Built
<1>14. GoodProviders(providers', now') /\ Homes(providers', authProviders')
  BY DEF IInv
<1>15. TurnsIn(providers', request, LevelIn(providers', authProviders', a)) = size
  <2>1. a \in ReadyAt(shard.entries, n)
    <3>1. Range(ReadyViewOf(shard, prefer, n).flat) \in SUBSET ReadyAt(shard.entries, n)
      BY <1>9, <1>10, ViewFound
    <3> QED
      BY <1>7, <1>10, <3>1
  <2>2. a \in ReadyAt(stored.entries, n)
    BY <1>10, <1>12, <2>1
  <2>3. LevelIn(providers', authProviders', a) = n
    BY <1>1, <1>13, <1>14, <2>2, LevelFound
  <2>4. TurnsIn(providers', request, n) = Len(ReadyViewOf(stored, prefer, n).flat)
    BY <1>10, <1>13, <1>14, SingleTurns DEF prefer
  <2>5. ReadyViewOf(stored, prefer, n).flat = ReadyViewOf(shard, prefer, n).flat
    BY <1>10, <1>12 DEF Arranged, SameTurns, ReadyViewOf
  <2> QED
    BY <2>3, <2>4, <2>5
<1> HIDE DEF size, stored
<1>16. ASSUME NEW auths \in Seq(Auths), SingleTrail(picked.shard, prefer, auths)
       PROVE  Rotates(request, auths, providers', mixedCursors')
  BY <1>12, <1>13, <1>16 DEF Rotates, prefer, stored
<1>17. Rotates(request, LastOf(<<a>>, size), providers', mixedCursors')
  <2>1. <<a>> \in Seq(Auths) /\ LastOf(<<a>>, size) = <<a>>
    BY <1>7, <1>10, OneKept
  <2> QED
    BY <1>7, <1>10, <1>16, <2>1
<1>18. ASSUME NEW auths, Rotates(request, auths, providers, mixedCursors),
              MembersIn(providers', request) = MembersIn(providers, request)
       PROVE  Rotates(request, LastOf(Append(auths, a), size), providers', mixedCursors')
  <2> DEFINE old == providers[p].shards[m]
  <2>1. Built(providers, p, m) /\ SingleTrail(old, prefer, auths) /\ auths \in Seq(Auths)
    BY <1>18 DEF Rotates, prefer
  <2>2. GoodIndexes(old)
    BY <1>1, <1>8, <2>1 DEF GoodProvider, GoodShard, Built
  <2>3. ShardFollows(shard, old)
    BY <2>1, EnsuredFollows DEF shard
  <2>4. Arranged(shard, old)
    <3>1. /\ MembersIn(providers', request)[p] = Arrangement(stored.ready)
          /\ MembersIn(providers, request)[p] = Arrangement(old.ready)
      BY <1>1, <1>13, <2>1 DEF MembersIn, stored
    <3>2. Arranged(stored, old)
      BY <1>18, <3>1, ArrangementKept
    <3> QED
      BY <1>10, <1>12, <3>2, SameArrangement DEF stored
  <2> HIDE DEF old
  <2>5. SingleTrail(shard, prefer, auths)
    BY <2>1, <2>2, <2>3, <2>4, SingleKept
  <2>6. Append(auths, a) \in Seq(Auths)
    BY <1>7, <1>10, <2>1
  <2>7. LastOf(Append(auths, a), size) \in Seq(Auths)
    BY <1>10, <2>6, LastOnes DEF size
  <2> QED
    BY <1>7, <1>10, <1>16, <2>5, <2>7
<1> QED
  BY <1>15, <1>17, <1>18 DEF Rotated

(* What the pick leaves: the shards it looked at, the server's moved on.   *)
LEMMA MixedOutcomeIs ==
    ASSUME IInv, NEW list \in ProviderLists, NEW m \in ModelKeys, strategy = "round-robin",
           PickedMixed(list, m, {}).auth # None
    PROVE  LET outcome == PickedMixed(list, m, {})
               shards  == MixedShards(list, m)
               n       == BestLevel(shards, Auths)
               start   == StartSlot(shards, list, m, n)
           IN  /\ n # None /\ outcome.auth = ServedBy(shards, list, m, n).auth
               /\ outcome.providers = StoreShards(LeftBy(shards, list, m, n), m)
               /\ outcome.cursors = [mixedCursors EXCEPT ![<<list, m>>] = start + 1]
<1> DEFINE outcome == PickedMixed(list, m, {})
           shards == MixedShards(list, m)
           n == BestLevel(shards, Auths)
           start == StartSlot(shards, list, m, n)
           i == Segment(shards, list, n, start)
           server == list[i]
           picked == pickReadyAtPriorityLocked(shards[server], FALSE, n, "round-robin", Auths)
           stored == [shards EXCEPT ![server] = picked.shard]
<1>1. /\ DOMAIN shards = {p \in Range(list) : providers[p] # NoProvider}
      /\ GoodShards(shards)
  BY MixedShardsGood
<1>2. outcome = PickedFrom(list, m, shards, Auths, n)
  <2>1. Auths \ {} = Auths
    OBVIOUS
  <2> QED
    BY <2>1 DEF PickedMixed
<1> HIDE DEF shards, outcome
<1>3. n # None
  <2> HIDE DEF n
  <2> QED
    BY <1>2 DEF PickedFrom, outcome
<1>4. Serving(shards, list, m, Auths, n) = i
  <2>1. CursorsTyped(mixedCursors) /\ DOMAIN shards \subseteq Range(list)
    BY <1>1 DEF IInv
  <2> QED
    BY <1>1, <1>3, <2>1, SlotServed
<1> HIDE DEF n
<1>5. outcome = PickedAt(list, m, shards, Auths, n, i)
  BY <1>2, <1>3, <1>4 DEF PickedFrom
<1>6. pickReadyAtPriorityLocked(shards[list[i]], FALSE, n, strategy, Auths) = picked
  OBVIOUS
<1> HIDE DEF i, picked
<1>7. outcome = MixedOutcome(list, m, shards, n, i, picked)
  BY <1>5, <1>6 DEF PickedAt
<1>8. strategy # "fill-first"
  OBVIOUS
<1>9. i = Segment(shards, list, n, StartSlot(shards, list, m, n))
  BY DEF i
<1>10. outcome = [auth |-> picked.auth, providers |-> StoreShards(stored, m),
                  cursors |-> [mixedCursors EXCEPT ![<<list, m>>] = start + 1], error |-> Found]
  BY <1>7, <1>8, <1>9 DEF MixedOutcome, NextSlot
<1> HIDE DEF stored, start
<1>11. /\ outcome.auth = picked.auth /\ outcome.providers = StoreShards(stored, m)
       /\ outcome.cursors = [mixedCursors EXCEPT ![<<list, m>>] = start + 1]
  BY <1>10
<1> QED
  BY <1>3, <1>11 DEF outcome, shards, n, start, i, picked, stored, Server, ServedBy, LeftBy

(* The map that such a pick leaves has those shards.                       *)
LEMMA StoredAgain ==
    ASSUME IInv, NEW list \in ProviderLists, NEW m \in ModelKeys, NEW stored,
           stored = [p \in DOMAIN stored |-> stored[p]],
           DOMAIN stored = {p \in Range(list) : providers[p] # NoProvider},
           \A p \in DOMAIN stored : GoodShard(stored[p], providers[p].auths, m, now)
    PROVE  StoredShards(StoreShards(stored, m), list, m) = stored
<1> DEFINE new == StoreShards(stored, m)
<1>1. Range(list) \subseteq Providers
  <2>1. list \in Seq(Providers)
    BY SchedulerConstants
  <2> QED
    BY <2>1 DEF Range
<1>2. now \in Nat
  BY NowIsNat
<1>3. ASSUME NEW p \in Range(list), p \in DOMAIN stored
      PROVE  Built(new, p, m) /\ new[p].shards[m] = stored[p]
  <2>1. new[p] = [providers[p] EXCEPT !.shards[m] = stored[p]]
    BY <1>1, <1>3 DEF StoreShards
  <2>2. GoodProvider(providers[p], now) /\ GoodShard(stored[p], providers[p].auths, m, now)
    BY <1>1, <1>3 DEF IInv, GoodProviders
  <2> HIDE DEF new
  <2>3. new[p].shards[m] = stored[p]
    BY <2>1, <2>2 DEF GoodProvider, ProviderSchedulers
  <2>4. new[p] # NoProvider
    BY <1>2, <2>1, <2>2, ShardStored, ProviderTyped
  <2>5. stored[p] # NoShard
    BY <2>2, NoneIsNothing DEF GoodShard, GoodIndexes, NoShard
  <2> QED
    BY <2>3, <2>4, <2>5 DEF Built
<1>4. ASSUME NEW p \in Range(list), p \notin DOMAIN stored
      PROVE  ~ Built(new, p, m)
  <2>1. new[p] = providers[p]
    BY <1>1, <1>4 DEF StoreShards
  <2> HIDE DEF new
  <2> QED
    BY <1>4, <2>1 DEF Built
<1> HIDE DEF new
<1>5. {q \in Range(list) : Built(new, q, m)} = DOMAIN stored
  BY <1>3, <1>4
<1>6. StoredShards(new, list, m) = [p \in DOMAIN stored |-> stored[p]]
  BY <1>3, <1>5 DEF StoredShards
<1> QED
  BY <1>6 DEF new

LEMMA MixedRotated ==
    ASSUME IInv, IInv', NEW request \in Requests, NEW list, list = request.providers,
           Len(list) # 1, strategy = "round-robin",
           PickMixed(list, request.model, {}), NEW a,
           a = PickedMixed(list, request.model, {}).auth, a # None
    PROVE  Rotated(request, a)
<1> DEFINE m == request.model
           outcome == PickedMixed(list, m, {})
           shards == MixedShards(list, m)
           n == BestLevel(shards, Auths)
           total == SegmentStart(shards, list, Len(list) + 1, n)
           cursor == mixedCursors[<<list, m>>]
           start == StartSlot(shards, list, m, n)
           server == Server(shards, list, m, n)
           picked == ServedBy(shards, list, m, n)
           stored == LeftBy(shards, list, m, n)
           next == start + 1
<1>1. list \in ProviderLists /\ m \in ModelKeys
  BY Asked
<1>2. /\ n # None /\ a = picked.auth /\ outcome.providers = StoreShards(stored, m)
      /\ outcome.cursors = [mixedCursors EXCEPT ![<<list, m>>] = next]
  BY <1>1, MixedOutcomeIs
<1>3. /\ providers' = outcome.providers /\ mixedCursors' = outcome.cursors
      /\ authProviders' = authProviders /\ now' = now
  BY DEF PickMixed
<1> HIDE DEF outcome
<1>4. /\ DOMAIN shards = {p \in Range(list) : providers[p] # NoProvider}
      /\ GoodShards(shards)
      /\ \A p \in DOMAIN shards :
            /\ p \in Providers
            /\ shards[p] = ensureModelLocked(providers[p], m, now)
            /\ GoodShard(shards[p], providers[p].auths, m, now)
  BY <1>1, MixedShardsGood
<1>5. shards = [p \in DOMAIN shards |-> shards[p]]
  BY DEF MixedShards
<1> HIDE DEF shards
<1>6. CursorsTyped(mixedCursors) /\ DOMAIN shards \subseteq Range(list)
  BY <1>4 DEF IInv
<1>7. n \in Priorities /\ total \in Nat \ {0}
  BY <1>1, <1>2, <1>4, <1>6, SlotServed
<1>8. /\ server \in DOMAIN shards
      /\ GoodIndexes(picked.shard) /\ picked.shard.entries = shards[server].entries
      /\ GoodShards(stored) /\ ShardsArranged(stored, shards)
      /\ picked.auth \in ReadyAt(shards[server].entries, n) /\ picked.auth \in Auths
      /\ MixedTrail(stored, list, next, <<picked.auth>>)
      /\ \A auths : MixedTrail(shards, list, cursor, auths) =>
            MixedTrail(stored, list, next, LastOf(Append(auths, picked.auth), total))
  <2>1. MixedTurn(shards, list, m, n, next)
    BY <1>1, <1>2, <1>4, <1>6, MixedMoves
  <2> HIDE DEF n, m, next
  <2> QED
    BY <2>1 DEF MixedTurn
<1>10. /\ stored = [p \in DOMAIN stored |-> stored[p]] /\ DOMAIN stored = DOMAIN shards
       /\ \A p \in DOMAIN shards : stored[p] = IF p = server THEN picked.shard ELSE shards[p]
  BY <1>5, <1>8 DEF stored, LeftBy, server, picked
<1>11. SegmentStart(stored, list, Len(list) + 1, n) = total
  <2>1. Len(list) + 1 \in 1..(Len(list) + 1)
    BY <1>1, SchedulerConstants
  <2> HIDE DEF n, stored
  <2> QED
    BY <1>1, <1>4, <1>7, <1>8, <2>1, SegmentsKept DEF total
<1> HIDE DEF stored, picked, server, start, next, total, n
<1>12. \A p \in DOMAIN shards : /\ stored[p].entries = shards[p].entries
                                /\ GoodShard(stored[p], providers[p].auths, m, now)
  BY <1>4, <1>8, <1>10 DEF GoodShard
<1>13. StoredShards(providers', list, m) = stored
  <2>1. StoredShards(StoreShards(stored, m), list, m) = stored
    BY <1>1, <1>4, <1>10, <1>12, StoredAgain
  <2> QED
    BY <1>2, <1>3, <2>1
<1>14. DOMAIN stored = {p \in Range(list) : Built(providers', p, m)}
       /\ \A p \in DOMAIN stored : stored[p] = providers'[p].shards[m]
  BY <1>13 DEF StoredShards
<1>15. mixedCursors'[<<list, m>>] = next
  BY <1>1, <1>2, <1>3, <1>6 DEF CursorsTyped
<1>16. GoodProviders(providers', now') /\ Homes(providers', authProviders')
  BY DEF IInv
<1>17. TurnsIn(providers', request, LevelIn(providers', authProviders', a)) = total
  <2>1. Built(providers', server, m) /\ a \in ReadyAt(providers'[server].shards[m].entries, n)
        /\ server \in Providers
    BY <1>2, <1>4, <1>8, <1>10, <1>12, <1>14
  <2>2. LevelIn(providers', authProviders', a) = n
    BY <1>1, <1>16, <2>1, LevelFound
  <2>3. TurnsIn(providers', request, n)
           = SegmentStart(StoredShards(providers', list, m), list, Len(list) + 1, n)
    BY <1>7, <1>16, MixedTurns
  <2> QED
    BY <1>11, <1>13, <2>2, <2>3
<1>18. ASSUME NEW auths \in Seq(Auths), MixedTrail(stored, list, next, auths)
       PROVE  Rotates(request, auths, providers', mixedCursors')
  BY <1>13, <1>15, <1>18 DEF Rotates
<1>19. Rotates(request, LastOf(<<a>>, total), providers', mixedCursors')
  <2>1. <<a>> \in Seq(Auths) /\ LastOf(<<a>>, total) = <<a>>
    BY <1>2, <1>7, <1>8, OneKept
  <2> QED
    BY <1>2, <1>8, <1>18, <2>1
<1>20. ASSUME NEW auths, Rotates(request, auths, providers, mixedCursors),
              MembersIn(providers', request) = MembersIn(providers, request)
       PROVE  Rotates(request, LastOf(Append(auths, a), total), providers', mixedCursors')
  <2> DEFINE old == StoredShards(providers, list, m)
             Of(map) == {p \in Range(list) : Built(map, p, m)}
  <2>1. MixedTrail(old, list, cursor, auths) /\ auths \in Seq(Auths)
    BY <1>20 DEF Rotates
  <2>2. GoodShards(old)
    BY <1>1, StoredGood DEF IInv
  <2>3. /\ DOMAIN old = Of(providers)
        /\ \A p \in Of(providers) : old[p] = providers[p].shards[m]
    BY DEF StoredShards
  <2>4. Of(providers) = DOMAIN stored
    <3>1. \A map : DOMAIN MembersIn(map, request) = Of(map)
      BY DEF MembersIn
    <3>2. Of(providers') = Of(providers)
      BY <1>20, <3>1
    <3> QED
      BY <1>14, <3>2
  <2>5. ASSUME NEW p \in DOMAIN old
        PROVE  Arranged(shards[p], old[p]) /\ ShardFollows(shards[p], old[p])
    <3>1. Arranged(stored[p], shards[p])
      BY <1>8, <1>10, <2>3, <2>4 DEF ShardsArranged
    <3>2. /\ MembersIn(providers', request)[p] = Arrangement(stored[p].ready)
          /\ MembersIn(providers, request)[p] = Arrangement(old[p].ready)
      BY <1>14, <2>3, <2>4 DEF MembersIn
    <3>3. Arranged(stored[p], old[p])
      BY <1>20, <3>2, ArrangementKept
    <3>4. Arranged(shards[p], old[p])
      BY <3>1, <3>3, SameArrangement
    <3>5. ShardFollows(shards[p], old[p])
      BY <1>4, <1>10, <2>3, <2>4, EnsuredFollows
    <3> QED
      BY <3>4, <3>5
  <2>6. ShardsArranged(shards, old) /\ ShardsFollow(shards, old)
    BY <1>10, <2>3, <2>4, <2>5 DEF ShardsArranged, ShardsFollow
  <2> HIDE DEF old, cursor
  <2>7. MixedTrail(shards, list, cursor, auths)
    BY <1>1, <1>4, <2>1, <2>2, <2>6, MixedKept
  <2>8. Append(auths, a) \in Seq(Auths)
    BY <1>2, <1>8, <2>1
  <2>9. LastOf(Append(auths, a), total) \in Seq(Auths)
    BY <1>7, <2>8, LastOnes
  <2> QED
    BY <1>2, <1>8, <1>18, <2>7, <2>9
<1> QED
  BY <1>17, <1>19, <1>20 DEF Rotated

----------------------------------------------------------------------------
(* The inductive invariant of the record: while it lasts, the members are  *)
(* those that are there, and the auths were served in turn up to where the *)
(* cursors stand.                                                          *)

RotationInv ==
    served.auths # <<>> =>
       /\ served.members = MembersIn(providers, served.request)
       /\ Rotates(served.request, served.auths, providers, mixedCursors)

LEMMA NoneOnRecord == ASSUME served' = NoRotation PROVE RotationInv'
BY DEF NoRotation, RotationInv

LEMMA ServeKeepsRotation ==
    ASSUME RotationInv, NEW request \in Requests, NEW a, Rotated(request, a), Serve(request, a)
    PROVE  RotationInv'
<1> DEFINE size == TurnsIn(providers', request, LevelIn(providers', authProviders', a))
           members == MembersIn(providers', request)
           goesOn == served.request = request /\ served.members = members
           auths == IF goesOn THEN Append(served.auths, a) ELSE <<a>>
<1>1. /\ Members(request)' = members
      /\ Turns(request, Level(request, a))' = size
  BY RecordReadNext
<1>2. served' = [request |-> request, members |-> members, auths |-> LastOf(auths, size)]
  BY <1>1 DEF Serve
<1>3. /\ Rotates(request, LastOf(<<a>>, size), providers', mixedCursors')
      /\ \A seq : Rotates(request, seq, providers, mixedCursors)
                     /\ members = MembersIn(providers, request) =>
            Rotates(request, LastOf(Append(seq, a), size), providers', mixedCursors')
  BY DEF Rotated
<1> HIDE DEF size, members
<1>4. Rotates(request, LastOf(auths, size), providers', mixedCursors')
  <2>1. CASE goesOn /\ served.auths # <<>>
    BY <1>3, <2>1 DEF RotationInv
  <2>2. CASE goesOn /\ served.auths = <<>>
    <3>1. auths = <<a>>
      BY <2>2
    <3> QED
      BY <1>3, <3>1
  <2>3. CASE ~ goesOn
    BY <1>3, <2>3
  <2> QED
    BY <2>1, <2>2, <2>3
<1> HIDE DEF auths
<1>5. /\ served'.request = request /\ served'.members = members
      /\ served'.auths = LastOf(auths, size)
  BY <1>2
<1> QED
  BY <1>4, <1>5 DEF RotationInv, members

LEMMA PickKeepsRotation ==
    ASSUME IInv, IInv', RotationInv, RotatingPick PROVE RotationInv'
<1>1. PICK request \in Requests : \E a \in {Unfiltered(request)} :
         /\ LET list == request.providers
            IN  IF Len(list) = 1
                THEN PickSingle(list[1], request.model, None, {}, request.websocket)
                ELSE PickMixed(list, request.model, {})
         /\ IF a = None \/ strategy # "round-robin"
            THEN served' = NoRotation ELSE Serve(request, a)
  BY DEF RotatingPick
<1> DEFINE list == request.providers
<1>2. PICK a : /\ a = Unfiltered(request)
               /\ IF Len(list) = 1
                  THEN PickSingle(list[1], request.model, None, {}, request.websocket)
                  ELSE PickMixed(list, request.model, {})
               /\ IF a = None \/ strategy # "round-robin"
                  THEN served' = NoRotation ELSE Serve(request, a)
  BY <1>1
<1>3. CASE a = None \/ strategy # "round-robin"
  BY <1>2, <1>3, NoneOnRecord
<1>4. CASE ~ (a = None \/ strategy # "round-robin")
  <2>1. Serve(request, a)
    BY <1>2, <1>4
  <2>2. Rotated(request, a)
    <3>1. CASE Len(list) = 1
      <4>1. /\ a = PickedSingle(list[1], request.model, None, {}, request.websocket).auth
            /\ PickSingle(list[1], request.model, None, {}, request.websocket)
        BY <1>2, <3>1 DEF Unfiltered
      <4> QED
        BY <1>4, <3>1, <4>1, SingleRotated
    <3>2. CASE Len(list) # 1
      <4>1. /\ a = PickedMixed(list, request.model, {}).auth
            /\ PickMixed(list, request.model, {})
        BY <1>2, <3>2 DEF Unfiltered
      <4> QED
        BY <1>4, <3>2, <4>1, MixedRotated
    <3> QED
      BY <3>1, <3>2
  <2> QED
    BY <2>1, <2>2, ServeKeepsRotation
<1> QED
  BY <1>3, <1>4

LEMMA KeepKeepsRotation ==
    ASSUME IInv, IInv', RotationInv, Keep, MapFollows(providers', providers),
           mixedCursors' = mixedCursors
    PROVE  RotationInv'
<1>1. PICK request : /\ request = served.request
                     /\ served' = IF served.auths # <<>> /\ Members(request)' # served.members
                                  THEN NoRotation ELSE served
  BY DEF Keep
<1>2. CASE served.auths = <<>>
  BY <1>1, <1>2 DEF RotationInv
<1>3. CASE served.auths # <<>> /\ Members(request)' # served.members
  BY <1>1, <1>3, NoneOnRecord
<1>4. CASE served.auths # <<>> /\ Members(request)' = served.members
  <2>1. served' = served
    BY <1>1, <1>4
  <2>2. /\ served.members = MembersIn(providers, request)
        /\ Rotates(request, served.auths, providers, mixedCursors)
    BY <1>1, <1>4 DEF RotationInv
  <2>3. request \in Requests
    BY <2>2 DEF Rotates
  <2>4. MembersIn(providers', request) = MembersIn(providers, request)
    BY <1>4, <2>2, <2>3, RecordReadNext
  <2>5. Rotates(request, served.auths, providers', mixedCursors)
    BY <2>2, <2>4, RotationKept DEF IInv
  <2> QED
    BY <1>1, <2>1, <2>2, <2>4, <2>5 DEF RotationInv
<1> QED
  BY <1>2, <1>3, <1>4

LEMMA StepKeepsRotation ==
    ASSUME IInv, IInv', RotationInv, [RotationNext]_rotationVars PROVE RotationInv'
<1>1. CASE RotatingPick
  BY <1>1, PickKeepsRotation
<1>2. CASE FilteredPick
  <2>1. served' = NoRotation
    BY <1>2 DEF FilteredPick
  <2> QED
    BY <2>1, NoneOnRecord
<1>3. CASE \E a \in Auths : (UpsertAuth(a) \/ RemoveAuth(a)) /\ Keep
  <2>1. (\E a \in Auths : UpsertAuth(a) \/ RemoveAuth(a)) /\ Keep
    BY <1>3
  <2>2. MapFollows(providers', providers) /\ mixedCursors' = mixedCursors
    BY <2>1, StepFollows
  <2> QED
    BY <2>1, <2>2, KeepKeepsRotation
<1>4. CASE (Rebuild \/ \E s \in Strategies : SetSelector(s)) /\ served' = NoRotation
  BY <1>4, NoneOnRecord
<1>5. CASE Environment /\ Keep
  <2>1. MapFollows(providers', providers) /\ mixedCursors' = mixedCursors
    BY <1>5, StepFollows
  <2> QED
    BY <1>5, <2>1, KeepKeepsRotation
<1>6. CASE UNCHANGED rotationVars
  <2>1. providers' = providers /\ mixedCursors' = mixedCursors /\ served' = served
    BY <1>6 DEF rotationVars, vars
  <2> QED
    BY <2>1 DEF RotationInv
<1> QED
  BY <1>1, <1>2, <1>3, <1>4, <1>5, <1>6 DEF RotationNext

LEMMA RotationInvariant == RotationSpec => [](IInv /\ RotationInv)
<1>1. RotationInit => RotationInv
  BY DEF RotationInit, NoRotation, RotationInv
<1>2. IInv /\ IInv' /\ RotationInv /\ [RotationNext]_rotationVars => RotationInv'
  BY StepKeepsRotation
<1>3. RotationSpec => []IInv
  BY RotationRefines, Invariant, PTL
<1> QED
  BY <1>1, <1>2, <1>3, PTL DEF RotationSpec

----------------------------------------------------------------------------
(* What the invariant says of a rotation over one provider.                *)

LEMMA SingleDistinct ==
    ASSUME NEW shard, GoodIndexes(shard), NEW prefer, NEW auths,
           SingleTrail(shard, prefer, auths)
    PROVE  LET n     == highestReadyPriorityLocked(shard, prefer, Auths)
               view  == ReadyViewOf(shard, prefer, n)
               last  == LastOf(auths, Len(view.parentOrder))
           IN  /\ view.parentOrder = <<>> => Distinct(auths)
               /\ view.parentOrder # <<>> =>
                     Distinct([i \in DOMAIN last |-> Group(shard.entries, last[i])])
<1> DEFINE n == highestReadyPriorityLocked(shard, prefer, Auths)
           view == ReadyViewOf(shard, prefer, n)
           entries == shard.entries
           S == Range(view.flat)
           cursor == RingCursor(view)
<1>1. /\ n \in Priorities /\ auths \in Seq(S) /\ Len(auths) <= Len(view.flat)
      /\ Trail(auths, RingSize(view), Ring(view), cursor)
  BY DEF SingleTrail
<1>2. entries \in EntryMaps /\ S \in SUBSET Present(entries) /\ GoodView(view, entries, S)
  <2> HIDE DEF n
  <2> QED
    BY <1>1, ViewFound
<1>3. RingSize(view) \in Nat /\ cursor \in 0..RingSize(view)
  <2> HIDE DEF n
  <2> QED
    BY <1>1, RingTyped
<1> HIDE DEF view, n
<1>4. /\ S \in SUBSET Auths
      /\ \A i, j \in 1..Len(view.flat) : view.flat[i] = view.flat[j] => i = j
  <2> HIDE DEF S, entries
  <2> QED
    BY <1>2, ViewGrouped
<1>5. ASSUME view.parentOrder # <<>>
      PROVE  /\ IsGrouped(entries, S)
             /\ \A i, j \in 1..Len(view.parentOrder) :
                   view.parentOrder[i] = view.parentOrder[j] => i = j
  BY <1>2, <1>5, ViewGrouped
<1>6. ASSUME view.parentOrder = <<>> PROVE Distinct(auths)
  <2>1. RingSize(view) = Len(view.flat) /\ Ring(view) = [x \in 1..Len(view.flat) |-> {view.flat[x]}]
    BY <1>6 DEF RingSize, Ring
  <2> DEFINE W == Ring(view)
             size == Len(view.flat)
  <2>2. \A x, y \in 1..size : x # y => W[x] \cap W[y] = {}
    BY <1>4, <2>1
  <2>3. size \in Nat /\ cursor \in 0..size /\ Trail(auths, size, W, cursor) /\ Len(auths) <= size
    BY <1>1, <1>3, <2>1
  <2> HIDE DEF W, size, cursor, S
  <2> QED
    BY <1>1, <2>2, <2>3, TrailDistinct
<1>7. ASSUME view.parentOrder # <<>>
      PROVE  LET last == LastOf(auths, Len(view.parentOrder))
             IN  Distinct([i \in DOMAIN last |-> Group(entries, last[i])])
  <2> DEFINE order == view.parentOrder
             size == Len(order)
             last == LastOf(auths, size)
             parents == [i \in DOMAIN last |-> Group(entries, last[i])]
             W == [x \in 1..size |-> {order[x]}]
  <2>1. /\ RingSize(view) = size /\ Ring(view) = [x \in 1..size |-> Range(view.items[order[x]])]
    BY <1>7 DEF RingSize, Ring
  <2>2. IsGrouped(entries, S) /\ Groups(entries, S) \in SUBSET Parents /\ Len(order) > 1
    BY <1>2, <1>7, ViewGrouped
  <2>3. order \in Seq(Parents) /\ size \in Nat \ {0}
    <3>1. order = GroupOrder(entries, S)
      BY <1>2 DEF GoodView, Shows
    <3>2. order \in Seq(Parents)
      BY <1>2, <1>4, <2>2, <3>1, GroupsTyped
    <3> QED
      BY <2>2, <3>2
  <2>4. ASSUME NEW x \in 1..size, NEW a \in Range(view.items[order[x]])
        PROVE  Group(entries, a) = order[x]
    <3>1. order[x] \in Parents
      BY <2>3
    <3>2. view.items[order[x]] = IDs(InGroup(entries, S, order[x]))
      BY <1>2, <2>2, <3>1 DEF GoodView, Shows, GroupItems
    <3>3. InGroup(entries, S, order[x]) \in SUBSET Auths
      BY <1>4 DEF InGroup
    <3>4. a \in InGroup(entries, S, order[x])
      BY <2>4, <3>2, <3>3, SomeIDs
    <3> QED
      BY <3>4 DEF InGroup
  <2>5. /\ last \in Seq(S) /\ Len(last) <= size
        /\ \A d \in 0..(Len(last) - 1) : d < Len(auths) /\ last[Len(last) - d] = auths[Len(auths) - d]
    <3>1. /\ last \in Seq(S)
          /\ Len(last) = IF Len(auths) <= size THEN Len(auths) ELSE size
          /\ \A d \in 0..(Len(last) - 1) : last[Len(last) - d] = auths[Len(auths) - d]
      <4> HIDE DEF S, size
      <4> QED
        BY <1>1, <2>3, LastOnes
    <3> HIDE DEF last
    <3>2. Len(auths) \in Nat /\ size \in Nat
      BY <1>1, <2>3
    <3> QED
      BY <3>1, <3>2
  <2> HIDE DEF last
  <2>6. parents \in Seq(Parents) /\ Len(parents) = Len(last) /\ Len(last) \in Nat
        /\ \A i \in 1..Len(last) : parents[i] = Group(entries, last[i])
    <3>1. Len(last) \in Nat /\ DOMAIN last = 1..Len(last) /\ \A i \in 1..Len(last) : last[i] \in S
      BY <2>5
    <3>2. \A a \in S : Group(entries, a) \in Parents
      BY <2>2 DEF Groups
    <3> HIDE DEF S
    <3> QED
      BY <3>1, <3>2
  <2>7. Trail(parents, size, W, cursor)
    <3> SUFFICES ASSUME NEW d \in 0..(size - 1), d < Len(parents)
                 PROVE  parents[Len(parents) - d] \in W[Behind(cursor, d, size)]
      BY DEF Trail
    <3>1. d \in 0..(Len(last) - 1) /\ Len(last) - d \in 1..Len(last)
      BY <2>3, <2>6
    <3> DEFINE x == Behind(cursor, d, size)
    <3>2. x \in 1..size
      <4>1. cursor \in 0..size /\ size \in Nat \ {0}
        BY <1>3, <2>1, <2>3
      <4> HIDE DEF cursor, size
      <4> QED
        BY <4>1, BehindMoves
    <3>3. auths[Len(auths) - d] \in Ring(view)[x]
      BY <1>1, <2>1, <2>5, <3>1 DEF Trail
    <3>4. last[Len(last) - d] \in Range(view.items[order[x]])
      BY <2>1, <2>5, <3>1, <3>2, <3>3
    <3> HIDE DEF x
    <3>5. Group(entries, last[Len(last) - d]) = order[x]
      BY <2>4, <3>2, <3>4
    <3>6. parents[Len(parents) - d] = order[x]
      <4> HIDE DEF parents
      <4> QED
        BY <2>6, <3>1, <3>5
    <3>7. W[x] = {order[x]}
      BY <3>2
    <3> QED
      BY <3>6, <3>7 DEF x
  <2>8. \A x, y \in 1..size : x # y => W[x] \cap W[y] = {}
    BY <1>7, <1>5
  <2>9. Distinct(parents)
    <3>1. Len(parents) <= size /\ cursor \in 0..size /\ size \in Nat
      BY <1>3, <2>1, <2>3, <2>5, <2>6
    <3> HIDE DEF parents, W, cursor, size
    <3> QED
      BY <2>6, <2>7, <2>8, <3>1, TrailDistinct
  <2> QED
    BY <2>9 DEF last
<1> QED
  BY <1>6, <1>7 DEF view, n

----------------------------------------------------------------------------
(* Whose slots are whose.                                                  *)

SlotOf(shards, list, n, cursor, x) ==
    LET i     == Segment(shards, list, n, x - 1)
        start == SegmentStart(shards, list, i, n)
        view  == shards[list[i]].ready[n].all
        size  == Len(view.flat)
        place == Place(view.cursor, x - start, Passed(cursor, start, size), size)
    IN  /\ i \in 1..Len(list) /\ list[i] \in DOMAIN shards
        /\ start \in Nat /\ size \in Nat \ {0} /\ x - start \in 1..size
        /\ view.cursor \in 0..size /\ Passed(cursor, start, size) \in 0..size
        /\ place \in 1..size
        /\ \A p, q \in 1..size : view.flat[p] = view.flat[q] => p = q
        /\ SlotAuth(shards, list, n, cursor, x) \subseteq ReadyAt(shards[list[i]].entries, n)
        /\ view.parentOrder = <<>> =>
              SlotAuth(shards, list, n, cursor, x) = {view.flat[place]}

LEMMA SlotOwned ==
    ASSUME NEW shards, GoodShards(shards), NEW n \in Priorities, NEW list \in ProviderLists,
           NEW cursor \in Nat, NEW x \in 1..SegmentStart(shards, list, Len(list) + 1, n)
    PROVE  SlotOf(shards, list, n, cursor, x)
<1> DEFINE i == Segment(shards, list, n, x - 1)
           start == SegmentStart(shards, list, i, n)
           view == shards[list[i]].ready[n].all
           entries == shards[list[i]].entries
           size == Len(view.flat)
           passed == Passed(cursor, start, size)
           place == Place(view.cursor, x - start, passed, size)
<1>1. SegmentStart(shards, list, Len(list) + 1, n) \in Nat
  BY TotalTyped
<1>2. x - 1 \in Nat /\ x - 1 < SegmentStart(shards, list, Len(list) + 1, n) /\ x \in Nat
  BY <1>1
<1>3. /\ i \in 1..Len(list) /\ list[i] \in DOMAIN shards
      /\ start \in Nat /\ size \in Nat \ {0}
      /\ start <= x - 1 /\ x - 1 < start + size
      /\ GoodView(view, entries, ReadyAt(entries, n))
      /\ view.cursor \in 0..size
  <2> DEFINE slot == x - 1
  <2>1. slot \in Nat /\ slot < SegmentStart(shards, list, Len(list) + 1, n)
    BY <1>2
  <2> HIDE DEF slot
  <2>2. SegmentOf(shards, list, n, slot)
    BY <2>1, SlotFound
  <2> QED
    BY <2>2 DEF SegmentOf, slot
<1>4. entries \in EntryMaps /\ ReadyAt(entries, n) \in SUBSET Present(entries)
  BY <1>3, ReadyPresent DEF GoodShards, GoodIndexes, ModelShards, EntryMaps
<1>5. SlotAuth(shards, list, n, cursor, x)
         = IF view.parentOrder # <<>> THEN Range(view.flat) ELSE {view.flat[place]}
  BY DEF SlotAuth
<1> HIDE DEF i, start
<1>6. /\ Range(view.flat) = ReadyAt(entries, n) /\ view.flat \in Seq(Auths)
      /\ \A p, q \in 1..Len(view.flat) : view.flat[p] = view.flat[q] => p = q
  <2> HIDE DEF view, entries
  <2> QED
    BY <1>3, <1>4, ViewGrouped
<1> HIDE DEF view, entries
<1>7. x - start \in 1..size
  <2> HIDE DEF size
  <2> QED
    BY <1>2, <1>3
<1> HIDE DEF size
<1>8. passed \in 0..size
  BY <1>3, PassedTyped
<1> HIDE DEF passed
<1>9. place \in 1..size
  <2> DEFINE y == x - start
  <2>1. y \in 1..size
    BY <1>7
  <2> HIDE DEF y
  <2>2. Place(view.cursor, y, passed, size) \in 1..size
    BY <1>3, <1>8, <2>1, PlaceTyped
  <2> QED
    BY <2>2 DEF y
<1> HIDE DEF place
<1>10. view.flat[place] \in Range(view.flat)
  BY <1>6, <1>9 DEF Range, size
<1>11. SlotAuth(shards, list, n, cursor, x) \subseteq ReadyAt(entries, n)
  BY <1>5, <1>6, <1>10
<1> QED
  BY <1>3, <1>5, <1>6, <1>7, <1>8, <1>9, <1>11 
     DEF SlotOf, i, start, view, entries, size, passed, place

(* Where no auths are grouped, different slots are of different auths.     *)
LEMMA SlotsApart ==
    ASSUME NEW shards, GoodShards(shards), NEW n \in Priorities, NEW list \in ProviderLists,
           NEW cursor \in Nat,
           \A p \in DOMAIN shards : shards[p].ready[n].all.parentOrder = <<>>,
           NEW x \in 1..SegmentStart(shards, list, Len(list) + 1, n),
           NEW y \in 1..SegmentStart(shards, list, Len(list) + 1, n), x # y
    PROVE  SlotAuth(shards, list, n, cursor, x) \cap SlotAuth(shards, list, n, cursor, y) = {}
<1> DEFINE i == Segment(shards, list, n, x - 1)
           j == Segment(shards, list, n, y - 1)
           start == SegmentStart(shards, list, i, n)
           view == shards[list[i]].ready[n].all
           size == Len(view.flat)
           passed == Passed(cursor, start, size)
<1> SUFFICES ASSUME NEW a \in SlotAuth(shards, list, n, cursor, x),
                    a \in SlotAuth(shards, list, n, cursor, y)
             PROVE  FALSE
  OBVIOUS
<1>1. x \in Nat /\ y \in Nat
  BY TotalTyped
<1>2. SlotOf(shards, list, n, cursor, x) /\ SlotOf(shards, list, n, cursor, y)
  BY SlotOwned
<1>3. /\ i \in 1..Len(list) /\ list[i] \in DOMAIN shards
      /\ start \in Nat /\ size \in Nat \ {0} /\ x - start \in 1..size
      /\ view.cursor \in 0..size /\ passed \in 0..size
      /\ Place(view.cursor, x - start, passed, size) \in 1..size
      /\ \A p, q \in 1..size : view.flat[p] = view.flat[q] => p = q
      /\ SlotAuth(shards, list, n, cursor, x) \subseteq ReadyAt(shards[list[i]].entries, n)
      /\ view.parentOrder = <<>> => SlotAuth(shards, list, n, cursor, x)
            = {view.flat[Place(view.cursor, x - start, passed, size)]}
  BY <1>2 DEF SlotOf
<1>4. j \in 1..Len(list) /\ list[j] \in DOMAIN shards /\ a \in ReadyAt(shards[list[j]].entries, n)
  BY <1>2 DEF SlotOf
<1>5. j = i
  <2>1. a \in Present(shards[list[i]].entries) /\ a \in Present(shards[list[j]].entries)
    BY <1>3, <1>4, ReadyPresent
  <2>2. list[i] = list[j]
    <3> HIDE DEF i, j
    <3> QED
      BY <1>3, <1>4, <2>1 DEF GoodShards
  <2> HIDE DEF i, j
  <2> QED
    BY <1>3, <1>4, <2>2, SchedulerConstants
<1>6. /\ y - start \in 1..size
      /\ Place(view.cursor, y - start, passed, size) \in 1..size
      /\ view.parentOrder = <<>> => SlotAuth(shards, list, n, cursor, y)
            = {view.flat[Place(view.cursor, y - start, passed, size)]}
  <2>1. LET from == SegmentStart(shards, list, j, n)
            shown == shards[list[j]].ready[n].all
            place == Place(shown.cursor, y - from, Passed(cursor, from, Len(shown.flat)), Len(shown.flat))
        IN  /\ y - from \in 1..Len(shown.flat) /\ place \in 1..Len(shown.flat)
            /\ shown.parentOrder = <<>> =>
                  SlotAuth(shards, list, n, cursor, y) = {shown.flat[place]}
    BY <1>2 DEF SlotOf
  <2> QED
    BY <1>5, <2>1
<1>7. view.parentOrder = <<>>
  BY <1>3
<1> HIDE DEF i, j, start, view, size, passed
<1> DEFINE v == x - start
           w == y - start
<1>8. Place(view.cursor, v, passed, size) = Place(view.cursor, w, passed, size)
  BY <1>3, <1>6, <1>7
<1>9. v \in 1..size /\ w \in 1..size /\ v # w
  BY <1>1, <1>3, <1>6
<1>10. view.cursor \in 0..size /\ passed \in 0..size /\ size \in Nat \ {0}
  BY <1>3
<1> DEFINE at == view.cursor
<1>11. at \in 0..size /\ Place(at, v, passed, size) = Place(at, w, passed, size)
  BY <1>8, <1>10
<1> HIDE DEF v, w, at
<1>12. \A z \in 1..size : Place(at, v, passed, size) = Place(at, z, passed, size) => v = z
  BY <1>9, <1>10, <1>11, PlaceTyped
<1> QED
  BY <1>9, <1>11, <1>12

----------------------------------------------------------------------------
(* What the invariant says of a rotation over several providers.           *)

LEMMA MixedDistinct ==
    ASSUME NEW shards, GoodShards(shards), NEW list \in ProviderLists, NEW cursor, NEW auths,
           MixedTrail(shards, list, cursor, auths),
           \A p \in DOMAIN shards :
              shards[p].ready[BestLevel(shards, Auths)].all.parentOrder = <<>>
    PROVE  Distinct(auths)
<1> DEFINE n == BestLevel(shards, Auths)
           total == SegmentStart(shards, list, Len(list) + 1, n)
           W == SlotAuths(shards, list, n, cursor)
<1>1. /\ n \in Priorities /\ cursor \in 0..total /\ auths \in Seq(Auths) /\ Len(auths) <= total
      /\ Trail(auths, total, W, cursor)
  BY DEF MixedTrail
<1>2. \A p \in DOMAIN shards : shards[p].ready[n].all.parentOrder = <<>>
  OBVIOUS
<1> HIDE DEF n
<1>3. total \in Nat
  BY <1>1, TotalTyped
<1>4. cursor \in Nat
  <2> HIDE DEF total
  <2> QED
    BY <1>1, <1>3
<1>5. ASSUME NEW x \in 1..total, NEW y \in 1..total, x # y
      PROVE  W[x] \cap W[y] = {}
  <2>1. W[x] = SlotAuth(shards, list, n, cursor, x) /\ W[y] = SlotAuth(shards, list, n, cursor, y)
    BY DEF SlotAuths
  <2>2. SlotAuth(shards, list, n, cursor, x) \cap SlotAuth(shards, list, n, cursor, y) = {}
    BY <1>1, <1>2, <1>4, <1>5, SlotsApart
  <2> QED
    BY <2>1, <2>2
<1> HIDE DEF W, total
<1> QED
  BY <1>1, <1>3, <1>5, TrailDistinct

(* The turns that auths of the home p had.                                 *)
TurnsOf(auths, homes, p) == {i \in DOMAIN auths : homes[auths[i]] = p}

(* A provider has as many of the slots as it has ready auths.              *)
LEMMA MixedShare ==
    ASSUME NEW shards, GoodShards(shards), NEW list \in ProviderLists, NEW cursor, NEW auths,
           MixedTrail(shards, list, cursor, auths), NEW homes,
           \A p \in DOMAIN shards :
              \A a \in ReadyAt(shards[p].entries, BestLevel(shards, Auths)) : homes[a] = p,
           NEW p \in DOMAIN shards
    PROVE  Cardinality(TurnsOf(auths, homes, p))
              <= Len(shards[p].ready[BestLevel(shards, Auths)].all.flat)
<1> DEFINE n == BestLevel(shards, Auths)
           total == SegmentStart(shards, list, Len(list) + 1, n)
           W == SlotAuths(shards, list, n, cursor)
           Size(q) == Len(shards[q].ready[n].all.flat)
           turns == TurnsOf(auths, homes, p)
           slot == [i \in 1..Len(auths) |-> Behind(cursor, Len(auths) - i, total)]
           seg(x) == Segment(shards, list, n, x - 1)
           from(h) == SegmentStart(shards, list, h, n)
<1>1. /\ n \in Priorities /\ cursor \in 0..total /\ auths \in Seq(Auths) /\ Len(auths) <= total
      /\ Trail(auths, total, W, cursor)
  BY DEF MixedTrail
<1>2. \A q \in DOMAIN shards : \A a \in ReadyAt(shards[q].entries, n) : homes[a] = q
  OBVIOUS
<1> HIDE DEF n
<1>3. total \in Nat /\ Len(auths) \in Nat /\ DOMAIN auths = 1..Len(auths)
  BY <1>1, TotalTyped
<1>4. cursor \in Nat
  <2> HIDE DEF total
  <2> QED
    BY <1>1, <1>3
<1>5. \A x \in 1..total : SlotOf(shards, list, n, cursor, x)
  BY <1>1, <1>4, SlotOwned
<1>6. \A x \in 1..total : W[x] = SlotAuth(shards, list, n, cursor, x)
  BY DEF SlotAuths
<1>7. ASSUME NEW x \in 1..total
      PROVE  /\ seg(x) \in 1..Len(list) /\ list[seg(x)] \in DOMAIN shards
             /\ from(seg(x)) \in Nat /\ Size(list[seg(x)]) \in Nat
             /\ x - from(seg(x)) \in 1..Size(list[seg(x)])
             /\ \A a \in W[x] : homes[a] = list[seg(x)]
  <2>1. SlotOf(shards, list, n, cursor, x)
    BY <1>5
  <2>2. /\ seg(x) \in 1..Len(list) /\ list[seg(x)] \in DOMAIN shards
        /\ from(seg(x)) \in Nat /\ Size(list[seg(x)]) \in Nat
        /\ x - from(seg(x)) \in 1..Size(list[seg(x)])
        /\ SlotAuth(shards, list, n, cursor, x) \subseteq ReadyAt(shards[list[seg(x)]].entries, n)
    BY <2>1 DEF SlotOf
  <2> HIDE DEF seg, from, Size, W
  <2> QED
    BY <1>2, <1>6, <2>2
<1> HIDE DEF W, total
<1>8. ASSUME NEW i \in 1..Len(auths)
      PROVE  /\ slot[i] \in 1..total /\ auths[i] \in W[slot[i]]
             /\ \A j \in 1..Len(auths) : slot[i] = slot[j] => i = j
  <2> DEFINE d == Len(auths) - i
  <2>1. d \in 0..(total - 1) /\ d < Len(auths) /\ Len(auths) - d = i /\ total \in Nat \ {0}
    BY <1>1, <1>3
  <2>2. slot[i] = Behind(cursor, d, total)
    OBVIOUS
  <2>3. \A j \in 1..Len(auths) : /\ Len(auths) - j \in 0..(total - 1)
                                 /\ slot[j] = Behind(cursor, Len(auths) - j, total)
    BY <1>1, <1>3
  <2> HIDE DEF slot, d
  <2>4. auths[i] \in W[Behind(cursor, d, total)]
    BY <1>1, <2>1 DEF Trail
  <2>5. /\ Behind(cursor, d, total) \in 1..total
        /\ \A e \in 0..(total - 1) : Behind(cursor, d, total) = Behind(cursor, e, total) => d = e
    BY <1>1, <2>1, BehindMoves
  <2>6. ASSUME NEW j \in 1..Len(auths), slot[i] = slot[j]
        PROVE  i = j
    <3>1. d = Len(auths) - j
      BY <2>2, <2>3, <2>5, <2>6
    <3> QED
      BY <1>3, <3>1 DEF d
  <2> QED
    BY <2>2, <2>4, <2>5, <2>6
<1>9. \A i \in turns : i \in 1..Len(auths) /\ list[seg(slot[i])] = p
  <2> SUFFICES ASSUME NEW i \in turns PROVE i \in 1..Len(auths) /\ list[seg(slot[i])] = p
    OBVIOUS
  <2>1. i \in 1..Len(auths) /\ homes[auths[i]] = p
    BY <1>3 DEF TurnsOf
  <2>2. slot[i] \in 1..total /\ auths[i] \in W[slot[i]]
    BY <1>8, <2>1
  <2> HIDE DEF slot, seg
  <2> QED
    BY <1>7, <2>1, <2>2
<1> HIDE DEF slot, seg, from
<1>10. CASE turns = {}
  <2>1. ReadyAt(shards[p].entries, n) \in SUBSET Present(shards[p].entries)
        /\ shards[p].entries \in EntryMaps
        /\ GoodView(shards[p].ready[n].all, shards[p].entries, ReadyAt(shards[p].entries, n))
    BY <1>1, ReadyPresent DEF GoodShards, GoodIndexes, ModelShards, EntryMaps
  <2>2. shards[p].ready[n].all.flat \in Seq(Auths)
    BY <2>1, ShownOnes
  <2>3. Size(p) \in Nat
    BY <2>2
  <2>4. Cardinality(turns) = 0
    BY <1>10, FS_EmptySet
  <2> HIDE DEF turns, Size
  <2>5. Cardinality(turns) <= Size(p)
    BY <2>3, <2>4
  <2> QED
    BY <2>5 DEF turns, Size, n
<1>11. CASE turns # {}
  <2>1. PICK first : first \in turns
    BY <1>11
  <2> DEFINE h == seg(slot[first])
             start == from(h)
             size == Size(p)
             own == (start + 1)..(start + size)
             taken == [i \in turns |-> slot[i]]
  <2>2. h \in 1..Len(list) /\ list[h] = p /\ start \in Nat /\ size \in Nat
    BY <1>7, <1>8, <1>9, <2>1
  <2>3. ASSUME NEW i \in turns PROVE slot[i] \in own
    <3>1. slot[i] \in 1..total /\ seg(slot[i]) \in 1..Len(list) /\ list[seg(slot[i])] = p
      BY <1>7, <1>8, <1>9, <2>3
    <3>2. seg(slot[i]) = h
      <4> HIDE DEF h
      <4> QED
        BY <2>2, <3>1, SchedulerConstants
    <3>3. slot[i] - start \in 1..size
      BY <1>7, <3>1, <3>2
    <3>4. slot[i] \in Nat /\ start \in Nat /\ size \in Nat
      BY <1>3, <2>2, <3>1
    <3> HIDE DEF start, size
    <3> QED
      BY <3>3, <3>4
  <2>4. taken \in Injection(turns, own)
    <3>1. \A i, j \in turns : slot[i] = slot[j] => i = j
      BY <1>8, <1>9
    <3> HIDE DEF turns, own
    <3>2. taken \in [turns -> own]
      BY <2>3
    <3> QED
      BY <3>1, <3>2 DEF Injection, IsInjective
  <2>5. IsFiniteSet(own) /\ Cardinality(own) = size
    <3> DEFINE a == start + 1
               b == start + size
    <3>1. a \in Int /\ b \in Int /\ (IF a > b THEN 0 ELSE b - a + 1) = size
      <4> HIDE DEF start, size
      <4> QED
        BY <2>2
    <3> HIDE DEF a, b, size
    <3>2. IsFiniteSet(a..b) /\ Cardinality(a..b) = IF a > b THEN 0 ELSE b - a + 1
      BY <3>1, FS_Interval
    <3> QED
      BY <3>1, <3>2 DEF a, b
  <2> HIDE DEF turns, own, taken, size
  <2>6. Cardinality(turns) <= Cardinality(own)
    BY <2>4, <2>5, FS_Injection
  <2> QED
    BY <2>5, <2>6 DEF turns, size, n
<1> QED
  BY <1>10, <1>11

----------------------------------------------------------------------------
(* The two properties of the rotation.                                     *)

SingleState(request, auths) ==
    LET p      == request.providers[1]
        shard  == providers[p].shards[request.model]
        prefer == request.websocket /\ p = Codex
        n      == highestReadyPriorityLocked(shard, prefer, Auths)
        view   == ReadyViewOf(shard, prefer, n)
    IN  /\ GoodIndexes(shard) /\ SingleTrail(shard, prefer, auths)
        /\ Range(request.providers) = {p} /\ Built(providers, p, request.model)
        /\ Level(request, Last(auths)) = n /\ View(p, request, n) = view
        /\ auths \in Seq(Range(view.flat)) /\ Len(auths) <= Len(view.flat)
        /\ \A a \in Range(view.flat) :
              authProviders[a] = p /\ Snapshot(p, a).parent = Group(shard.entries, a)

LEMMA SingleRead ==
    ASSUME IInv, NEW request \in Requests, NEW auths, auths # <<>>,
           Len(request.providers) = 1, Rotates(request, auths, providers, mixedCursors)
    PROVE  SingleState(request, auths)
<1> DEFINE p == request.providers[1]
           m == request.model
           shard == providers[p].shards[m]
           prefer == request.websocket /\ p = Codex
           n == highestReadyPriorityLocked(shard, prefer, Auths)
           view == ReadyViewOf(shard, prefer, n)
<1>1. Built(providers, p, m) /\ SingleTrail(shard, prefer, auths)
  BY DEF Rotates
<1>2. p \in Providers /\ m \in ModelKeys /\ Range(request.providers) = {p}
  BY Asked
<1>3. GoodProviders(providers, now) /\ Homes(providers, authProviders)
  BY DEF IInv
<1>4. n \in Priorities /\ auths \in Seq(Range(view.flat)) /\ Len(auths) <= Len(view.flat)
  BY <1>1 DEF SingleTrail
<1>5. GoodIndexes(shard) /\ ViewIn(providers, request, p, n) = view
  <2>1. p = request.providers[1] /\ Built(providers, p, request.model)
    BY <1>1
  <2>2. /\ shard = providers[p].shards[request.model]
        /\ view = ReadyViewOf(shard, request.websocket /\ p = Codex, n)
    OBVIOUS
  <2> HIDE DEF n, p, shard, view
  <2>3. LET found == providers[p].shards[request.model]
        IN  /\ GoodIndexes(found)
            /\ ViewIn(providers, request, p, n)
                  = ReadyViewOf(found, request.websocket /\ p = Codex, n)
    BY <1>3, <1>4, <2>1, SingleTurns
  <2> QED
    BY <2>2, <2>3
<1>6. Range(view.flat) \in SUBSET ReadyAt(shard.entries, n)
  <2> HIDE DEF n, shard, prefer
  <2> QED
    BY <1>4, <1>5, ViewFound
<1>7. ASSUME NEW a \in Range(view.flat)
      PROVE  /\ authProviders[a] = p /\ LevelIn(providers, authProviders, a) = n
             /\ Snapshot(p, a).parent = Group(shard.entries, a)
  <2>1. /\ p \in Providers /\ m \in ModelKeys /\ Built(providers, p, m)
        /\ a \in ReadyAt(providers[p].shards[m].entries, n)
    BY <1>1, <1>2, <1>6, <1>7
  <2> HIDE DEF n, view, p, m, shard, prefer
  <2>2. /\ authProviders[a] = p /\ LevelIn(providers, authProviders, a) = n
        /\ providers[p].auths[a] = providers[p].shards[m].entries[a].meta
    BY <1>3, <2>1, LevelFound
  <2> QED
    BY <2>2 DEF shard, Snapshot, Group, p, m
<1>8. Last(auths) \in Range(view.flat)
  <2> HIDE DEF view
  <2>1. Len(auths) \in 1..Len(auths)
    BY <1>4
  <2> QED
    BY <1>4, <2>1 DEF Last
<1>9. Level(request, Last(auths)) = n /\ View(p, request, n) = view
  <2>1. LevelIn(providers, authProviders, Last(auths)) = n
    BY <1>7, <1>8
  <2> HIDE DEF n, view, p
  <2> QED
    BY <1>5, <2>1, RecordRead
<1> QED
  BY <1>1, <1>2, <1>4, <1>5, <1>7, <1>9 DEF SingleState

MixedState(request, auths) ==
    LET list   == request.providers
        m      == request.model
        shards == StoredShards(providers, list, m)
        n      == BestLevel(shards, Auths)
    IN  /\ list \in ProviderLists /\ GoodShards(shards)
        /\ MixedTrail(shards, list, mixedCursors[<<list, m>>], auths)
        /\ Level(request, Last(auths)) = n
        /\ DOMAIN shards = {p \in Range(list) : Built(providers, p, m)}
        /\ \A p \in DOMAIN shards :
              /\ View(p, request, n) = shards[p].ready[n].all
              /\ \A a \in ReadyAt(shards[p].entries, n) : authProviders[a] = p

LEMMA MixedRead ==
    ASSUME IInv, NEW request \in Requests, NEW auths, auths # <<>>,
           Len(request.providers) # 1, Rotates(request, auths, providers, mixedCursors)
    PROVE  MixedState(request, auths)
<1> DEFINE list == request.providers
           m == request.model
           shards == StoredShards(providers, list, m)
           n == BestLevel(shards, Auths)
           total == SegmentStart(shards, list, Len(list) + 1, n)
           cursor == mixedCursors[<<list, m>>]
<1>1. MixedTrail(shards, list, cursor, auths)
  BY DEF Rotates
<1>2. list \in ProviderLists /\ m \in ModelKeys
  BY Asked
<1>3. GoodProviders(providers, now) /\ Homes(providers, authProviders)
  BY DEF IInv
<1>4. GoodShards(shards) /\ Range(list) \subseteq Providers
  BY <1>2, <1>3, StoredGood
<1>5. /\ DOMAIN shards = {p \in Range(list) : Built(providers, p, m)}
      /\ \A p \in DOMAIN shards : shards[p] = providers[p].shards[m]
  BY DEF StoredShards
<1>6. /\ n \in Priorities /\ auths \in Seq(Auths) /\ cursor \in 0..total /\ Len(auths) <= total
      /\ Trail(auths, total, SlotAuths(shards, list, n, cursor), cursor)
  BY <1>1 DEF MixedTrail
<1> HIDE DEF n, shards, m, list, cursor
<1>7. ASSUME NEW p \in DOMAIN shards, NEW a \in ReadyAt(shards[p].entries, n)
      PROVE  authProviders[a] = p /\ LevelIn(providers, authProviders, a) = n
  <2>1. /\ p \in Providers /\ m \in ModelKeys /\ Built(providers, p, m)
        /\ a \in ReadyAt(providers[p].shards[m].entries, n)
    BY <1>2, <1>4, <1>5, <1>7
  <2> QED
    BY <1>3, <2>1, LevelFound
<1>8. ASSUME NEW p \in DOMAIN shards
      PROVE  View(p, request, n) = shards[p].ready[n].all
  <2>1. View(p, request, n) = ViewIn(providers, request, p, n)
    BY RecordRead
  <2>2. ViewIn(providers, request, p, n) = providers[p].shards[request.model].ready[n].all
    BY DEF ViewIn
  <2> QED
    BY <1>5, <2>1, <2>2 DEF m
<1>9. Level(request, Last(auths)) = n
  <2> DEFINE x == Behind(cursor, 0, total)
             W == SlotAuths(shards, list, n, cursor)
  <2>1. total \in Nat /\ Len(auths) \in Nat \ {0}
    BY <1>2, <1>4, <1>6, TotalTyped
  <2>2. cursor \in Nat /\ total \in Nat \ {0} /\ 0 \in 0..(total - 1) /\ Len(auths) - 0 = Len(auths)
        /\ 0 < Len(auths)
    <3> HIDE DEF total
    <3> QED
      BY <1>6, <2>1
  <2>3. x \in 1..total
    <3> HIDE DEF total
    <3> QED
      BY <1>6, <2>2, BehindMoves
  <2>4. auths[Len(auths) - 0] \in W[x]
    BY <1>6, <2>2 DEF Trail
  <2>5. Last(auths) \in W[x]
    BY <2>2, <2>4 DEF Last
  <2>6. W[x] = SlotAuth(shards, list, n, cursor, x)
    BY <2>3 DEF SlotAuths
  <2> HIDE DEF x
  <2>7. SlotOf(shards, list, n, cursor, x)
    BY <1>2, <1>4, <1>6, <2>2, <2>3, SlotOwned
  <2>8. PICK p \in DOMAIN shards :
           SlotAuth(shards, list, n, cursor, x) \subseteq ReadyAt(shards[p].entries, n)
    BY <2>7 DEF SlotOf
  <2>9. Last(auths) \in ReadyAt(shards[p].entries, n)
    BY <2>5, <2>6, <2>8
  <2>10. LevelIn(providers, authProviders, Last(auths)) = n
    BY <1>7, <2>9
  <2> QED
    BY <2>10, RecordRead
<1> QED
  BY <1>1, <1>2, <1>4, <1>5, <1>7, <1>8, <1>9 DEF MixedState, n, shards, m, list, cursor

LEMMA FairNow == ASSUME IInv, RotationInv PROVE FairRotation
<1> DEFINE request == served.request
           auths == served.auths
           list == request.providers
           n == Level(request, Last(auths))
           p == list[1]
           some == \A q \in Range(list) : <<q, request.model>> \in Shards => ~ Grouped(q, request, n)
           last == LastOf(auths, Len(View(p, request, n).parentOrder))
<1> SUFFICES ASSUME auths # <<>>
             PROVE  IF some THEN Distinct(auths)
                    ELSE Len(list) = 1 => Distinct(ParentsServed(request, last))
  BY DEF FairRotation
<1>1. request \in Requests /\ Rotates(request, auths, providers, mixedCursors)
  BY DEF RotationInv, Rotates
<1>2. \A q \in Range(list) : <<q, request.model>> \in Shards <=> Built(providers, q, request.model)
  BY <1>1, RecordRead
<1>3. CASE Len(list) = 1
  <2> DEFINE shard == providers[p].shards[request.model]
             prefer == request.websocket /\ p = Codex
             view == ReadyViewOf(shard, prefer, highestReadyPriorityLocked(shard, prefer, Auths))
  <2>1. SingleState(request, auths)
    BY <1>1, <1>3, SingleRead
  <2>2. /\ GoodIndexes(shard) /\ SingleTrail(shard, prefer, auths)
        /\ Range(list) = {p} /\ Built(providers, p, request.model)
        /\ View(p, request, n) = view
        /\ auths \in Seq(Range(view.flat))
        /\ \A a \in Range(view.flat) :
              authProviders[a] = p /\ Snapshot(p, a).parent = Group(shard.entries, a)
    BY <2>1 DEF SingleState
  <2>3. some <=> view.parentOrder = <<>>
    <3>1. some <=> ~ Grouped(p, request, n)
      <4> HIDE DEF n, p, list
      <4> QED
        BY <1>2, <2>2
    <3> QED
      BY <2>2, <3>1 DEF Grouped
  <2>4. LET recent == LastOf(auths, Len(view.parentOrder))
        IN  /\ view.parentOrder = <<>> => Distinct(auths)
            /\ view.parentOrder # <<>> =>
                  Distinct([i \in DOMAIN recent |-> Group(shard.entries, recent[i])])
    <3> HIDE DEF auths, p, list, request, prefer, shard
    <3> QED
      BY <2>2, SingleDistinct
  <2>5. CASE view.parentOrder = <<>>
    BY <2>3, <2>4, <2>5
  <2>6. CASE view.parentOrder # <<>>
    <3>1. last = LastOf(auths, Len(view.parentOrder))
      BY <2>2
    <3>2. Len(view.parentOrder) \in Nat \ {0}
      <4> DEFINE level == highestReadyPriorityLocked(shard, prefer, Auths)
      <4>1. level \in Priorities
        BY <2>2 DEF SingleTrail
      <4>2. RingSize(view) \in Nat /\ RingSize(view) = Len(view.parentOrder)
        <5> HIDE DEF level, shard, prefer
        <5>1. RingSize(ReadyViewOf(shard, prefer, level)) \in Nat
          BY <2>2, <4>1, RingTyped
        <5> QED
          BY <2>6, <5>1 DEF RingSize, level
      <4>3. view \in Views
        <5> HIDE DEF level, shard, prefer
        <5>1. GoodView(ReadyViewOf(shard, prefer, level), shard.entries,
                       Range(ReadyViewOf(shard, prefer, level).flat))
          BY <2>2, <4>1, ViewFound
        <5> QED
          BY <5>1 DEF GoodView, level
      <4>4. view.parentOrder \in Seq(Parents)
        <5> HIDE DEF view
        <5> QED
          BY <4>3 DEF Views
      <4> HIDE DEF view
      <4> QED
        BY <2>6, <4>2, <4>4
    <3>3. last \in Seq(Range(view.flat))
      <4> DEFINE T == Range(view.flat)
                 k == Len(view.parentOrder)
      <4>1. auths \in Seq(T) /\ last = LastOf(auths, k) /\ k \in Nat \ {0}
        BY <2>2, <3>1, <3>2
      <4> HIDE DEF view, auths, T, k, last
      <4>2. last \in Seq(T)
        BY <4>1, LastOnes
      <4> QED
        BY <4>2 DEF T
    <3> HIDE DEF last
    <3>4. \A i \in DOMAIN last :
             Snapshot(authProviders[last[i]], last[i]).parent = Group(shard.entries, last[i])
      <4>1. \A i \in DOMAIN last : last[i] \in Range(view.flat)
        <5> DEFINE T == Range(view.flat)
        <5>1. last \in Seq(T)
          BY <3>3
        <5> HIDE DEF T
        <5>2. \A i \in DOMAIN last : last[i] \in T
          BY <5>1
        <5> QED
          BY <5>2 DEF T
      <4> HIDE DEF view, shard, p
      <4> QED
        BY <2>2, <4>1
    <3>5. ParentsServed(request, last) = [i \in DOMAIN last |-> Group(shard.entries, last[i])]
      <4> HIDE DEF shard
      <4> QED
        BY <3>4 DEF ParentsServed
    <3>6. Distinct([i \in DOMAIN last |-> Group(shard.entries, last[i])])
      BY <2>4, <2>6, <3>1
    <3> QED
      BY <2>3, <2>6, <3>5, <3>6
  <2> QED
    BY <2>5, <2>6
<1>4. CASE Len(list) # 1
  <2> DEFINE shards == StoredShards(providers, list, request.model)
             cursor == mixedCursors[<<list, request.model>>]
  <2>1. MixedState(request, auths)
    BY <1>1, <1>4, MixedRead
  <2>2. /\ list \in ProviderLists /\ GoodShards(shards) /\ MixedTrail(shards, list, cursor, auths)
        /\ n = BestLevel(shards, Auths)
        /\ DOMAIN shards = {q \in Range(list) : Built(providers, q, request.model)}
        /\ \A q \in DOMAIN shards : View(q, request, n) = shards[q].ready[n].all
    BY <2>1 DEF MixedState
  <2>3. ASSUME some PROVE Distinct(auths)
    <3>1. \A q \in DOMAIN shards : shards[q].ready[n].all.parentOrder = <<>>
      <4> SUFFICES ASSUME NEW q \in DOMAIN shards
                   PROVE  shards[q].ready[n].all.parentOrder = <<>>
        OBVIOUS
      <4>1. ~ Grouped(q, request, n)
        BY <1>2, <2>2, <2>3
      <4> QED
        BY <2>2, <4>1 DEF Grouped
    <3> HIDE DEF n, shards, cursor, auths, list
    <3> QED
      BY <2>2, <3>1, MixedDistinct
  <2> QED
    BY <1>4, <2>3
<1> QED
  BY <1>3, <1>4

LEMMA SharesNow == ASSUME IInv, RotationInv PROVE ProportionalShares
<1> DEFINE request == served.request
           auths == served.auths
           list == request.providers
           n == Level(request, Last(auths))
           turns(p) == {i \in DOMAIN auths : authProviders[auths[i]] = p}
<1> SUFFICES ASSUME auths # <<>>, NEW p \in Range(list), <<p, request.model>> \in Shards
             PROVE  Cardinality(turns(p)) <= Len(View(p, request, n).flat)
  BY DEF ProportionalShares
<1>1. request \in Requests /\ Rotates(request, auths, providers, mixedCursors)
  BY DEF RotationInv, Rotates
<1>2. Built(providers, p, request.model)
  BY <1>1, RecordRead
<1>3. CASE Len(list) = 1
  <2> DEFINE view == View(p, request, n)
  <2>1. SingleState(request, auths)
    BY <1>1, <1>3, SingleRead
  <2>2. p = list[1]
    BY <2>1 DEF SingleState
  <2>3. auths \in Seq(Range(view.flat)) /\ Len(auths) <= Len(view.flat)
    BY <2>1, <2>2 DEF SingleState
  <2> HIDE DEF view
  <2>4. Len(auths) \in Nat /\ DOMAIN auths = 1..Len(auths)
    BY <2>3
  <2>5. IsFiniteSet(1..Len(auths)) /\ Cardinality(1..Len(auths)) = Len(auths)
    BY <2>4, FS_Interval
  <2>6. turns(p) \in SUBSET (1..Len(auths))
    BY <2>4
  <2> HIDE DEF turns
  <2>7. IsFiniteSet(turns(p)) /\ Cardinality(turns(p)) <= Len(auths)
    BY <2>5, <2>6, FS_Subset
  <2>8. Cardinality(turns(p)) \in Nat
    BY <2>7, FS_CardinalityType
  <2>9. Len(view.flat) \in Int
    <3>1. LET shard == providers[list[1]].shards[request.model]
              prefer == request.websocket /\ list[1] = Codex
              level == highestReadyPriorityLocked(shard, prefer, Auths)
          IN  /\ GoodIndexes(shard) /\ level \in Priorities
              /\ View(p, request, n) = ReadyViewOf(shard, prefer, level)
      BY <2>1, <2>2 DEF SingleState, SingleTrail
    <3>2. PICK shard, prefer, level :
             /\ GoodIndexes(shard) /\ level \in Priorities
             /\ view = ReadyViewOf(shard, prefer, level)
      BY <3>1 DEF view
    <3>3. GoodView(view, shard.entries, Range(view.flat)) /\ shard.entries \in EntryMaps
          /\ Range(view.flat) \in SUBSET Present(shard.entries)
      BY <3>2, ViewFound
    <3>4. view.flat \in Seq(Auths)
      BY <3>3, ShownOnes
    <3> QED
      BY <3>4
  <2> QED
    BY <2>3, <2>4, <2>7, <2>8, <2>9 DEF view
<1>4. CASE Len(list) # 1
  <2> DEFINE shards == StoredShards(providers, list, request.model)
             cursor == mixedCursors[<<list, request.model>>]
  <2>1. MixedState(request, auths)
    BY <1>1, <1>4, MixedRead
  <2>2. /\ list \in ProviderLists /\ GoodShards(shards) /\ MixedTrail(shards, list, cursor, auths)
        /\ n = BestLevel(shards, Auths)
        /\ DOMAIN shards = {q \in Range(list) : Built(providers, q, request.model)}
        /\ \A q \in DOMAIN shards :
              /\ View(q, request, n) = shards[q].ready[n].all
              /\ \A a \in ReadyAt(shards[q].entries, n) : authProviders[a] = q
    BY <2>1 DEF MixedState
  <2>3. p \in DOMAIN shards
    BY <1>2, <2>2
  <2>4. Cardinality({i \in DOMAIN auths : authProviders[auths[i]] = p})
           <= Len(shards[p].ready[n].all.flat)
    <3> HIDE DEF n, shards, cursor, auths, list
    <3>1. \A q \in DOMAIN shards :
             \A a \in ReadyAt(shards[q].entries, BestLevel(shards, Auths)) : authProviders[a] = q
      BY <2>2
    <3>2. Cardinality(TurnsOf(auths, authProviders, p))
             <= Len(shards[p].ready[BestLevel(shards, Auths)].all.flat)
      BY <2>2, <2>3, <3>1, MixedShare
    <3> QED
      BY <2>2, <3>2 DEF TurnsOf
  <2> QED
    BY <2>2, <2>3, <2>4
<1> QED
  BY <1>3, <1>4

(* Round-robin is fair, however providers, models and virtual parents are  *)
(* laid out: the cursors that pickRoundRobin moves, and those that a pick  *)
(* over several providers keeps for its slots (pickMixed), outlive every   *)
(* rebuild of the indexes, so picks in a row serve nobody twice before all *)
(* the ready auths of the level, or all its parents, had their turn.       *)
THEOREM RotationFair == RotationSpec => []FairRotation
<1>1. IInv /\ RotationInv => FairRotation
  BY FairNow
<1> QED
  BY <1>1, RotationInvariant, PTL

(* A pick over several providers (pickMixed) gives each of them as many of *)
(* the slots as it has ready auths of the best level, wherever its cursor  *)
(* stands in them: no window of that many picks serves one of them more.   *)
THEOREM SharesProportional == RotationSpec => []ProportionalShares
<1>1. IInv /\ RotationInv => ProportionalShares
  BY SharesNow
<1> QED
  BY <1>1, RotationInvariant, PTL
=============================================================================
