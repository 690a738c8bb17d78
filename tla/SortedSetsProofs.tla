--------------------------- MODULE SortedSetsProofs ---------------------------
(***************************************************************************)
(* The sorted sets are the maps that ScoreMaps describes, for any number of *)
(* keys, members and scores; and the indices of ZRANGE and LRANGE stay in   *)
(* the list, whatever the client asks for.                                  *)
(*                                                                         *)
(* The argument: a member has one pair (Inv), so the first pair that a walk *)
(* meets is the pair, and taking a pair for its member is a bijection, by   *)
(* which the counts of ZCARD and ZRANK are the counts of the map.           *)
(***************************************************************************)
EXTENDS SortedSets, FiniteSetTheorems, SequenceTheorems, TLAPS

-----------------------------------------------------------------------------
(* Indices.                                                                *)

(* When an element is read at all, every index from start to stop is one of
   the list: list[i] in LRANGE never panics.                                *)
THEOREM IndicesInBounds ==
    ASSUME NEW start \in Int, NEW stop \in Int, NEW len \in Nat,
           StartIndex(start, len) <= StopIndex(stop, len)
    PROVE  /\ StartIndex(start, len) \in 0..(len - 1)
           /\ StopIndex(stop, len) \in 0..(len - 1)
  BY DEF StartIndex, StopIndex, Counted

(* A range up to an index and the range from the next one to the end (index
   -1) are the whole list, cut once: nothing is missed or read twice.        *)
THEOREM CutAnywhere ==
    ASSUME NEW X, NEW list \in Seq(X), NEW n \in Nat, n > 0
    PROVE  Lrange(list, 0, n - 1) \o Lrange(list, n, -1) = list
<1> DEFINE len == Len(list)
<1>1. len \in Nat
  OBVIOUS
<1>2. StartIndex(0, len) = 0 /\ StartIndex(n, len) = n /\ StopIndex(-1, len) = len - 1
  <2> HIDE DEF len
  <2>1. Counted(0, len) = 0 /\ Counted(n, len) = n /\ Counted(-1, len) = len - 1
    BY <1>1 DEF Counted
  <2> QED BY <1>1, <2>1 DEF StartIndex, StopIndex
<1>3. StopIndex(n - 1, len) = IF n < len THEN n - 1 ELSE len - 1
  <2> HIDE DEF len
  <2>1. Counted(n - 1, len) = n - 1
    BY <1>1 DEF Counted
  <2> QED BY <1>1, <2>1 DEF StopIndex
<1>4. SubSeq(list, 1, len) = list
  BY SubSeqFull
<1>5. Lrange(list, n, -1) = SubSeq(list, n + 1, len)
  BY <1>1, <1>2 DEF Lrange, Slice
<1>6. CASE n < len
  <2>1. Lrange(list, 0, n - 1) = SubSeq(list, 1, n)
    BY <1>1, <1>2, <1>3, <1>6 DEF Lrange, Slice
  <2>2. SubSeq(list, 1, n) \o SubSeq(list, n + 1, len) = SubSeq(list, 1, len)
    <3>1. 1 \in 1..Len(list) + 1 /\ n \in (1 - 1)..Len(list) /\ Len(list) \in n..Len(list)
      BY <1>1, <1>6
    <3> QED BY <3>1, ConcatAdjacentSubSeq, ZenonT(60)
  <2> QED BY <1>4, <1>5, <2>1, <2>2, Zenon
<1>7. CASE ~(n < len)
  <2>1. Lrange(list, 0, n - 1) = SubSeq(list, 1, len)
    BY <1>1, <1>2, <1>3, <1>7 DEF Lrange, Slice
  <2>2. SubSeq(list, n + 1, len) = << >>
    <3>1. len < n + 1 /\ n + 1 \in Int /\ len \in Int
      BY <1>1, <1>7
    <3> QED BY <3>1, SubSeqEmpty, Zenon
  <2>3. list \o << >> = list
    BY ConcatEmptySeq, Zenon
  <2> QED BY <1>4, <1>5, <2>1, <2>2, <2>3, Zenon
<1> QED BY <1>6, <1>7, Zenon
-----------------------------------------------------------------------------
(* One tree.                                                               *)

(* The order of the tree is a strict total order. *)
LEMMA BeforeProperties ==
    ASSUME NEW p \in Pairs, NEW q \in Pairs, NEW r \in Pairs
    PROVE  /\ ~Before(p, p)
           /\ Before(p, q) \/ Before(q, p) \/ p = q
           /\ Before(p, q) /\ Before(q, r) => Before(p, r)
  BY DEF Pairs, Before, Score, Member, Scores, Members

(* The pair that a walk takes for the member's is its pair. *)
LEMMA OnlyPair ==
    ASSUME NEW S \in SUBSET Pairs, Unique(S), NEW p \in S
    PROVE  PairsOf(S, Member(p)) = {p} /\ FirstPair(S, Member(p)) = p
<1>1. PairsOf(S, Member(p)) = {p}
  BY DEF PairsOf, Unique
<1>2. FirstPair(S, Member(p)) = CHOOSE q \in {p} : \A r \in {p} : r = q \/ Before(q, r)
  BY <1>1 DEF FirstPair
<1> QED BY <1>1, <1>2

(* A member that is in the set has a pair. *)
LEMMA HasPair ==
    ASSUME NEW S, NEW m
    PROVE  /\ PairsOf(S, m) # {} <=> m \in MemberSet(S)
           /\ m \in MemberSet(S) => \E p \in S : Member(p) = m
  BY DEF PairsOf, MemberSet

(* Whatever holds of the pairs before p is counted by their members. *)
LEMMA CountMembers ==
    ASSUME NEW S \in SUBSET Pairs, Unique(S), IsFiniteSet(S), NEW T \in SUBSET S
    PROVE  Cardinality(T) = Cardinality(MemberSet(T))
<1> DEFINE f == [p \in T |-> Member(p)]
<1>1. IsFiniteSet(T)
  BY FS_Subset
<1>2. f \in [T -> MemberSet(T)]
  BY DEF MemberSet
<1>3. \A p, q \in T : f[p] = f[q] => p = q
  BY DEF Unique
<1>4. \A m \in MemberSet(T) : \E p \in T : f[p] = m
  BY DEF MemberSet
<1> HIDE DEF f
<1>5. f \in Bijection(T, MemberSet(T))
  <2>1. f \in Injection(T, MemberSet(T))
    BY <1>2, <1>3 DEF Injection, IsInjective
  <2>2. f \in Surjection(T, MemberSet(T))
    BY <1>2, <1>4 DEF Surjection
  <2> QED BY <2>1, <2>2 DEF Bijection
<1>6. ExistsBijection(T, MemberSet(T))
  BY <1>5 DEF ExistsBijection
<1> QED BY <1>1, <1>6, FS_Bijection

(* A member's score, and the order of members, are those of the map. *)
LEMMA MapOfPairs ==
    ASSUME NEW S \in SUBSET Pairs, Unique(S), NEW p \in S
    PROVE  /\ Member(p) \in MemberSet(S)
           /\ ScoreMap(S)[Member(p)] = Score(p)
           /\ \A q \in S : Maps!Lower(ScoreMap(S), Member(q), Member(p)) <=> Before(q, p)
<1>1. \A q \in S : Member(q) \in MemberSet(S) /\ ScoreMap(S)[Member(q)] = Score(q)
  <2>1. SUFFICES ASSUME NEW q \in S
                 PROVE  Member(q) \in MemberSet(S) /\ ScoreMap(S)[Member(q)] = Score(q)
    OBVIOUS
  <2>2. Member(q) \in MemberSet(S)
    BY DEF MemberSet
  <2>3. FirstPair(S, Member(q)) = q
    BY OnlyPair
  <2> QED BY <2>2, <2>3 DEF ScoreMap
<1>2. \A q \in S : Maps!Lower(ScoreMap(S), Member(q), Member(p)) <=> Before(q, p)
  BY <1>1 DEF Maps!Lower, Before
<1> QED BY <1>1, <1>2

(* Counting is the same in both modules. *)
LEMMA SameCount ==
    ASSUME NEW T
    PROVE  Maps!Cardinality(T) = Cardinality(T)
  BY DEF Maps!Cardinality, Cardinality

(* ZRANK counts the members that the map has below, ZCARD all of them, and
   ZSCORE answers the map's score.                                          *)
LEMMA ReadsAgree ==
    ASSUME NEW S \in SUBSET Pairs, Unique(S), IsFiniteSet(S), NEW m
    PROVE  /\ Zscore(S, m) = Maps!Zscore(ScoreMap(S), m)
           /\ Zrank(S, m) = Maps!Zrank(ScoreMap(S), m)
           /\ Zcard(S) = Maps!Zcard(ScoreMap(S))
<1>1. DOMAIN ScoreMap(S) = MemberSet(S)
  BY DEF ScoreMap
<1>2. Zcard(S) = Maps!Zcard(ScoreMap(S))
  <2>1. Cardinality(S) = Cardinality(MemberSet(S))
    BY CountMembers
  <2> QED BY <1>1, <2>1, SameCount DEF Zcard, Maps!Zcard, Number, Maps!Number
<1>3. CASE m \notin MemberSet(S)
  <2>1. PairsOf(S, m) = {}
    BY <1>3, HasPair
  <2> QED BY <1>1, <1>2, <1>3, <2>1
          DEF Zscore, Zrank, Maps!Zscore, Maps!Zrank, Nil, Maps!Nil
<1>4. CASE m \in MemberSet(S)
  <2>1. PICK p \in S : Member(p) = m
    BY <1>4, HasPair
  <2>2. PairsOf(S, m) # {} /\ FirstPair(S, m) = p
    BY <2>1, OnlyPair
  <2>3. /\ ScoreMap(S)[m] = Score(p)
        /\ \A q \in S : Maps!Lower(ScoreMap(S), Member(q), m) <=> Before(q, p)
    BY <2>1, MapOfPairs
  <2>4. Zscore(S, m) = Maps!Zscore(ScoreMap(S), m)
    BY <1>1, <1>4, <2>2, <2>3 DEF Zscore, Maps!Zscore, Number, Maps!Number
  <2>5. MemberSet(Preceding(S, p)) = {x \in MemberSet(S) : Maps!Lower(ScoreMap(S), x, m)}
    BY <2>3 DEF MemberSet, Preceding
  <2>6. Cardinality(Preceding(S, p)) = Cardinality(MemberSet(Preceding(S, p)))
    BY CountMembers DEF Preceding
  <2>7. Zrank(S, m) = Maps!Zrank(ScoreMap(S), m)
    BY <1>1, <1>4, <2>2, <2>5, <2>6, SameCount DEF Zrank, Maps!Zrank, Number, Maps!Number
  <2> QED BY <1>2, <2>4, <2>7
<1> QED BY <1>3, <1>4

-----------------------------------------------------------------------------
(* Places.                                                                 *)

Place(S, p) == Cardinality(Preceding(S, p)) + 1

(* A pair comes behind the pairs before it, and no two have the same place. *)
LEMMA PlacesAscend ==
    ASSUME NEW S \in SUBSET Pairs, IsFiniteSet(S), NEW p \in S
    PROVE  /\ Place(S, p) \in 1..Cardinality(S)
           /\ \A q \in S : Before(p, q) => Place(S, p) < Place(S, q)
           /\ \A q \in S : Place(S, p) = Place(S, q) => p = q
<1>1. \A q \in S : /\ Preceding(S, q) \in SUBSET S /\ IsFiniteSet(Preceding(S, q))
                   /\ Cardinality(Preceding(S, q)) \in Nat
  BY FS_Subset, FS_CardinalityType DEF Preceding
<1>2. \A q \in S : Before(p, q) => Place(S, p) < Place(S, q)
  <2>1. SUFFICES ASSUME NEW q \in S, Before(p, q) PROVE Place(S, p) < Place(S, q)
    OBVIOUS
  <2>2. Preceding(S, p) \in SUBSET Preceding(S, q)
    BY <2>1, BeforeProperties DEF Preceding
  <2>3. p \in Preceding(S, q) /\ p \notin Preceding(S, p)
    BY <2>1, BeforeProperties DEF Preceding
  <2>4. /\ Cardinality(Preceding(S, p)) <= Cardinality(Preceding(S, q))
        /\ Cardinality(Preceding(S, p)) # Cardinality(Preceding(S, q))
    BY <1>1, <2>2, <2>3, FS_Subset
  <2> QED BY <1>1, <2>4 DEF Place
<1>3. \A q \in S : Place(S, p) = Place(S, q) => p = q
  <2>1. SUFFICES ASSUME NEW q \in S, Place(S, p) = Place(S, q), p # q PROVE FALSE
    OBVIOUS
  <2>2. CASE Before(p, q)
    BY <1>1, <1>2, <2>1, <2>2 DEF Place
  <2>3. CASE Before(q, p)
    <3>1. Preceding(S, q) \in SUBSET Preceding(S, p)
      BY <2>3, BeforeProperties DEF Preceding
    <3>2. q \in Preceding(S, p) /\ q \notin Preceding(S, q)
      BY <2>3, BeforeProperties DEF Preceding
    <3>3. Cardinality(Preceding(S, p)) # Cardinality(Preceding(S, q))
      BY <1>1, <3>1, <3>2, FS_Subset
    <3> QED BY <1>1, <2>1, <3>3 DEF Place
  <2> QED BY <2>1, <2>2, <2>3, BeforeProperties
<1>4. Place(S, p) \in 1..Cardinality(S)
  <2>1. p \in S /\ p \notin Preceding(S, p)
    BY BeforeProperties DEF Preceding
  <2>2. /\ Cardinality(Preceding(S, p)) <= Cardinality(S)
        /\ Cardinality(Preceding(S, p)) # Cardinality(S)
    BY <1>1, <2>1, FS_Subset
  <2>3. Cardinality(S) \in Nat
    BY FS_CardinalityType
  <2> QED BY <1>1, <2>2, <2>3 DEF Place
<1> QED BY <1>2, <1>3, <1>4

(* Every place is taken. *)
LEMMA PlacesTaken ==
    ASSUME NEW S \in SUBSET Pairs, IsFiniteSet(S), NEW i \in 1..Cardinality(S)
    PROVE  \E p \in S : Place(S, p) = i
<1> DEFINE n == Cardinality(S)
           f == [p \in S |-> Place(S, p)]
<1>1. n \in Nat
  BY FS_CardinalityType
<1>2. f \in [S -> 1..n] /\ \A p, q \in S : f[p] = f[q] => p = q
  BY PlacesAscend
<1> HIDE DEF f
<1>3. f \in Injection(S, 1..n)
  BY <1>2 DEF Injection, IsInjective
<1>4. IsFiniteSet(1..n) /\ Cardinality(1..n) = n
  <2>1. IsFiniteSet(1..n) /\ Cardinality(1..n) = IF 1 > n THEN 0 ELSE n - 1 + 1
    BY <1>1, FS_Interval
  <2> QED BY <1>1, <2>1
<1>5. f \in Surjection(S, 1..n)
  BY <1>3, <1>4, FS_Injection
<1>6. \E p \in S : f[p] = i
  BY <1>5 DEF Surjection
<1> QED BY <1>6 DEF f

(* The pair at a place is the one with this place. *)
LEMMA PairAtPlace ==
    ASSUME NEW S \in SUBSET Pairs, IsFiniteSet(S)
    PROVE  /\ InOrder(S) \in Seq(S) /\ Len(InOrder(S)) = Cardinality(S)
           /\ \A i \in 1..Cardinality(S) : Place(S, InOrder(S)[i]) = i
           /\ \A p \in S : InOrder(S)[Place(S, p)] = p
<1> DEFINE n == Cardinality(S)
           at(i) == CHOOSE p \in S : Cardinality(Preceding(S, p)) = i - 1
<1>1. n \in Nat /\ \A p \in S : Cardinality(Preceding(S, p)) \in Nat
  BY FS_CardinalityType, FS_Subset DEF Preceding
<1>2. ASSUME NEW i \in 1..n
      PROVE  at(i) \in S /\ Place(S, at(i)) = i
  <2>1. PICK p \in S : Place(S, p) = i
    BY PlacesTaken
  <2>2. Cardinality(Preceding(S, p)) = i - 1
    BY <1>1, <2>1 DEF Place
  <2>3. at(i) \in S /\ Cardinality(Preceding(S, at(i))) = i - 1
    BY <2>2
  <2> HIDE DEF at
  <2> QED BY <1>1, <2>3 DEF Place
<1> HIDE DEF at
<1>3. InOrder(S) = [i \in 1..n |-> at(i)]
  BY DEF InOrder, at
<1>4. InOrder(S) \in Seq(S) /\ Len(InOrder(S)) = n
  BY <1>1, <1>2, <1>3
<1>5. \A i \in 1..n : InOrder(S)[i] \in S /\ Place(S, InOrder(S)[i]) = i
  BY <1>2, <1>3
<1>6. ASSUME NEW p \in S PROVE InOrder(S)[Place(S, p)] = p
  <2>1. Place(S, p) \in 1..n
    BY PlacesAscend
  <2> QED BY <1>5, <2>1, PlacesAscend
<1> QED BY <1>4, <1>5, <1>6

(* The whole range (ZRANGE 0 -1) lists each member once, the least pair first. *)
THEOREM RangeIsOrdered ==
    ASSUME NEW S \in SUBSET Pairs, Unique(S), IsFiniteSet(S)
    PROVE  /\ Len(InOrder(S)) = Cardinality(S)
           /\ \A p \in S : \E i \in 1..Len(InOrder(S)) : InOrder(S)[i] = p
           /\ \A i, j \in 1..Len(InOrder(S)) : i < j => Before(InOrder(S)[i], InOrder(S)[j])
<1>1. /\ InOrder(S) \in Seq(S) /\ Len(InOrder(S)) = Cardinality(S)
      /\ \A i \in 1..Cardinality(S) : Place(S, InOrder(S)[i]) = i
      /\ \A p \in S : InOrder(S)[Place(S, p)] = p
  BY PairAtPlace
<1>2. \A p \in S : \E i \in 1..Len(InOrder(S)) : InOrder(S)[i] = p
  BY <1>1, PlacesAscend
<1>3. ASSUME NEW i \in 1..Len(InOrder(S)), NEW j \in 1..Len(InOrder(S)), i < j
      PROVE  Before(InOrder(S)[i], InOrder(S)[j])
  <2> DEFINE p == InOrder(S)[i]
             q == InOrder(S)[j]
  <2>1. p \in S /\ q \in S /\ Place(S, p) = i /\ Place(S, q) = j
    BY <1>1, ElementOfSeq
  <2> HIDE DEF p, q
  <2>2. ~Before(q, p) /\ p # q
    BY <1>3, <2>1, PlacesAscend
  <2>3. Before(p, q)
    BY <2>1, <2>2, BeforeProperties
  <2> QED BY <2>3 DEF p, q
<1> QED BY <1>1, <1>2, <1>3

(* The part of a sequence from an index to the same index. *)
LEMMA OneElement ==
    ASSUME NEW X, NEW s \in Seq(X), NEW i \in 1..Len(s)
    PROVE  SubSeq(s, i, i) = <<s[i]>>
<1>1. SubSeq(s, i, i) \in Seq(X) /\ Len(SubSeq(s, i, i)) = 1 /\ SubSeq(s, i, i)[1] = s[i]
  OBVIOUS
<1>2. <<s[i]>> \in Seq(X) /\ Len(<<s[i]>>) = 1 /\ <<s[i]>>[1] = s[i]
  OBVIOUS
<1> DEFINE t == SubSeq(s, i, i)
           u == <<s[i]>>
<1>3. t \in Seq(X) /\ u \in Seq(X) /\ Len(t) = Len(u) /\ \A j \in 1..Len(t) : t[j] = u[j]
  BY <1>1, <1>2
<1> HIDE DEF t, u
<1>4. t = u
  BY <1>3, SeqEqual, Zenon
<1> QED BY <1>4 DEF t, u

(* ZRANGE from a member's rank to its rank answers the member alone. *)
THEOREM RankIsIndex ==
    ASSUME NEW S \in SUBSET Pairs, Unique(S), IsFiniteSet(S), NEW m \in MemberSet(S)
    PROVE  LET rank == Zrank(S, m).number IN Zrange(S, rank, rank) = <<m>>
<1> DEFINE rank == Zrank(S, m).number
           n == Cardinality(S)
<1>1. PICK p \in S : Member(p) = m
  BY HasPair
<1>2. PairsOf(S, m) # {} /\ FirstPair(S, m) = p
  BY <1>1, OnlyPair
<1>3. rank = Cardinality(Preceding(S, p)) /\ rank \in Nat
  <2>1. rank = Cardinality(Preceding(S, p))
    BY <1>2 DEF Zrank, Number
  <2> QED BY <2>1, FS_Subset, FS_CardinalityType DEF Preceding
<1> HIDE DEF rank
<1>4. Place(S, p) = rank + 1 /\ rank + 1 \in 1..n /\ n \in Nat
  BY <1>3, PlacesAscend, FS_CardinalityType DEF Place
<1>5. InOrder(S) \in Seq(S) /\ Len(InOrder(S)) = n /\ InOrder(S)[rank + 1] = p
  BY <1>4, PairAtPlace
<1>6. StartIndex(rank, n) = rank /\ StopIndex(rank, n) = rank
  <2> HIDE DEF n
  <2>1. Counted(rank, n) = rank
    BY <1>3 DEF Counted
  <2> QED BY <1>3, <1>4, <2>1 DEF StartIndex, StopIndex
<1>7. Slice(InOrder(S), rank, rank) = SubSeq(InOrder(S), rank + 1, rank + 1)
  BY <1>5, <1>6 DEF Slice
<1>8. SubSeq(InOrder(S), rank + 1, rank + 1) = <<p>>
  <2>1. SubSeq(InOrder(S), rank + 1, rank + 1) = <<InOrder(S)[rank + 1]>>
    BY <1>4, <1>5, OneElement, Zenon
  <2> QED BY <1>5, <2>1
<1>9. Zrange(S, rank, rank) = [i \in 1..Len(<<p>>) |-> Member(<<p>>[i])]
  BY <1>7, <1>8 DEF Zrange
<1>10. [i \in 1..Len(<<p>>) |-> Member(<<p>>[i])] = <<m>>
  BY <1>1
<1> QED BY <1>9, <1>10 DEF rank

-----------------------------------------------------------------------------
(* The tree after a command.                                               *)

Added(S, m, s) == (IF PairsOf(S, m) = {} THEN S ELSE S \ {FirstPair(S, m)}) \cup {<<s, m>>}
Removed(S, m)  == S \ {FirstPair(S, m)}

(* ZADD leaves the pairs of the other members and one of this member. *)
LEMMA AddedPairs ==
    ASSUME NEW S \in SUBSET Pairs, Unique(S), NEW m \in Members, NEW s \in Scores
    PROVE  Added(S, m, s) = {p \in S : Member(p) # m} \cup {<<s, m>>}
<1>1. CASE PairsOf(S, m) = {}
  BY <1>1 DEF Added, PairsOf
<1>2. CASE PairsOf(S, m) # {}
  <2>1. PICK p \in S : Member(p) = m
    BY <1>2, HasPair
  <2>2. PairsOf(S, m) = {p} /\ FirstPair(S, m) = p
    BY <2>1, OnlyPair
  <2> QED BY <1>2, <2>2 DEF Added, PairsOf
<1> QED BY <1>1, <1>2

(* ZREM of a member that is there leaves the pairs of the others. *)
LEMMA RemovedPairs ==
    ASSUME NEW S \in SUBSET Pairs, Unique(S), NEW m, PairsOf(S, m) # {}
    PROVE  Removed(S, m) = {p \in S : Member(p) # m}
<1>1. PICK p \in S : Member(p) = m
  BY HasPair
<1>2. PairsOf(S, m) = {p} /\ FirstPair(S, m) = p
  BY <1>1, OnlyPair
<1> QED BY <1>2 DEF Removed, PairsOf

(* Sets without a member's pairs, and with one for it, map like this. *)
LEMMA MapWithout ==
    ASSUME NEW S \in SUBSET Pairs, Unique(S), NEW m
    PROVE  LET T == {p \in S : Member(p) # m}
           IN  /\ T \in SUBSET Pairs /\ Unique(T)
               /\ ScoreMap(T) = Maps!Without(ScoreMap(S), m)
<1> DEFINE T == {p \in S : Member(p) # m}
<1>1. T \in SUBSET Pairs /\ Unique(T)
  BY DEF Unique
<1>2. MemberSet(T) = MemberSet(S) \ {m}
  BY DEF MemberSet
<1>3. ASSUME NEW x \in MemberSet(T)
      PROVE  Score(FirstPair(T, x)) = ScoreMap(S)[x]
  <2>1. PICK p \in T : Member(p) = x
    BY <1>3, HasPair
  <2>2. FirstPair(T, x) = p
    BY <1>1, <2>1, OnlyPair
  <2>3. p \in S /\ ScoreMap(S)[x] = Score(p)
    BY <2>1, MapOfPairs
  <2> QED BY <2>2, <2>3
<1> HIDE DEF T
<1>4. ScoreMap(T) = [x \in MemberSet(S) \ {m} |-> ScoreMap(S)[x]]
  BY <1>2, <1>3 DEF ScoreMap
<1>5. DOMAIN ScoreMap(S) = MemberSet(S)
  BY DEF ScoreMap
<1> QED BY <1>1, <1>4, <1>5 DEF Maps!Without, T

LEMMA MapWith ==
    ASSUME NEW S \in SUBSET Pairs, Unique(S), NEW m \in Members, NEW s \in Scores
    PROVE  LET T == {p \in S : Member(p) # m} \cup {<<s, m>>}
           IN  /\ T \in SUBSET Pairs /\ Unique(T)
               /\ ScoreMap(T) = Maps!With(ScoreMap(S), m, s)
<1> DEFINE T == {p \in S : Member(p) # m} \cup {<<s, m>>}
<1>0. <<s, m>> \in Pairs /\ Member(<<s, m>>) = m /\ Score(<<s, m>>) = s
  BY DEF Pairs, Member, Score
<1>1. T \in SUBSET Pairs /\ Unique(T)
  BY <1>0 DEF Unique
<1>2. MemberSet(T) = MemberSet(S) \cup {m}
  BY <1>0 DEF MemberSet
<1>3. ASSUME NEW x \in MemberSet(T)
      PROVE  Score(FirstPair(T, x)) = IF x = m THEN s ELSE ScoreMap(S)[x]
  <2>1. PICK p \in T : Member(p) = x
    BY <1>3, HasPair
  <2>2. FirstPair(T, x) = p
    BY <1>1, <2>1, OnlyPair
  <2>3. CASE x = m
    BY <1>0, <2>1, <2>2, <2>3
  <2>4. CASE x # m
    <3>1. p \in S
      BY <1>0, <2>1, <2>4
    <3>2. ScoreMap(S)[x] = Score(p)
      BY <2>1, <3>1, MapOfPairs
    <3> QED BY <2>2, <2>4, <3>2
  <2> QED BY <2>3, <2>4
<1> HIDE DEF T
<1>4. ScoreMap(T) = [x \in MemberSet(S) \cup {m} |-> IF x = m THEN s ELSE ScoreMap(S)[x]]
  BY <1>2, <1>3 DEF ScoreMap
<1>5. DOMAIN ScoreMap(S) = MemberSet(S)
  BY DEF ScoreMap
<1> QED BY <1>1, <1>4, <1>5 DEF Maps!With, T

-----------------------------------------------------------------------------
(* The invariant.                                                          *)

Inv ==
    /\ sets \in [Keys -> SUBSET Pairs]
    /\ MembersUnique
    /\ \A k \in Keys : IsFiniteSet(sets[k])

(* A command leaves all trees but one alone, and in that one Unique. *)
LEMMA TreeChanged ==
    ASSUME Inv, NEW k \in Keys, NEW T \in SUBSET Pairs, Unique(T), IsFiniteSet(T),
           sets' = [sets EXCEPT ![k] = T]
    PROVE  Inv'
<1>1. sets' \in [Keys -> SUBSET Pairs]
  BY DEF Inv
<1>2. \A j \in Keys : sets'[j] = IF j = k THEN T ELSE sets[j]
  BY DEF Inv
<1>3. MembersUnique'
  BY <1>2 DEF Inv, MembersUnique, Unique
<1>4. \A j \in Keys : IsFiniteSet(sets'[j])
  BY <1>2 DEF Inv
<1> QED BY <1>1, <1>3, <1>4 DEF Inv

(* What ZADD and ZREM make of the tree and of the map. *)
LEMMA ZaddTree ==
    ASSUME Inv, NEW k \in Keys, NEW s \in Scores, NEW m \in Members, Zadd(k, s, m)
    PROVE  LET T == Added(sets[k], m, s)
           IN  /\ sets' = [sets EXCEPT ![k] = T]
               /\ T \in SUBSET Pairs /\ Unique(T) /\ IsFiniteSet(T)
               /\ ScoreMap(T) = Maps!With(ScoreMap(sets[k]), m, s)
<1> DEFINE S == sets[k]
           T == Added(S, m, s)
<1>1. S \in SUBSET Pairs /\ Unique(S) /\ IsFiniteSet(S)
  BY DEF Inv, MembersUnique
<1>2. sets' = [sets EXCEPT ![k] = T]
  BY DEF Zadd, Added, Inv
<1> HIDE DEF S
<1>3. T = {p \in S : Member(p) # m} \cup {<<s, m>>}
  BY <1>1, AddedPairs
<1>4. T \in SUBSET Pairs /\ Unique(T) /\ ScoreMap(T) = Maps!With(ScoreMap(S), m, s)
  BY <1>1, <1>3, MapWith
<1>5. IsFiniteSet(T)
  <2>1. IsFiniteSet({p \in S : Member(p) # m})
    BY <1>1, FS_Subset
  <2> QED BY <1>3, <2>1, FS_AddElement
<1> QED BY <1>2, <1>4, <1>5 DEF S

LEMMA ZremTree ==
    ASSUME Inv, NEW k \in Keys, NEW m \in Members, PairsOf(sets[k], m) # {}, Zrem(k, m)
    PROVE  LET T == Removed(sets[k], m)
           IN  /\ sets' = [sets EXCEPT ![k] = T]
               /\ T \in SUBSET Pairs /\ Unique(T) /\ IsFiniteSet(T)
               /\ ScoreMap(T) = Maps!Without(ScoreMap(sets[k]), m)
<1> DEFINE S == sets[k]
           T == Removed(S, m)
<1>1. S \in SUBSET Pairs /\ Unique(S) /\ IsFiniteSet(S)
  BY DEF Inv, MembersUnique
<1>2. sets' = [sets EXCEPT ![k] = T]
  BY DEF Zrem, Removed, Inv
<1>3. PairsOf(S, m) # {}
  OBVIOUS
<1> HIDE DEF S
<1>4. T = {p \in S : Member(p) # m}
  BY <1>1, <1>3, RemovedPairs
<1>5. T \in SUBSET Pairs /\ Unique(T) /\ ScoreMap(T) = Maps!Without(ScoreMap(S), m)
  BY <1>1, <1>4, MapWithout
<1>6. IsFiniteSet(T)
  BY <1>1, <1>4, FS_Subset
<1> QED BY <1>2, <1>5, <1>6 DEF S

LEMMA InvInit == Init => Inv
<1> SUFFICES ASSUME Init PROVE Inv
  OBVIOUS
<1>1. \A k \in Keys : sets[k] = {}
  BY DEF Init
<1>2. sets \in [Keys -> SUBSET Pairs] /\ MembersUnique
  BY <1>1 DEF Init, MembersUnique, Unique
<1>3. IsFiniteSet({})
  BY FS_EmptySet
<1> QED BY <1>1, <1>2, <1>3 DEF Inv

LEMMA InvStep == Inv /\ [Next]_vars => Inv'
<1> SUFFICES ASSUME Inv, [Next]_vars PROVE Inv'
  OBVIOUS
<1>1. ASSUME NEW k \in Keys, NEW m \in Members, NEW s \in Scores, Zadd(k, s, m)
      PROVE  Inv'
  BY <1>1, ZaddTree, TreeChanged
<1>2. ASSUME UNCHANGED sets
      PROVE  Inv'
  BY <1>2 DEF Inv, MembersUnique
<1>3. ASSUME NEW k \in Keys, NEW m \in Members, Zrem(k, m)
      PROVE  Inv'
  <2>1. CASE PairsOf(sets[k], m) = {}
    BY <1>2, <1>3, <2>1 DEF Zrem
  <2>2. CASE PairsOf(sets[k], m) # {}
    BY <1>3, <2>2, ZremTree, TreeChanged
  <2> QED BY <2>1, <2>2
<1>4. ASSUME NEW k \in Keys, NEW m \in Members, Ask(k, m)
      PROVE  Inv'
  BY <1>2, <1>4 DEF Ask
<1>5. CASE UNCHANGED vars
  BY <1>2, <1>5 DEF vars
<1> QED BY <1>1, <1>3, <1>4, <1>5 DEF Next

LEMMA Invariance == Spec => []Inv
  BY InvInit, InvStep, PTL DEF Spec

(* However ZADD and ZREM move it, a member is in its tree once: it is counted,
   ranked and listed once.                                                   *)
THEOREM MembersAreUnique == Spec => []MembersUnique
<1>1. Inv => MembersUnique
  BY DEF Inv
<1> QED BY <1>1, Invariance, PTL

-----------------------------------------------------------------------------
(* The refinement.                                                         *)

Mapped == [k \in Keys |-> ScoreMap(sets[k])]

LEMMA MapChanged ==
    ASSUME Inv, NEW k \in Keys, NEW T, sets' = [sets EXCEPT ![k] = T]
    PROVE  Mapped' = [Mapped EXCEPT ![k] = ScoreMap(T)]
<1>1. \A j \in Keys : sets'[j] = IF j = k THEN T ELSE sets[j]
  BY DEF Inv
<1>2. Mapped' = [j \in Keys |-> ScoreMap(sets'[j])]
  BY DEF Mapped, ScoreMap, MemberSet, FirstPair, PairsOf
<1>3. \A j \in Keys : ScoreMap(sets'[j]) = IF j = k THEN ScoreMap(T) ELSE ScoreMap(sets[j])
  BY <1>1
<1> QED BY <1>2, <1>3 DEF Mapped

LEMMA RefinedInit == Init => Maps!Init
<1> SUFFICES ASSUME Init PROVE Maps!Init
  OBVIOUS
<1>1. ScoreMap({}) = Maps!Empty
  <2>1. MemberSet({}) = {}
    BY DEF MemberSet
  <2> QED BY <2>1 DEF ScoreMap, Maps!Empty
<1>2. \A k \in Keys : sets[k] = {}
  BY DEF Init
<1> QED BY <1>1, <1>2 DEF Init, Maps!Init, Nil, Maps!Nil

(* Every command is the map's command of the same name. *)
LEMMA RefinedStep == Inv /\ [Next]_vars => [Maps!Next]_(Maps!vars)
<1> SUFFICES ASSUME Inv, [Next]_vars PROVE [Maps!Next]_(Maps!vars)
  OBVIOUS
<1>0. \A k \in Keys : /\ sets[k] \in SUBSET Pairs /\ Unique(sets[k]) /\ IsFiniteSet(sets[k])
                      /\ Mapped[k] = ScoreMap(sets[k])
                      /\ DOMAIN Mapped[k] = MemberSet(sets[k])
  BY DEF Inv, MembersUnique, Mapped, ScoreMap
<1>1. ASSUME NEW k \in Keys, NEW m \in Members, NEW s \in Scores, Zadd(k, s, m)
      PROVE  Maps!Zadd(k, s, m)
  <2>1. Mapped' = [Mapped EXCEPT ![k] = Maps!With(Mapped[k], m, s)]
    BY <1>0, <1>1, ZaddTree, MapChanged
  <2>2. reply' = Maps!Number(IF m \in DOMAIN Mapped[k] THEN 0 ELSE 1)
    <3>1. PairsOf(sets[k], m) = {} <=> ~(m \in DOMAIN Mapped[k])
      BY <1>0, HasPair
    <3>2. reply' = Number(IF PairsOf(sets[k], m) = {} THEN 1 ELSE 0)
      BY <1>1 DEF Zadd
    <3> QED BY <3>1, <3>2 DEF Number, Maps!Number
  <2> QED BY <2>1, <2>2 DEF Maps!Zadd, Mapped
<1>2. ASSUME UNCHANGED sets
      PROVE  UNCHANGED Mapped
  BY <1>2 DEF Mapped, ScoreMap, MemberSet, FirstPair, PairsOf
<1>3. ASSUME NEW k \in Keys, NEW m \in Members, Zrem(k, m)
      PROVE  Maps!Zrem(k, m)
  <2>1. CASE PairsOf(sets[k], m) = {}
    <3>1. m \notin DOMAIN Mapped[k] /\ UNCHANGED sets
      BY <1>0, <1>3, <2>1, HasPair DEF Zrem
    <3>2. Maps!Without(Mapped[k], m) = Mapped[k]
      BY <1>0, <3>1 DEF Maps!Without, ScoreMap
    <3>3. Mapped' = [Mapped EXCEPT ![k] = Maps!Without(Mapped[k], m)]
      <4>1. UNCHANGED Mapped
        BY <1>2, <3>1
      <4>2. Mapped = [Mapped EXCEPT ![k] = Mapped[k]]
        BY DEF Mapped
      <4> QED BY <3>2, <4>1, <4>2
    <3>4. reply' = Maps!Number(IF m \in DOMAIN Mapped[k] THEN 1 ELSE 0)
      BY <1>3, <2>1, <3>1 DEF Zrem, Number, Maps!Number
    <3> QED BY <3>3, <3>4 DEF Maps!Zrem, Mapped
  <2>2. CASE PairsOf(sets[k], m) # {}
    <3>1. Mapped' = [Mapped EXCEPT ![k] = Maps!Without(Mapped[k], m)]
      BY <1>0, <1>3, <2>2, ZremTree, MapChanged
    <3>2. reply' = Maps!Number(IF m \in DOMAIN Mapped[k] THEN 1 ELSE 0)
      BY <1>0, <1>3, <2>2, HasPair DEF Zrem, Number, Maps!Number
    <3> QED BY <3>1, <3>2 DEF Maps!Zrem, Mapped
  <2> QED BY <2>1, <2>2
<1>4. ASSUME NEW k \in Keys, NEW m \in Members, Ask(k, m)
      PROVE  Maps!Ask(k, m)
  <2>1. reply' \in {Maps!Zscore(Mapped[k], m), Maps!Zrank(Mapped[k], m), Maps!Zcard(Mapped[k])}
    BY <1>0, <1>4, ReadsAgree DEF Ask
  <2>2. UNCHANGED Mapped
    BY <1>2, <1>4 DEF Ask
  <2> QED BY <2>1, <2>2 DEF Maps!Ask, Mapped
<1>5. CASE UNCHANGED vars
  BY <1>2, <1>5 DEF vars, Maps!vars, Mapped
<1>6. CASE Next
  BY <1>1, <1>3, <1>4, <1>6 DEF Next, Maps!Next, Members, Maps!Members, Scores, Maps!Scores
<1> QED BY <1>5, <1>6

(* The trees answer every sequence of commands like maps from members to
   scores: ZADD tells new from known, ZREM there from not there, and ZSCORE,
   ZRANK and ZCARD answer of the map.                                       *)
THEOREM SortedSetsAreMaps == Spec => IsAScoreMap
  BY Invariance, RefinedInit, RefinedStep, PTL DEF Spec, IsAScoreMap, Maps!Spec
=============================================================================
