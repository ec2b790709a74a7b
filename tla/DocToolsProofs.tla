----------------------------- MODULE DocToolsProofs -----------------------------
(***************************************************************************)
(* The document tools, for any files and any documents:                    *)
(*  - what decode-toc.js makes of doctoc's table is what it promises, for   *)
(*    each regular document (DecodeKeepsItsPromise);                       *)
(*  - DocToolsTypes, and LoneToolIsRight: the tools, whatever others do to  *)
(*    the files meanwhile;                                                 *)
(*  - ExitCodeIsTrue: what the exit code of generate-pdf.js says.           *)
(***************************************************************************)
EXTENDS DocTools, FiniteSetTheorems, SequenceTheorems, TLAPS

-------------------------------------------------------------------------------
\* The members of a finite set of numbers, by how many come before them.

\* The members of a set of numbers before x are as many as x has predecessors;
\* what comes later has more of them.
LEMMA BeforeBounds ==
    ASSUME NEW S \in SUBSET Int, IsFiniteSet(S), NEW x \in S
    PROVE  /\ Before(S, x) \subseteq S /\ IsFiniteSet(Before(S, x))
           /\ Cardinality(Before(S, x)) \in 0 .. Cardinality(S) - 1
<1>1. Before(S, x) \in SUBSET S /\ x \notin Before(S, x)
  BY DEF Before
<1>2. /\ IsFiniteSet(Before(S, x)) /\ Cardinality(Before(S, x)) <= Cardinality(S)
      /\ Cardinality(S) = Cardinality(Before(S, x)) => S = Before(S, x)
  BY <1>1, FS_Subset
<1>3. Cardinality(S) \in Nat /\ Cardinality(Before(S, x)) \in Nat
  BY <1>2, FS_CardinalityType
<1> QED BY <1>1, <1>2, <1>3

LEMMA BeforeGrows ==
    ASSUME NEW S \in SUBSET Int, IsFiniteSet(S), NEW x \in S, NEW y \in S, x < y
    PROVE  Cardinality(Before(S, x)) < Cardinality(Before(S, y))
<1>0. x \in Int /\ y \in Int /\ \A z \in S : z \in Int
  OBVIOUS
<1>1. Before(S, x) \in SUBSET Before(S, y) /\ x \in Before(S, y) /\ x \notin Before(S, x)
  <2>1. ASSUME NEW z \in Before(S, x) PROVE z \in Before(S, y)
    <3>1. z \in S /\ z < x
      BY <2>1 DEF Before
    <3>2. z \in Int /\ z < y
      BY <1>0, <3>1
    <3> QED BY <3>1, <3>2 DEF Before
  <2>2. x \in Before(S, y)
    BY <1>0 DEF Before
  <2>3. x \notin Before(S, x)
    BY <1>0 DEF Before
  <2> QED BY <2>1, <2>2, <2>3
<1>2. IsFiniteSet(Before(S, y))
  BY BeforeBounds
<1>3. /\ Cardinality(Before(S, x)) <= Cardinality(Before(S, y))
      /\ Cardinality(Before(S, y)) = Cardinality(Before(S, x)) => Before(S, y) = Before(S, x)
  BY <1>1, <1>2, FS_Subset
<1>4. Cardinality(Before(S, x)) \in Int /\ Cardinality(Before(S, y)) \in Int
  BY BeforeBounds, FS_CardinalityType
<1> QED BY <1>1, <1>3, <1>4

\* So the ranks 0 to |S| - 1 are taken by one member each: Nth finds it.
LEMMA NthMember ==
    ASSUME NEW S \in SUBSET Int, IsFiniteSet(S), NEW n \in 1 .. Cardinality(S)
    PROVE  Nth(S, n) \in S /\ Cardinality(Before(S, Nth(S, n))) = n - 1
<1> DEFINE Ranks == 0 .. Cardinality(S) - 1
           rank == [x \in S |-> Cardinality(Before(S, x))]
<1>1. Cardinality(S) \in Nat
  BY FS_CardinalityType
<1>2. \A x, y \in S : rank[x] = rank[y] => x = y
  <2> SUFFICES ASSUME NEW x \in S, NEW y \in S, rank[x] = rank[y] PROVE x = y
    OBVIOUS
  <2>1. Cardinality(Before(S, x)) = Cardinality(Before(S, y))
    OBVIOUS
  <2>2. Cardinality(Before(S, x)) \in Int
    BY BeforeBounds, FS_CardinalityType
  <2>3. ~ (x < y) /\ ~ (y < x)
    BY <2>1, <2>2, BeforeGrows
  <2> QED BY <2>3
<1>3. rank \in Injection(S, Ranks)
  <2>1. rank \in [S -> Ranks]
    BY BeforeBounds
  <2> HIDE DEF rank
  <2>2. DOMAIN rank = S
    BY <2>1
  <2> QED BY <1>2, <2>1, <2>2 DEF Injection, IsInjective
<1>4. IsFiniteSet(Ranks) /\ Cardinality(Ranks) = Cardinality(S)
  <2>1. /\ IsFiniteSet(Ranks)
        /\ Cardinality(Ranks) = IF 0 > Cardinality(S) - 1 THEN 0 ELSE Cardinality(S) - 1 - 0 + 1
    BY <1>1, 0 \in Int, Cardinality(S) - 1 \in Int, FS_Interval
  <2> HIDE DEF Ranks
  <2> QED BY <1>1, <2>1
<1>5. rank \in Surjection(S, Ranks)
  <2> HIDE DEF rank, Ranks
  <2> QED BY <1>3, <1>4, FS_Injection
<1>6. \E x \in S : rank[x] = n - 1
  <2>1. n - 1 \in Ranks
    BY <1>1
  <2> HIDE DEF rank, Ranks
  <2> QED BY <1>5, <2>1 DEF Surjection
<1>7. \E x \in S : Cardinality(Before(S, x)) = n - 1
  BY <1>6
<1> QED BY <1>7 DEF Nth

LEMMA NthIsUnique ==
    ASSUME NEW S \in SUBSET Int, IsFiniteSet(S), NEW n \in 1 .. Cardinality(S),
           NEW x \in S, Cardinality(Before(S, x)) = n - 1
    PROVE  Nth(S, n) = x
<1>1. Nth(S, n) \in S /\ Cardinality(Before(S, Nth(S, n))) = n - 1
  BY NthMember
<1> DEFINE y == Nth(S, n)
<1> HIDE DEF y
<1>2. y \in S /\ x \in Int /\ y \in Int /\ Cardinality(Before(S, y)) = Cardinality(Before(S, x))
  BY <1>1 DEF y
<1>3. Cardinality(Before(S, x)) \in Int
  OBVIOUS
<1>4. ~ (x < y) /\ ~ (y < x)
  BY <1>2, <1>3, BeforeGrows
<1> QED BY <1>2, <1>4 DEF y

\* A set of numbers that has a member has a smallest one.
LEMMA SmallestMember ==
    ASSUME NEW S \in SUBSET Int, IsFiniteSet(S), S # {}
    PROVE  Smallest(S) \in S /\ \A m \in S : Smallest(S) <= m
<1>1. 1 \in 1 .. Cardinality(S)
  BY FS_EmptySet, FS_CardinalityType
<1>2. Nth(S, 1) \in S /\ Cardinality(Before(S, Nth(S, 1))) = 0
  BY <1>1, NthMember
<1>3. Before(S, Nth(S, 1)) = {}
  BY <1>2, BeforeBounds, FS_EmptySet
<1>4. \A m \in S : m \in Int /\ ~ (m < Nth(S, 1))
  BY <1>3 DEF Before
<1>5. \A m \in S : Nth(S, 1) <= m
  <2> DEFINE least == Nth(S, 1)
  <2>1. least \in Int
    BY <1>2
  <2>2. \A m \in S : m \in Int /\ ~ (m < least)
    BY <1>4
  <2> HIDE DEF least
  <2>3. \A m \in S : least <= m
    BY <2>1, <2>2
  <2> QED BY <2>3 DEF least
<1> QED BY <1>2, <1>5 DEF Smallest

\* Without x, what comes before x keeps its rank and what comes after loses one.
LEMMA NthWithout ==
    ASSUME NEW S \in SUBSET Int, IsFiniteSet(S), NEW x \in S,
           NEW n \in 1 .. Cardinality(S) - 1
    PROVE  Nth(S \ {x}, n) = Nth(S, IF n <= Cardinality(Before(S, x)) THEN n ELSE n + 1)
<1> DEFINE m == IF n <= Cardinality(Before(S, x)) THEN n ELSE n + 1
           y == Nth(S, m)
           T == S \ {x}
<1>1. /\ Cardinality(S) \in Nat /\ Cardinality(Before(S, x)) \in 0 .. Cardinality(S) - 1
      /\ IsFiniteSet(T) /\ Cardinality(T) = Cardinality(S) - 1
  BY FS_CardinalityType, BeforeBounds, FS_RemoveElement
<1>2. m \in 1 .. Cardinality(S)
  BY <1>1
<1>3. y \in S /\ Cardinality(Before(S, y)) = m - 1
  BY <1>2, NthMember
<1>4. x \in Int /\ y \in Int /\ T \in SUBSET Int
  BY <1>3
<1>5. IsFiniteSet(Before(S, y)) /\ Before(T, y) = Before(S, y) \ {x}
  <2>1. IsFiniteSet(Before(S, y))
    BY <1>3, BeforeBounds
  <2>2. Before(T, y) = Before(S, y) \ {x}
    BY DEF Before
  <2> QED BY <2>1, <2>2
<1>6. /\ Cardinality(Before(T, y)) = IF x \in Before(S, y) THEN Cardinality(Before(S, y)) - 1
                                                          ELSE Cardinality(Before(S, y))
  BY <1>5, FS_RemoveElement
<1>7. y # x
  BY <1>1, <1>2, <1>3
<1>8. x \in Before(S, y) <=> n > Cardinality(Before(S, x))
  <2>1. x \in Before(S, y) <=> x < y
    BY DEF Before
  <2>2. x < y => Cardinality(Before(S, x)) < m - 1
    BY <1>3, BeforeGrows
  <2>3. y < x => m - 1 < Cardinality(Before(S, x))
    BY <1>3, BeforeGrows
  <2>4. x < y \/ y < x
    BY <1>4, <1>7
  <2> HIDE DEF y
  <2> QED BY <1>1, <2>1, <2>2, <2>3, <2>4
<1>9. y \in T /\ Cardinality(Before(T, y)) = n - 1
  BY <1>1, <1>3, <1>6, <1>7, <1>8
<1> HIDE DEF y, T
<1>10. Nth(T, n) = y
  BY <1>1, <1>4, <1>9, NthIsUnique
<1> QED BY <1>10 DEF y, T

\* The members of a sequence at some of its positions.
LEMMA AtSeq ==
    ASSUME NEW E, NEW s \in Seq(E), NEW S \in SUBSET (DOMAIN s)
    PROVE  /\ S \in SUBSET Int /\ IsFiniteSet(S) /\ Cardinality(S) \in Nat
           /\ At(s, S) \in Seq(E) /\ Len(At(s, S)) = Cardinality(S)
           /\ \A n \in 1 .. Cardinality(S) :
                 Nth(S, n) \in S /\ At(s, S)[n] = s[Nth(S, n)] /\ s[Nth(S, n)] \in E
<1>1. DOMAIN s = 1 .. Len(s) /\ Len(s) \in Nat /\ \A n \in 1 .. Len(s) : s[n] \in E
  BY LenProperties, ElementOfSeq
<1>2. IsFiniteSet(1 .. Len(s))
  BY <1>1, FS_Interval
<1>3. S \in SUBSET Int /\ IsFiniteSet(S) /\ Cardinality(S) \in Nat
  BY <1>1, <1>2, FS_Subset, FS_CardinalityType
<1>4. \A n \in 1 .. Cardinality(S) : Nth(S, n) \in S /\ s[Nth(S, n)] \in E
  BY <1>1, <1>3, NthMember
<1>5. At(s, S) \in Seq(E) /\ Len(At(s, S)) = Cardinality(S)
  BY <1>3, <1>4 DEF At
<1> QED BY <1>3, <1>4, <1>5 DEF At

\* To leave one position out is to take its line out of what the others give.
LEMMA RankOf ==
    ASSUME NEW S \in SUBSET Int, IsFiniteSet(S), NEW x \in S
    PROVE  /\ Cardinality(Before(S, x)) \in Nat
           /\ Cardinality(Before(S, x)) + 1 \in 1 .. Cardinality(S)
           /\ Nth(S, Cardinality(Before(S, x)) + 1) = x
<1> DEFINE r == Cardinality(Before(S, x)) + 1
<1>1. Cardinality(S) \in Nat /\ Cardinality(Before(S, x)) \in 0 .. Cardinality(S) - 1
  BY BeforeBounds, FS_CardinalityType
<1>2. r \in 1 .. Cardinality(S) /\ Cardinality(Before(S, x)) = r - 1
  BY <1>1
<1> HIDE DEF r
<1>3. Nth(S, r) = x
  BY <1>2, NthIsUnique
<1> QED BY <1>1, <1>2, <1>3 DEF r

LEMMA AtWithout ==
    ASSUME NEW E, NEW s \in Seq(E), NEW S \in SUBSET (DOMAIN s), NEW x \in S
    PROVE  /\ At(s, S \ {x}) \in Seq(E) /\ Len(At(s, S \ {x})) = Cardinality(S) - 1
           /\ \A n \in 1 .. Cardinality(S) - 1 :
                 /\ n <= Cardinality(Before(S, x)) => At(s, S \ {x})[n] = At(s, S)[n]
                 /\ n > Cardinality(Before(S, x)) => At(s, S \ {x})[n] = At(s, S)[n + 1]
<1> DEFINE T == S \ {x}
<1>1. S \in SUBSET Int /\ IsFiniteSet(S) /\ Cardinality(S) \in Nat
  BY AtSeq
<1>2. Cardinality(Before(S, x)) \in 0 .. Cardinality(S) - 1
  BY <1>1, BeforeBounds
<1>3. T \in SUBSET (DOMAIN s) /\ Cardinality(T) = Cardinality(S) - 1
  BY <1>1, FS_RemoveElement
<1>4. /\ At(s, T) \in Seq(E) /\ Len(At(s, T)) = Cardinality(S) - 1
      /\ \A n \in 1 .. Cardinality(S) - 1 : At(s, T)[n] = s[Nth(T, n)]
  <2> HIDE DEF T
  <2> QED BY <1>3, AtSeq
<1>5. ASSUME NEW n \in 1 .. Cardinality(S) - 1
      PROVE  /\ n <= Cardinality(Before(S, x)) => At(s, T)[n] = At(s, S)[n]
             /\ n > Cardinality(Before(S, x)) => At(s, T)[n] = At(s, S)[n + 1]
  <2> DEFINE m == IF n <= Cardinality(Before(S, x)) THEN n ELSE n + 1
  <2>1. m \in 1 .. Cardinality(S)
    BY <1>1, <1>2
  <2>2. Nth(T, n) = Nth(S, m)
    BY <1>1, NthWithout
  <2> HIDE DEF m
  <2>3. At(s, S)[m] = s[Nth(S, m)]
    BY <2>1, AtSeq
  <2>4. At(s, T)[n] = At(s, S)[m]
    BY <1>4, <2>2, <2>3
  <2> QED BY <1>1, <1>2, <2>4 DEF m
<1> QED BY <1>4, <1>5

-------------------------------------------------------------------------------
\* The lines of a table of contents, and what decode-toc.js does to them.

LEMMA ListedTop ==
    ASSUME NEW low \in Seq(Heading)
    PROVE  /\ Listed(low) \in SUBSET (DOMAIN low) /\ Level1(low) \in SUBSET Listed(low)
           /\ \A i \in DOMAIN low : low[i] \in Heading /\ low[i].level \in 1 .. 6
                                     /\ low[i].title \in STRING
           /\ Listed(low) # {} =>
                 /\ TopLevel(low) \in 1 .. 3
                 /\ \E i \in Listed(low) : low[i].level = TopLevel(low)
                 /\ \A i \in Listed(low) : low[i].level \in TopLevel(low) .. 3
<1>1. \A i \in DOMAIN low : low[i] \in Heading
  BY LenProperties, ElementOfSeq
<1>2. \A i \in DOMAIN low : low[i].level \in 1 .. 6 /\ low[i].title \in STRING
  BY <1>1 DEF Heading
<1>3. Listed(low) \in SUBSET (DOMAIN low) /\ Level1(low) \in SUBSET Listed(low)
  BY DEF Listed, Level1
<1>4. ASSUME Listed(low) # {}
      PROVE  /\ TopLevel(low) \in 1 .. 3
             /\ \E i \in Listed(low) : low[i].level = TopLevel(low)
             /\ \A i \in Listed(low) : low[i].level \in TopLevel(low) .. 3
  <2> DEFINE levels == {low[i].level : i \in Listed(low)}
  <2>0. \A i \in Listed(low) : low[i].level \in 1 .. 3
    BY <1>2 DEF Listed
  <2>1. levels \in SUBSET (1 .. 3) /\ levels # {}
    <3>1. PICK i \in Listed(low) : TRUE
      BY <1>4
    <3>2. low[i].level \in levels
      OBVIOUS
    <3>3. \A l \in levels : l \in 1 .. 3
      BY <2>0
    <3> QED BY <3>2, <3>3
  <2>2. IsFiniteSet(1 .. 3)
    BY 1 \in Int, 3 \in Int, FS_Interval
  <2>3. IsFiniteSet(levels)
    BY <2>1, <2>2, FS_Subset
  <2>4. Smallest(levels) \in levels /\ \A m \in levels : Smallest(levels) <= m
    <3> HIDE DEF levels
    <3>1. levels \in SUBSET Int
      BY <2>1
    <3> QED BY <2>1, <2>3, <3>1, SmallestMember
  <2>5. TopLevel(low) = Smallest(levels)
    BY DEF TopLevel
  <2>6. \A i \in Listed(low) : low[i].level \in levels
    OBVIOUS
  <2>7. \E i \in Listed(low) : low[i].level = TopLevel(low)
    BY <2>4, <2>5
  <2> HIDE DEF levels
  <2>8. TopLevel(low) \in 1 .. 3
    BY <2>1, <2>4, <2>5
  <2>9. ASSUME NEW i \in Listed(low) PROVE low[i].level \in TopLevel(low) .. 3
    <3>1. TopLevel(low) <= low[i].level
      BY <2>4, <2>5, <2>6
    <3> QED BY <2>0, <2>8, <3>1
  <2> QED BY <2>7, <2>8, <2>9
<1> QED BY <1>1, <1>2, <1>3, <1>4

\* What doctoc writes: one line for each listed heading, none of them further left
\* than the margin.
LEMMA TableLines ==
    ASSUME NEW low \in Seq(Heading)
    PROVE  LET L == Listed(low)
               N == Cardinality(L)
               top == TopLevel(low)
               toc == Table(low)
           IN  /\ N \in Nat /\ toc \in Seq(Entry) /\ Len(toc) = N
               /\ \A n \in 1 .. N :
                     /\ Nth(L, n) \in L /\ low[Nth(L, n)].level \in top .. 3
                     /\ top \in 1 .. 3 /\ low[Nth(L, n)].title \in STRING
                     /\ At(low, L)[n] = low[Nth(L, n)]
                     /\ toc[n] = [indent |-> 2 * (low[Nth(L, n)].level - top),
                                  title |-> low[Nth(L, n)].title, raw |-> TRUE]
                     /\ toc[n].indent \in Nat /\ toc[n].indent % 2 = 0
<1> DEFINE L == Listed(low)
           N == Cardinality(L)
           top == TopLevel(low)
           toc == Table(low)
<1>1. L \in SUBSET (DOMAIN low)
  BY ListedTop
<1> HIDE DEF L
<1>2. /\ N \in Nat /\ At(low, L) \in Seq(Heading) /\ Len(At(low, L)) = N
      /\ \A n \in 1 .. N : Nth(L, n) \in L /\ At(low, L)[n] = low[Nth(L, n)]
  BY <1>1, AtSeq
<1>3. DOMAIN At(low, L) = 1 .. N
  BY <1>2, LenProperties
<1>4. ASSUME NEW n \in 1 .. N
      PROVE  /\ low[Nth(L, n)].level \in top .. 3 /\ top \in 1 .. 3
             /\ low[Nth(L, n)].title \in STRING
  <2>1. Nth(L, n) \in L /\ Nth(L, n) \in DOMAIN low
    BY <1>1, <1>2
  <2> QED BY <2>1, ListedTop DEF L
<1>5. toc = [n \in 1 .. N |-> [indent |-> 2 * (At(low, L)[n].level - top),
                               title |-> At(low, L)[n].title, raw |-> TRUE]]
  BY <1>3 DEF Table, L
<1>6. ASSUME NEW n \in 1 .. N
      PROVE  /\ toc[n] = [indent |-> 2 * (low[Nth(L, n)].level - top),
                          title |-> low[Nth(L, n)].title, raw |-> TRUE]
             /\ toc[n] \in Entry /\ toc[n].indent \in Nat /\ toc[n].indent % 2 = 0
  <2> HIDE DEF toc, top, N
  <2>1. toc[n] = [indent |-> 2 * (low[Nth(L, n)].level - top),
                  title |-> low[Nth(L, n)].title, raw |-> TRUE]
    BY <1>2, <1>5
  <2>2. PICK k \in Nat : k = low[Nth(L, n)].level - top
    BY <1>4
  <2>3. 2 * k \in Nat /\ (2 * k) % 2 = 0
    OBVIOUS
  <2> QED BY <1>4, <2>1, <2>2, <2>3 DEF Entry
<1>7. toc \in Seq(Entry) /\ Len(toc) = N
  <2>1. \A n \in 1 .. N : toc[n] \in Entry
    BY <1>6
  <2> HIDE DEF N
  <2> QED BY <1>2, <1>5, <2>1
<1> QED BY <1>2, <1>4, <1>6, <1>7 DEF L

\* The edits of decode-toc.js turn lines into lines.
LEMMA RemovedLine ==
    ASSUME NEW toc \in Seq(Entry), NEW r \in DOMAIN toc
    PROVE  /\ RemoveAt(toc, r) \in Seq(Entry) /\ Len(RemoveAt(toc, r)) = Len(toc) - 1
           /\ \A n \in 1 .. Len(toc) - 1 : RemoveAt(toc, r)[n] = toc[IF n < r THEN n ELSE n + 1]
<1> DEFINE a == SubSeq(toc, 1, r - 1)
           b == SubSeq(toc, r + 1, Len(toc))
<1>1. /\ Len(toc) \in Nat /\ r \in 1 .. Len(toc)
      /\ \A i \in 1 .. Len(toc) : toc[i] \in Entry
  BY LenProperties, ElementOfSeq
<1>2. a \in Seq(Entry) /\ Len(a) = r - 1 /\ \A i \in 1 .. r - 1 : a[i] = toc[i]
  <2>1. \A i \in 1 .. r - 1 : toc[i] \in Entry
    BY <1>1
  <2>2. /\ a \in Seq(Entry) /\ Len(a) = IF 1 <= r - 1 THEN r - 1 - 1 + 1 ELSE 0
        /\ \A i \in 1 .. r - 1 - 1 + 1 : a[i] = toc[1 + i - 1]
    BY <1>1, <2>1, 1 \in Int, r - 1 \in Int, SubSeqProperties
  <2> HIDE DEF a
  <2> QED BY <1>1, <2>2
<1>3. /\ b \in Seq(Entry) /\ Len(b) = Len(toc) - r
      /\ \A i \in 1 .. Len(toc) - r : b[i] = toc[r + i]
  <2>1. \A i \in r + 1 .. Len(toc) : toc[i] \in Entry
    BY <1>1
  <2>2. /\ b \in Seq(Entry) /\ Len(b) = IF r + 1 <= Len(toc) THEN Len(toc) - (r + 1) + 1 ELSE 0
        /\ \A i \in 1 .. Len(toc) - (r + 1) + 1 : b[i] = toc[r + 1 + i - 1]
    BY <1>1, <2>1, r + 1 \in Int, Len(toc) \in Int, SubSeqProperties
  <2> HIDE DEF b
  <2> QED BY <1>1, <2>2
<1>4. RemoveAt(toc, r) = a \o b
  BY DEF RemoveAt
<1> HIDE DEF a, b
<1>5. /\ a \o b \in Seq(Entry) /\ Len(a \o b) = Len(a) + Len(b)
      /\ \A i \in 1 .. Len(a) + Len(b) :
            (a \o b)[i] = IF i <= Len(a) THEN a[i] ELSE b[i - Len(a)]
  BY <1>2, <1>3, ConcatProperties
<1>6. ASSUME NEW n \in 1 .. Len(toc) - 1
      PROVE  (a \o b)[n] = toc[IF n < r THEN n ELSE n + 1]
  <2>1. CASE n < r
    <3>1. n \in 1 .. Len(a) + Len(b) /\ n <= Len(a) /\ n \in 1 .. r - 1
      BY <1>1, <1>2, <1>3, <2>1
    <3>2. (a \o b)[n] = IF n <= Len(a) THEN a[n] ELSE b[n - Len(a)]
      BY <1>5, <3>1
    <3>3. a[n] = toc[n]
      BY <1>2, <3>1
    <3> QED BY <2>1, <3>1, <3>2, <3>3
  <2>2. CASE ~ (n < r)
    <3>1. (a \o b)[n] = b[n - (r - 1)] /\ n - (r - 1) \in 1 .. Len(toc) - r
      <4>1. /\ n \in 1 .. Len(a) + Len(b) /\ ~ (n <= Len(a)) /\ n - Len(a) = n - (r - 1)
            /\ n - (r - 1) \in 1 .. Len(toc) - r
        BY <1>1, <1>2, <1>3, <2>2
      <4>2. (a \o b)[n] = IF n <= Len(a) THEN a[n] ELSE b[n - Len(a)]
        BY <1>5, <4>1
      <4> QED BY <4>1, <4>2
    <3>2. b[n - (r - 1)] = toc[r + (n - (r - 1))]
      BY <1>3, <3>1
    <3>3. r + (n - (r - 1)) = n + 1
      BY <1>1
    <3> QED BY <2>2, <3>1, <3>2, <3>3
  <2> QED BY <2>1, <2>2
<1>7. Len(a) + Len(b) = Len(toc) - 1
  BY <1>1, <1>2, <1>3
<1> QED BY <1>4, <1>5, <1>6, <1>7

LEMMA OutdentedLines ==
    ASSUME NEW toc \in Seq(Entry)
    PROVE  /\ Outdented(toc) \in Seq(Entry) /\ Len(Outdented(toc)) = Len(toc)
           /\ \A i \in 1 .. Len(toc) :
                 /\ Outdented(toc)[i].indent = IF toc[i].indent >= 2 THEN toc[i].indent - 2
                                                                     ELSE toc[i].indent
                 /\ Outdented(toc)[i].title = toc[i].title
<1>1. DOMAIN toc = 1 .. Len(toc) /\ Len(toc) \in Nat /\ \A i \in 1 .. Len(toc) : toc[i] \in Entry
  BY LenProperties, ElementOfSeq
<1>2. ASSUME NEW i \in 1 .. Len(toc)
      PROVE  /\ Outdented(toc)[i] \in Entry
             /\ Outdented(toc)[i].indent = IF toc[i].indent >= 2 THEN toc[i].indent - 2
                                                                 ELSE toc[i].indent
             /\ Outdented(toc)[i].title = toc[i].title
  <2>1. toc[i] \in Entry
    BY <1>1
  <2>2. Outdented(toc)[i] = [toc[i] EXCEPT !.indent = IF @ >= 2 THEN @ - 2 ELSE @]
    BY <1>1 DEF Outdented
  <2> QED BY <2>1, <2>2 DEF Entry
<1>3. Outdented(toc) = [i \in 1 .. Len(toc) |-> Outdented(toc)[i]]
  BY <1>1 DEF Outdented
<1> QED BY <1>1, <1>2, <1>3

LEMMA EditedLines ==
    ASSUME NEW toc \in Seq(Entry)
    PROVE  /\ Edited(toc) \in Seq(Entry) /\ Len(Edited(toc)) = Len(toc)
           /\ \A i \in 1 .. Len(toc) :
                 /\ Edited(toc)[i].indent = IF i = 1 THEN 0 ELSE toc[i].indent
                 /\ Edited(toc)[i].title = toc[i].title
<1>1. DOMAIN toc = 1 .. Len(toc) /\ Len(toc) \in Nat /\ \A i \in 1 .. Len(toc) : toc[i] \in Entry
  BY LenProperties, ElementOfSeq
<1>2. ASSUME NEW i \in 1 .. Len(toc)
      PROVE  /\ Edited(toc)[i] \in Entry
             /\ Edited(toc)[i].indent = IF i = 1 THEN 0 ELSE toc[i].indent
             /\ Edited(toc)[i].title = toc[i].title
  <2>1. toc[i] \in Entry
    BY <1>1
  <2>2. Edited(toc)[i] = [toc[i] EXCEPT !.indent = IF i = 1 THEN 0 ELSE @]
    BY <1>1 DEF Edited
  <2> QED BY <2>1, <2>2 DEF Entry
<1>3. Edited(toc) = [i \in 1 .. Len(toc) |-> Edited(toc)[i]]
  BY <1>1 DEF Edited
<1> QED BY <1>1, <1>2, <1>3

LEMMA TitleHit ==
    ASSUME NEW toc \in Seq(Entry), NEW title, TitleLines(toc, title) # {}
    PROVE  Smallest(TitleLines(toc, title)) \in TitleLines(toc, title)
<1>1. TitleLines(toc, title) \in SUBSET (1 .. Len(toc)) /\ Len(toc) \in Nat
  BY LenProperties DEF TitleLines
<1>2. IsFiniteSet(1 .. Len(toc))
  BY <1>1, 1 \in Int, FS_Interval
<1>3. TitleLines(toc, title) \in SUBSET Int /\ IsFiniteSet(TitleLines(toc, title))
  BY <1>1, <1>2, FS_Subset
<1> HIDE DEF TitleLines
<1> QED BY <1>3, SmallestMember

LEMMA WithoutTitleLines ==
    ASSUME NEW toc \in Seq(Entry), NEW title
    PROVE  WithoutTitle(toc, title) \in Seq(Entry)
<1> DEFINE hits == TitleLines(toc, title)
<1>1. CASE title = "" \/ hits = {}
  BY <1>1 DEF WithoutTitle
<1>2. CASE ~ (title = "" \/ hits = {})
  <2>1. Smallest(hits) \in DOMAIN toc
    BY <1>2, TitleHit DEF TitleLines
  <2>2. RemoveAt(toc, Smallest(hits)) \in Seq(Entry)
    BY <2>1, RemovedLine
  <2>3. Outdented(RemoveAt(toc, Smallest(hits))) \in Seq(Entry)
    BY <2>2, OutdentedLines
  <2> QED BY <1>2, <2>3 DEF WithoutTitle
<1> QED BY <1>1, <1>2

LEMMA DecodedLines ==
    ASSUME NEW body, NEW toc \in Seq(Entry), \A i \in DOMAIN toc : toc[i].indent % 2 = 0
    PROVE  LET kept == WithoutTitle(Edited(toc), h1Title(body))
           IN  /\ kept \in Seq(Entry)
               /\ decode(body, toc) \in Seq(Entry) /\ Len(decode(body, toc)) = Len(kept)
               /\ \A i \in 1 .. Len(kept) :
                     /\ decode(body, toc)[i] =
                           [indent |-> 4 * (kept[i].indent \div 2) + (IF i = 1 THEN Lead(toc) ELSE 0),
                            title |-> kept[i].title, raw |-> FALSE]
                     /\ decode(body, toc)[i].indent % 2 = 0
<1> DEFINE kept == WithoutTitle(Edited(toc), h1Title(body))
<1>1. kept \in Seq(Entry)
  BY EditedLines, WithoutTitleLines
<1> HIDE DEF kept
<1>2. /\ DOMAIN kept = 1 .. Len(kept) /\ Len(kept) \in Nat
      /\ \A i \in 1 .. Len(kept) : kept[i] \in Entry
  BY <1>1, LenProperties, ElementOfSeq
<1>3. Lead(toc) \in Nat /\ Lead(toc) % 2 = 0
  <2>1. CASE toc = <<>>
    BY <2>1 DEF Lead
  <2>2. CASE toc # <<>>
    <3>1. 1 \in DOMAIN toc /\ toc[1] \in Entry
      BY <2>2, EmptySeq, LenProperties, ElementOfSeq
    <3> QED BY <2>2, <3>1 DEF Lead, Entry
  <2> QED BY <2>1, <2>2
<1>4. ASSUME NEW i \in 1 .. Len(kept)
      PROVE  /\ decode(body, toc)[i] =
                   [indent |-> 4 * (kept[i].indent \div 2) + (IF i = 1 THEN Lead(toc) ELSE 0),
                    title |-> kept[i].title, raw |-> FALSE]
             /\ decode(body, toc)[i] \in Entry /\ decode(body, toc)[i].indent % 2 = 0
  <2>1. kept[i] \in Entry
    BY <1>2
  <2>2. decode(body, toc)[i] =
            [kept[i] EXCEPT !.indent = 4 * (@ \div 2) + (IF i = 1 THEN Lead(toc) ELSE 0),
                            !.raw = FALSE]
    BY <1>2 DEF decode, kept
  <2>3. decode(body, toc)[i] =
            [indent |-> 4 * (kept[i].indent \div 2) + (IF i = 1 THEN Lead(toc) ELSE 0),
             title |-> kept[i].title, raw |-> FALSE]
    BY <2>1, <2>2 DEF Entry
  <2>4. PICK k \in Nat : k = kept[i].indent \div 2
    BY <2>1 DEF Entry
  <2>5. PICK l \in Nat : l = (IF i = 1 THEN Lead(toc) ELSE 0) /\ l % 2 = 0
    BY <1>3
  <2>6. 4 * k + l \in Nat /\ (4 * k + l) % 2 = 0
    BY <2>5
  <2> QED BY <2>1, <2>3, <2>4, <2>5, <2>6 DEF Entry
<1>5. decode(body, toc) = [i \in 1 .. Len(kept) |-> decode(body, toc)[i]]
  BY <1>2 DEF decode, kept
<1>6. decode(body, toc) \in Seq(Entry) /\ Len(decode(body, toc)) = Len(kept)
  BY <1>2, <1>4, <1>5
<1> QED BY <1>1, <1>4, <1>6 DEF kept

\* The first line of a table stands at the margin if no heading is further left.
LEMMA FirstAtMargin ==
    ASSUME NEW low \in Seq(Heading), TopmostFirst(low)
    PROVE  /\ Lead(Table(low)) = 0
           /\ \A n \in 1 .. Len(Table(low)) :
                 /\ Edited(Table(low))[n].indent = Table(low)[n].indent
                 /\ Edited(Table(low))[n].title = Table(low)[n].title
<1> DEFINE L == Listed(low)
           toc == Table(low)
<1>1. toc \in Seq(Entry) /\ Len(toc) = Cardinality(L) /\ Cardinality(L) \in Nat
  BY TableLines
<1>2. ASSUME 1 \in 1 .. Len(toc) PROVE toc[1].indent = 0
  <2>1. /\ L # {} /\ Nth(L, 1) \in L /\ L \in SUBSET (DOMAIN low)
        /\ toc[1].indent = 2 * (low[Nth(L, 1)].level - TopLevel(low))
    <3>1. 1 \in 1 .. Cardinality(L)
      BY <1>1, <1>2
    <3>2. /\ Nth(L, 1) \in L
          /\ toc[1] = [indent |-> 2 * (low[Nth(L, 1)].level - TopLevel(low)),
                       title |-> low[Nth(L, 1)].title, raw |-> TRUE]
      BY <3>1, TableLines
    <3>3. toc[1].indent = 2 * (low[Nth(L, 1)].level - TopLevel(low))
      <4> HIDE DEF toc
      <4> QED BY <3>2
    <3> QED BY <3>2, <3>3, ListedTop
  <2>2. L \in SUBSET Int /\ IsFiniteSet(L)
    BY <2>1, AtSeq
  <2>3. Smallest(L) \in L /\ \A m \in L : Smallest(L) <= m
    BY <2>1, <2>2, SmallestMember
  <2>4. Cardinality(Before(L, Nth(L, 1))) = 0
    BY <1>1, <1>2, <2>2, NthMember
  <2>5. Before(L, Nth(L, 1)) = {}
    BY <2>1, <2>2, <2>4, BeforeBounds, FS_EmptySet
  <2>6. Nth(L, 1) = Smallest(L)
    <3> DEFINE a == Nth(L, 1)
               b == Smallest(L)
    <3>1. a \in Int /\ b \in Int /\ b <= a /\ ~ (b < a)
      BY <2>1, <2>2, <2>3, <2>5 DEF Before
    <3> HIDE DEF a, b
    <3>2. a = b
      BY <3>1
    <3> QED BY <3>2 DEF a, b
  <2>7. \E i \in L : low[i].level = TopLevel(low)
    BY <2>1, ListedTop
  <2>8. /\ low[Nth(L, 1)].level \in TopLevel(low) .. 3 /\ TopLevel(low) \in Int
        /\ \A i \in L : low[Nth(L, 1)].level <= low[i].level
    <3>1. \A i \in L : low[i].level \in TopLevel(low) .. 3 /\ low[i].level \in Int
                       /\ TopLevel(low) \in Int
      BY <2>1, ListedTop
    <3>2. \A i \in L : low[i].level >= low[Nth(L, 1)].level
      BY <2>6 DEF TopmostFirst
    <3> QED BY <2>1, <3>1, <3>2
  <2>9. low[Nth(L, 1)].level = TopLevel(low)
    BY <2>7, <2>8
  <2> QED BY <2>1, <2>8, <2>9
<1> HIDE DEF toc
<1>3. Lead(toc) = 0
  <2>1. CASE toc = <<>>
    BY <2>1 DEF Lead
  <2>2. CASE toc # <<>>
    BY <1>1, <1>2, <2>2, EmptySeq DEF Lead
  <2> QED BY <2>1, <2>2
<1>4. \A n \in 1 .. Len(toc) : /\ Edited(toc)[n].indent = toc[n].indent
                               /\ Edited(toc)[n].title = toc[n].title
  BY <1>1, <1>2, EditedLines
<1> QED BY <1>3, <1>4 DEF toc

\* Two sequences of lines are the same if their lines are.
LEMMA SameLines ==
    ASSUME NEW s \in Seq(Entry), NEW t \in Seq(Entry), Len(s) = Len(t),
           \A n \in 1 .. Len(s) : s[n] = t[n]
    PROVE  s = t
BY SeqEqual

\* A table that does not list the title, and no section at its margin that has the same
\* name: the lines keep their depth.
LEMMA DecodeUntitled ==
    ASSUME NEW body, NEW low \in Seq(Heading), TopmostFirst(low), Level1(low) = {}
    PROVE  (h1Title(body) = "" \/ NoNamesake(low, h1Title(body))) =>
               decode(body, Table(low)) = Expected(low)
<1>0. SUFFICES ASSUME h1Title(body) = "" \/ NoNamesake(low, h1Title(body))
               PROVE  decode(body, Table(low)) = Expected(low)
  OBVIOUS
<1> DEFINE L == Listed(low)
           N == Cardinality(L)
           top == TopLevel(low)
           toc == Table(low)
           kept == WithoutTitle(Edited(toc), h1Title(body))
           done == decode(body, toc)
<1>1. N \in Nat /\ toc \in Seq(Entry) /\ Len(toc) = N
  BY TableLines
<1>3. DOMAIN toc = 1 .. N /\ \A i \in DOMAIN toc : toc[i].indent % 2 = 0
  BY <1>1, LenProperties, TableLines
<1>4. Lead(toc) = 0
  BY FirstAtMargin
<1>2. kept = Edited(toc)
  <2>1. CASE h1Title(body) = ""
    BY <2>1 DEF WithoutTitle
  <2>2. CASE NoNamesake(low, h1Title(body))
    <3>1. ASSUME NEW n \in TitleLines(Edited(toc), h1Title(body)) PROVE FALSE
      <4> DEFINE i == Nth(L, n)
      <4>1. n \in 1 .. N /\ Edited(toc)[n].title = h1Title(body) /\ Edited(toc)[n].indent = 0
        BY <1>1, <3>1, EditedLines, LenProperties DEF TitleLines
      <4>2. toc[n].title = h1Title(body) /\ toc[n].indent = 0
        BY <1>1, <4>1, FirstAtMargin
      <4>3. /\ i \in L /\ low[i].level \in top .. 3 /\ top \in 1 .. 3
            /\ toc[n] = [indent |-> 2 * (low[i].level - top), title |-> low[i].title, raw |-> TRUE]
        BY <4>1, TableLines
      <4> HIDE DEF toc, i, L, top, N
      <4>4. low[i].level = top /\ low[i].title = h1Title(body)
        BY <4>2, <4>3
      <4> QED BY <2>2, <4>3, <4>4 DEF NoNamesake, L, top
    <3>2. TitleLines(Edited(toc), h1Title(body)) = {}
      BY <3>1
    <3> QED BY <3>2 DEF WithoutTitle
  <2> QED BY <1>0, <2>1, <2>2
<1>5. Len(kept) = N /\ \A n \in 1 .. N : kept[n].indent = toc[n].indent /\ kept[n].title = toc[n].title
  BY <1>1, <1>2, EditedLines, FirstAtMargin
<1>6. /\ done \in Seq(Entry) /\ Len(done) = N
      /\ \A n \in 1 .. N : done[n] = [indent |-> 4 * (kept[n].indent \div 2) + (IF n = 1 THEN Lead(toc) ELSE 0),
                                      title |-> kept[n].title, raw |-> FALSE]
  <2> HIDE DEF N
  <2> QED BY <1>1, <1>3, <1>5, DecodedLines
<1>7. ASSUME NEW n \in 1 .. N
      PROVE  /\ done[n] = [indent |-> 4 * (low[Nth(L, n)].level - top),
                           title |-> low[Nth(L, n)].title, raw |-> FALSE]
             /\ At(low, L)[n] = low[Nth(L, n)]
  <2>1. /\ low[Nth(L, n)].level \in top .. 3 /\ top \in 1 .. 3
        /\ At(low, L)[n] = low[Nth(L, n)]
        /\ toc[n] = [indent |-> 2 * (low[Nth(L, n)].level - top),
                     title |-> low[Nth(L, n)].title, raw |-> TRUE]
    BY TableLines
  <2>2. PICK k \in Nat : k = low[Nth(L, n)].level - top
    BY <2>1
  <2>3. 4 * ((2 * k) \div 2) + 0 = 4 * k
    OBVIOUS
  <2>4. kept[n].indent = 2 * k /\ kept[n].title = low[Nth(L, n)].title
    BY <1>5, <2>1, <2>2
  <2> HIDE DEF done, kept, toc, N
  <2>5. done[n] = [indent |-> 4 * ((2 * k) \div 2) + 0, title |-> low[Nth(L, n)].title, raw |-> FALSE]
    BY <1>4, <1>6, <2>4
  <2> QED BY <2>1, <2>2, <2>3, <2>5
<1>8. /\ At(low, L) \in Seq(Heading) /\ Len(At(low, L)) = N
      /\ DOMAIN At(low, L) = 1 .. N
  BY ListedTop, AtSeq, LenProperties
<1>9. Expected(low) = [n \in 1 .. N |-> [indent |-> 4 * (At(low, L)[n].level - top),
                                          title |-> At(low, L)[n].title, raw |-> FALSE]]
  <2>1. L \ {} = L
    OBVIOUS
  <2> QED BY <1>8, <2>1 DEF Expected
<1> HIDE DEF done, N, toc, top, L
<1>10. \A n \in 1 .. N : Expected(low)[n] = done[n] /\ done[n] \in Entry
  BY <1>6, <1>7, <1>9, ElementOfSeq
<1>11. Expected(low) \in Seq(Entry) /\ Len(Expected(low)) = N
  <2>1. Expected(low) = [n \in 1 .. N |-> Expected(low)[n]]
    BY <1>9
  <2>2. \A n \in 1 .. N : Expected(low)[n] \in Entry
    BY <1>10
  <2> HIDE DEF Expected
  <2> QED BY <1>1, <2>1, <2>2
<1>12. Expected(low) = done
  BY <1>6, <1>10, <1>11, SameLines
<1> QED BY <1>12 DEF done, toc

\* A table that lists the title: its line goes, and the others move to the margin.
LEMMA DecodeTitled ==
    ASSUME NEW body, NEW low \in Seq(Heading), TopmostFirst(low), Level1(low) # {},
           OneTitle(low)
    PROVE  h1Title(body) = low[Smallest(Level1(low))].title =>
               decode(body, Table(low)) = Expected(low)
<1>0. SUFFICES ASSUME h1Title(body) = low[Smallest(Level1(low))].title
               PROVE  decode(body, Table(low)) = Expected(low)
  OBVIOUS
<1> DEFINE L == Listed(low)
           N == Cardinality(L)
           toc == Table(low)
           h == Smallest(Level1(low))
           r == Cardinality(Before(L, h)) + 1
           rest == At(low, L \ {h})
           edited == Edited(toc)
           out == RemoveAt(edited, r)
           kept == WithoutTitle(edited, h1Title(body))
           done == decode(body, toc)
<1>1. N \in Nat /\ toc \in Seq(Entry) /\ Len(toc) = N
  BY TableLines
<1>2. h \in Level1(low) /\ h \in L /\ L \in SUBSET (DOMAIN low) /\ low[h].level = 1
  <2>1. L \in SUBSET (DOMAIN low) /\ Level1(low) \in SUBSET L
    BY ListedTop
  <2>2. L \in SUBSET Int /\ IsFiniteSet(L)
    BY <2>1, AtSeq
  <2>3. Level1(low) \in SUBSET Int /\ IsFiniteSet(Level1(low))
    BY <2>1, <2>2, FS_Subset
  <2>4. h \in Level1(low)
    BY <2>3, SmallestMember
  <2> QED BY <2>1, <2>4 DEF Level1
<1>3. \A i \in L : low[i].level = 1 => i = h
  BY <1>2 DEF OneTitle, Level1
<1>4. /\ h1Title(body) = low[h].title /\ h1Title(body) # ""
  BY <1>0, <1>2 DEF OneTitle
<1>5. TopLevel(low) = 1
  <2>1. TopLevel(low) \in 1 .. 3 /\ low[h].level \in TopLevel(low) .. 3
    BY <1>2, ListedTop
  <2> QED BY <1>2, <2>1
<1>6. /\ r \in Int /\ r \in 1 .. N /\ Nth(L, r) = h /\ rest \in Seq(Heading) /\ Len(rest) = N - 1
      /\ \A n \in 1 .. N - 1 :
            /\ (IF n < r THEN n ELSE n + 1) \in 1 .. N
            /\ rest[n] = At(low, L)[IF n < r THEN n ELSE n + 1]
  <2> HIDE DEF L, h
  <2>1. L \in SUBSET Int /\ IsFiniteSet(L)
    BY <1>2, AtSeq
  <2>2. Cardinality(Before(L, h)) \in Nat /\ r \in 1 .. N /\ Nth(L, r) = h
    BY <1>2, <2>1, RankOf
  <2>3. rest \in Seq(Heading) /\ Len(rest) = N - 1
    BY <1>2, AtWithout
  <2>4. ASSUME NEW n \in 1 .. N - 1
        PROVE  /\ (IF n < r THEN n ELSE n + 1) \in 1 .. N
               /\ rest[n] = At(low, L)[IF n < r THEN n ELSE n + 1]
    <3> DEFINE c == Cardinality(Before(L, h))
    <3>1. /\ n <= c => rest[n] = At(low, L)[n]
          /\ n > c => rest[n] = At(low, L)[n + 1]
      <4>1. \A k \in 1 .. Cardinality(L) - 1 :
               /\ k <= Cardinality(Before(L, h)) => At(low, L \ {h})[k] = At(low, L)[k]
               /\ k > Cardinality(Before(L, h)) => At(low, L \ {h})[k] = At(low, L)[k + 1]
        BY <1>2, AtWithout
      <4> QED BY <4>1
    <3>2. c \in Nat /\ r = c + 1 /\ r \in 1 .. N /\ N \in Nat
      BY <1>1, <2>2
    <3> HIDE DEF c, r, N
    <3>3. CASE n <= c
      BY <3>1, <3>2, <3>3
    <3>4. CASE ~ (n <= c)
      BY <3>1, <3>2, <3>4
    <3> QED BY <3>3, <3>4
  <2> HIDE DEF r, N, rest
  <2>5. r \in Int
    BY <2>2
  <2> QED BY <2>2, <2>3, <2>4, <2>5
<1>7. \A n \in 1 .. N : n # r => Nth(L, n) # h
  <2>1. L \in SUBSET Int /\ IsFiniteSet(L)
    BY <1>2, AtSeq
  <2>2. \A n \in 1 .. N : Cardinality(Before(L, Nth(L, n))) = n - 1
    BY <2>1, NthMember
  <2>3. Cardinality(Before(L, h)) = r - 1
    BY <1>6, <2>2
  <2> HIDE DEF r, h, N
  <2> QED BY <1>6, <2>2, <2>3
\* Each line of the table, by the heading it stands for.
<1> DEFINE head(n) == low[Nth(L, n)]
<1>8. ASSUME NEW n \in 1 .. N
      PROVE  /\ head(n).level \in 1 .. 3 /\ head(n).title \in STRING
             /\ At(low, L)[n] = head(n)
             /\ edited[n].indent = 2 * (head(n).level - 1) /\ edited[n].title = head(n).title
             /\ n # r => head(n).level \in 2 .. 3
  <2>1. /\ head(n).level \in 1 .. 3 /\ head(n).title \in STRING /\ At(low, L)[n] = head(n)
        /\ toc[n] = [indent |-> 2 * (head(n).level - 1), title |-> head(n).title, raw |-> TRUE]
        /\ Nth(L, n) \in L
    BY <1>5, TableLines
  <2>2. edited[n].indent = toc[n].indent /\ edited[n].title = toc[n].title
    BY <1>1, FirstAtMargin
  <2>3. n # r => head(n).level # 1
    BY <1>3, <1>7, <2>1
  <2> HIDE DEF toc, edited, r, N
  <2> QED BY <2>1, <2>2, <2>3
<1>9. head(r) = low[h]
  BY <1>6
<1> HIDE DEF toc, head
<1>10. edited \in Seq(Entry) /\ Len(edited) = N /\ DOMAIN edited = 1 .. N
  BY <1>1, EditedLines, LenProperties
<1> HIDE DEF edited, N, r, h
<1>11. TitleLines(edited, h1Title(body)) = {r}
  <2>1. r \in TitleLines(edited, h1Title(body))
    <3>1. edited[r].indent = 2 * (head(r).level - 1) /\ edited[r].title = head(r).title
      BY <1>6, <1>8
    <3>2. edited[r].indent = 2 * (1 - 1)
      BY <1>2, <1>9, <3>1
    <3>3. edited[r].title = h1Title(body)
      BY <1>4, <1>9, <3>1
    <3> QED BY <1>6, <1>10, <3>2, <3>3 DEF TitleLines
  <2>2. ASSUME NEW n \in TitleLines(edited, h1Title(body)) PROVE n = r
    <3>1. n \in 1 .. N /\ edited[n].indent = 0
      BY <1>10, <2>2 DEF TitleLines
    <3>2. head(n).level = 1
      BY <1>8, <3>1
    <3> QED BY <1>8, <3>1, <3>2
  <2> QED BY <2>1, <2>2
<1>12. kept = Outdented(out)
  <2>1. Smallest({r}) = r
    BY <1>6 DEF Smallest
  <2> QED BY <1>4, <1>11, <2>1 DEF WithoutTitle
<1>13. /\ out \in Seq(Entry) /\ Len(out) = N - 1
       /\ \A n \in 1 .. N - 1 : out[n] = edited[IF n < r THEN n ELSE n + 1]
  BY <1>6, <1>10, RemovedLine
<1> HIDE DEF out, kept
<1>14. /\ Len(kept) = N - 1
       /\ \A n \in 1 .. N - 1 :
             /\ kept[n].indent = IF out[n].indent >= 2 THEN out[n].indent - 2 ELSE out[n].indent
             /\ kept[n].title = out[n].title
  BY <1>12, <1>13, OutdentedLines
<1>15. ASSUME NEW n \in 1 .. N - 1
       PROVE  LET m == IF n < r THEN n ELSE n + 1
              IN  /\ rest[n] = head(m) /\ head(m).level \in 2 .. 3
                  /\ kept[n].indent = 2 * (head(m).level - 2) /\ kept[n].title = head(m).title
  <2> DEFINE m == IF n < r THEN n ELSE n + 1
  <2>1. m \in 1 .. N /\ m # r
    BY <1>1, <1>6
  <2>2. rest[n] = At(low, L)[m] /\ out[n] = edited[m]
    BY <1>6, <1>13
  <2> HIDE DEF m
  <2>3. /\ rest[n] = head(m) /\ head(m).level \in 2 .. 3
        /\ out[n].indent = 2 * (head(m).level - 1) /\ out[n].title = head(m).title
    BY <1>8, <2>1, <2>2
  <2>4. out[n].indent >= 2 /\ out[n].indent - 2 = 2 * (head(m).level - 2)
    BY <2>3
  <2>5. kept[n].indent = 2 * (head(m).level - 2) /\ kept[n].title = head(m).title
    BY <1>14, <2>3, <2>4
  <2> QED BY <2>3, <2>5 DEF m
<1>16. \A i \in DOMAIN toc : toc[i].indent % 2 = 0
  BY <1>1, TableLines, LenProperties DEF toc, N
<1>17. /\ done \in Seq(Entry) /\ Len(done) = N - 1
       /\ \A n \in 1 .. N - 1 :
             done[n] = [indent |-> 4 * (kept[n].indent \div 2) + (IF n = 1 THEN Lead(toc) ELSE 0),
                        title |-> kept[n].title, raw |-> FALSE]
  BY <1>1, <1>14, <1>16, DecodedLines DEF kept, edited
<1>18. Lead(toc) = 0
  BY FirstAtMargin DEF toc
<1>19. Expected(low) = [n \in 1 .. N - 1 |-> [indent |-> 4 * (rest[n].level - 2),
                                               title |-> rest[n].title, raw |-> FALSE]]
  <2>1. DOMAIN rest = 1 .. N - 1
    BY <1>6, LenProperties
  <2> QED BY <2>1 DEF Expected, h
<1> HIDE DEF done, rest
<1>20. ASSUME NEW n \in 1 .. N - 1 PROVE Expected(low)[n] = done[n]
  <2> DEFINE m == IF n < r THEN n ELSE n + 1
  <2>1. /\ rest[n] = head(m) /\ head(m).level \in 2 .. 3
        /\ kept[n].indent = 2 * (head(m).level - 2) /\ kept[n].title = head(m).title
    BY <1>15
  <2> HIDE DEF m
  <2>2. PICK k \in Nat : k = head(m).level - 2
    BY <2>1
  <2>3. 4 * ((2 * k) \div 2) + 0 = 4 * k
    OBVIOUS
  <2>4. done[n] = [indent |-> 4 * ((2 * k) \div 2) + 0, title |-> head(m).title, raw |-> FALSE]
    BY <1>17, <1>18, <2>1, <2>2
  <2>5. Expected(low)[n] = [indent |-> 4 * k, title |-> head(m).title, raw |-> FALSE]
    BY <1>19, <2>1, <2>2
  <2> QED BY <2>3, <2>4, <2>5
<1>21. Expected(low) \in Seq(Entry) /\ Len(Expected(low)) = N - 1
  <2>1. Expected(low) = [n \in 1 .. N - 1 |-> Expected(low)[n]]
    BY <1>19
  <2>2. N - 1 \in Nat
    BY <1>1, <1>6
  <2>3. \A n \in 1 .. N - 1 : Expected(low)[n] \in Entry
    BY <1>17, <1>20, ElementOfSeq
  <2> HIDE DEF Expected
  <2> QED BY <2>1, <2>2, <2>3
<1>22. Expected(low) = done
  BY <1>17, <1>20, <1>21, SameLines
<1> QED BY <1>22 DEF done, toc

\* From the table that doctoc has written into a regular document decode-toc.js makes
\* the one that its header promises: all listed headings but the title, each as deep as
\* its level says, with clean anchors, whether the title stands above the table, where
\* doctoc does not list it, or below.
THEOREM DecodeKeepsItsPromise ==
    ASSUME NEW doc, doc.body \in Body, Regular(doc.body)
    PROVE  decode(doc.body, doctoc(doc)) = Expected(doc.body.below)
<1> DEFINE body == doc.body
           low == body.below
<1>1. low \in Seq(Heading) /\ body.above \in Seq(Heading)
  BY DEF Body
<1>2. doctoc(doc) = Table(low) /\ TopmostFirst(low)
  BY DEF Regular, doctoc
<1>3. CASE TitleAbove(body)
  <2>1. Level1(low) = {} /\ NoNamesake(low, h1Title(body))
    BY <1>3 DEF TitleAbove
  <2> HIDE DEF low, body
  <2>2. decode(body, Table(low)) = Expected(low)
    BY <1>1, <1>2, <2>1, DecodeUntitled
  <2> QED BY <1>2, <2>2 DEF low, body
<1>4. CASE TitleBelow(body)
  <2>1. /\ OneTitle(low)
        /\ h1Title(body) = IF Level1(low) = {} THEN "" ELSE low[Smallest(Level1(low))].title
    BY <1>4 DEF TitleBelow, h1Title
  <2> HIDE DEF low, body
  <2>2. decode(body, Table(low)) = Expected(low)
    <3>1. CASE Level1(low) = {}
      BY <1>1, <1>2, <2>1, <3>1, DecodeUntitled
    <3>2. CASE Level1(low) # {}
      BY <1>1, <1>2, <2>1, <3>2, DecodeTitled
    <3> QED BY <3>1, <3>2
  <2> QED BY <1>2, <2>2 DEF low, body
<1> QED BY <1>3, <1>4 DEF Regular

-------------------------------------------------------------------------------
\* The tools at work on the files.

\* The lists of a tool name each file once, and what is left to do of one is its end.
JobRecord == [stage : {"idle", "doctoc", "decode"}, files : Seq(Files), todo : Seq(Files),
              read : Document \cup {Nothing}, alone : BOOLEAN]

JobOK(me) ==
    /\ me \in JobRecord
    /\ me.stage = "idle" <=> me.todo = <<>>
    /\ IsInjective(me.files) /\ Len(me.todo) <= Len(me.files)
    /\ \A k \in 1 .. Len(me.todo) : me.todo[k] = me.files[Len(me.files) - Len(me.todo) + k]

\* The part of TypeOK that is about generate-pdf.js.
PdfTypes ==
    /\ pdf \in [stage : {"idle", "running", "ended", "aborted"}, matched : SUBSET Files,
                todo : SUBSET Files, failed : SUBSET Files, exit : {0, 1}]
    /\ pdf.todo \cup pdf.failed \subseteq pdf.matched
    /\ output \subseteq Files

TypeInv ==
    /\ docs \in [Files -> Document]
    /\ DOMAIN job = Jobs /\ \A j \in Jobs : JobOK(job[j])
    /\ starts \in 0 .. MaxStarts
    /\ PdfTypes

\* What is written into a file is a document again.
LEMMA WrittenDocument ==
    ASSUME NEW d \in Document
    PROVE  /\ d.body \in Body /\ d.body \in Bodies /\ d.toc \in Seq(Entry)
           /\ \A b \in Bodies : [d EXCEPT !.body = b] \in Document
           /\ [d EXCEPT !.toc = doctoc(d)] \in Document
           /\ [d EXCEPT !.toc = decode(d.body, d.toc)] \in Document
<1>1. /\ d \in [body : Bodies, toc : Seq(Entry)] /\ \A i \in DOMAIN d.toc : d.toc[i].indent % 2 = 0
      /\ Bodies \subseteq Body
  BY DocsAssumption DEF Document
<1>2. \A b \in Bodies : [d EXCEPT !.body = b] \in Document
  BY <1>1 DEF Document
<1>3. ASSUME NEW t \in Seq(Entry), \A i \in 1 .. Len(t) : t[i].indent % 2 = 0
      PROVE  [d EXCEPT !.toc = t] \in Document
  <2>1. \A i \in DOMAIN t : t[i].indent % 2 = 0
    BY <1>3, LenProperties
  <2>2. [d EXCEPT !.toc = t] \in [body : Bodies, toc : Seq(Entry)] /\ [d EXCEPT !.toc = t].toc = t
    BY <1>1
  <2> QED BY <2>1, <2>2 DEF Document
<1>4. [d EXCEPT !.toc = doctoc(d)] \in Document
  <2> DEFINE low == d.body.below
  <2>1. low \in Seq(Heading)
    BY <1>1 DEF Body
  <2>2. CASE Listed(low) = {}
    <3>1. \A i \in 1 .. Len(d.toc) : d.toc[i].indent % 2 = 0
      BY <1>1, LenProperties
    <3> QED BY <1>1, <1>3, <2>2, <3>1 DEF doctoc
  <2>3. CASE Listed(low) # {}
    <3> HIDE DEF low
    <3>1. Table(low) \in Seq(Entry)
          /\ \A i \in 1 .. Len(Table(low)) : Table(low)[i].indent % 2 = 0
      BY <2>1, TableLines
    <3>2. doctoc(d) = Table(low)
      BY <2>3 DEF doctoc, low
    <3> QED BY <1>3, <3>1, <3>2
  <2> QED BY <2>2, <2>3
<1>5. [d EXCEPT !.toc = decode(d.body, d.toc)] \in Document
  <2>1. d.toc \in Seq(Entry)
    BY <1>1
  <2>2. decode(d.body, d.toc) \in Seq(Entry)
        /\ \A i \in 1 .. Len(decode(d.body, d.toc)) : decode(d.body, d.toc)[i].indent % 2 = 0
    <3> DEFINE kept == WithoutTitle(Edited(d.toc), h1Title(d.body))
               done == decode(d.body, d.toc)
    <3>1. done \in Seq(Entry) /\ Len(done) = Len(kept)
      BY <1>1, <2>1, DecodedLines
    <3>2. \A i \in 1 .. Len(kept) : done[i].indent % 2 = 0
      BY <1>1, <2>1, DecodedLines
    <3> HIDE DEF kept
    <3> QED BY <3>1, <3>2
  <2> QED BY <1>3, <2>2
<1> QED BY <1>1, <1>2, <1>4, <1>5

\* The list of a tool that is started, and of one that goes on to its next file.
LEMMA IdleJob == JobOK(Idle)
<1>1. <<>> \in Seq(Files) /\ Len(<<>>) = 0
  BY EmptySeq
<1>2. IsInjective(<<>>)
  BY DEF IsInjective
<1> QED BY <1>1, <1>2 DEF JobOK, JobRecord, Idle

LEMMA StartedJob ==
    ASSUME NEW files \in Seq(Files), files # <<>>, IsInjective(files), NEW alone \in BOOLEAN,
           NEW stage \in {"doctoc", "decode"}
    PROVE  JobOK([stage |-> stage, files |-> files, todo |-> files, read |-> Nothing,
                  alone |-> alone])
<1>1. Len(files) \in Nat
  BY LenProperties
<1> QED BY <1>1 DEF JobOK, JobRecord

LEMMA NextFile ==
    ASSUME NEW me, JobOK(me), me.todo # <<>>, Len(me.todo) # 1
    PROVE  /\ Tail(me.todo) \in Seq(Files) /\ Len(Tail(me.todo)) = Len(me.todo) - 1
           /\ Len(me.todo) > 1 /\ Tail(me.todo) # <<>>
           /\ JobOK([stage |-> me.stage, files |-> me.files, todo |-> Tail(me.todo),
                     read |-> Nothing, alone |-> me.alone])
<1>1. /\ me.todo \in Seq(Files) /\ me.files \in Seq(Files) /\ Len(me.todo) \in Nat
      /\ Len(me.files) \in Nat /\ Len(me.todo) > 1
  <2>1. me.todo \in Seq(Files) /\ me.files \in Seq(Files)
    BY DEF JobOK, JobRecord
  <2>2. Len(me.todo) \in Nat \ {0} /\ Len(me.files) \in Nat
    BY <2>1, LenProperties, EmptySeq
  <2>3. Len(me.todo) > 1
    <3> DEFINE n == Len(me.todo)
    <3>1. n \in Nat \ {0} /\ n # 1
      BY <2>2
    <3> HIDE DEF n
    <3>2. n > 1
      BY ONLY <3>1
    <3> QED BY <3>2 DEF n
  <2> QED BY <2>1, <2>2, <2>3
<1>2. /\ Tail(me.todo) \in Seq(Files) /\ Len(Tail(me.todo)) = Len(me.todo) - 1
      /\ \A i \in 1 .. Len(Tail(me.todo)) : Tail(me.todo)[i] = me.todo[i + 1]
  <2> DEFINE todo == me.todo
  <2>1. todo \in Seq(Files) /\ todo # <<>>
    BY <1>1
  <2> HIDE DEF todo
  <2>2. /\ Tail(todo) \in Seq(Files) /\ Len(Tail(todo)) = Len(todo) - 1
        /\ \A i \in 1 .. Len(Tail(todo)) : Tail(todo)[i] = todo[i + 1]
    BY <2>1, HeadTailProperties
  <2> QED BY <2>2 DEF todo
<1>3. Tail(me.todo) # <<>>
  <2> DEFINE tail == Tail(me.todo)
  <2>1. Len(tail) # 0
    BY <1>1, <1>2
  <2> HIDE DEF tail
  <2>2. tail # <<>>
    BY <2>1, Len(<<>>) = 0
  <2> QED BY <2>2 DEF tail
<1> DEFINE new == [stage |-> me.stage, files |-> me.files, todo |-> Tail(me.todo),
                   read |-> Nothing, alone |-> me.alone]
<1>4. /\ new \in JobRecord /\ new.todo = Tail(me.todo) /\ new.files = me.files
      /\ new.stage = me.stage
  BY <1>2 DEF JobOK, JobRecord
<1> HIDE DEF new
<1>5. \A k \in 1 .. Len(new.todo) : new.todo[k] = new.files[Len(new.files) - Len(new.todo) + k]
  <2> SUFFICES ASSUME NEW k \in 1 .. Len(me.todo) - 1
               PROVE  Tail(me.todo)[k] = me.files[Len(me.files) - (Len(me.todo) - 1) + k]
    BY <1>1, <1>2, <1>4
  <2>1. Tail(me.todo)[k] = me.todo[k + 1] /\ k + 1 \in 1 .. Len(me.todo)
    BY <1>1, <1>2
  <2>2. me.todo[k + 1] = me.files[Len(me.files) - Len(me.todo) + (k + 1)]
    <3>1. \A i \in 1 .. Len(me.todo) : me.todo[i] = me.files[Len(me.files) - Len(me.todo) + i]
      BY DEF JobOK
    <3> QED BY <2>1, <3>1
  <2>3. Len(me.files) - Len(me.todo) + (k + 1) = Len(me.files) - (Len(me.todo) - 1) + k
    <3> DEFINE l == Len(me.files)
               t == Len(me.todo)
    <3>1. l \in Nat /\ t \in Nat
      BY <1>1
    <3> HIDE DEF l, t
    <3>2. l - t + (k + 1) = l - (t - 1) + k
      BY <3>1
    <3> QED BY <3>2 DEF l, t
  <2> QED BY <2>1, <2>2, <2>3
<1>6. JobOK(new)
  <2>1. (new.stage = "idle") <=> (new.todo = <<>>)
    BY <1>1, <1>3, <1>4 DEF JobOK
  <2>2. IsInjective(new.files)
    BY <1>4 DEF JobOK
  <2>3. Len(new.todo) <= Len(new.files)
    <3> DEFINE l == Len(me.files)
               t == Len(me.todo)
    <3>1. l \in Nat /\ t \in Nat /\ t <= l
      BY <1>1 DEF JobOK
    <3>2. Len(new.todo) = t - 1 /\ Len(new.files) = l
      BY <1>2, <1>4
    <3> HIDE DEF l, t
    <3> QED BY <3>1, <3>2
  <2> QED BY <1>4, <1>5, <2>1, <2>2, <2>3 DEF JobOK
<1> QED BY <1>1, <1>2, <1>3, <1>6 DEF new

\* Where a tool is in its list: the file at hand is the first that it has left to do.
LEMMA FileAtHand ==
    ASSUME NEW me, JobOK(me), me.todo # <<>>
    PROVE  /\ Len(me.todo) \in Nat \ {0} /\ Len(me.files) \in Nat
           /\ me.files \in Seq(Files) /\ me.todo \in Seq(Files) /\ me.files # <<>>
           /\ Len(me.files) - Len(me.todo) + 1 \in 1 .. Len(me.files)
           /\ Head(me.todo) = me.files[Len(me.files) - Len(me.todo) + 1]
           /\ Head(me.todo) \in Files
<1>1. /\ me.todo \in Seq(Files) /\ me.files \in Seq(Files) /\ Len(me.todo) \in Nat \ {0}
      /\ Len(me.files) \in Nat /\ Len(me.todo) <= Len(me.files)
  <2>1. me.todo \in Seq(Files) /\ me.files \in Seq(Files) /\ Len(me.todo) <= Len(me.files)
    BY DEF JobOK, JobRecord
  <2>2. Len(me.todo) \in Nat \ {0} /\ Len(me.files) \in Nat
    BY <2>1, LenProperties, EmptySeq
  <2> QED BY <2>1, <2>2
<1>2. Head(me.todo) = me.todo[1] /\ 1 \in 1 .. Len(me.todo)
  BY <1>1
<1>3. me.todo[1] = me.files[Len(me.files) - Len(me.todo) + 1]
  <2>1. \A i \in 1 .. Len(me.todo) : me.todo[i] = me.files[Len(me.files) - Len(me.todo) + i]
    BY DEF JobOK
  <2> QED BY <1>2, <2>1
<1>4. Len(me.files) - Len(me.todo) + 1 \in 1 .. Len(me.files)
  <2> DEFINE l == Len(me.files)
             t == Len(me.todo)
  <2>1. l \in Nat /\ t \in Nat \ {0} /\ t <= l
    BY <1>1
  <2> HIDE DEF l, t
  <2>2. l - t + 1 \in 1 .. l
    BY ONLY <2>1
  <2> QED BY <2>2 DEF l, t
<1>5. me.todo[1] \in Files
  BY <1>1, <1>2, ElementOfSeq
<1>6. me.files # <<>>
  <2> DEFINE l == Len(me.files)
             t == Len(me.todo)
  <2>1. l \in Nat /\ t \in Nat \ {0} /\ t <= l
    BY <1>1
  <2> HIDE DEF l, t
  <2>2. l # 0
    BY ONLY <2>1
  <2> QED BY <2>2, Len(<<>>) = 0 DEF l
<1> QED BY <1>1, <1>2, <1>3, <1>4, <1>5, <1>6

LEMMA AloneChanged ==
    ASSUME NEW me, JobOK(me), NEW a \in BOOLEAN
    PROVE  JobOK([me EXCEPT !.alone = a])
<1> DEFINE new == [me EXCEPT !.alone = a]
<1>1. me \in JobRecord
  BY DEF JobOK
<1>2. /\ new \in JobRecord /\ new.stage = me.stage /\ new.todo = me.todo /\ new.files = me.files
  BY <1>1 DEF JobRecord
<1> HIDE DEF new
<1>3. JobOK(new)
  BY <1>2 DEF JobOK
<1> QED BY <1>3 DEF new

LEMMA ReadChanged ==
    ASSUME NEW me, JobOK(me), NEW d \in Document \cup {Nothing}
    PROVE  JobOK([me EXCEPT !.read = d])
<1> DEFINE new == [me EXCEPT !.read = d]
<1>1. me \in JobRecord
  BY DEF JobOK
<1>2. /\ new \in JobRecord /\ new.stage = me.stage /\ new.todo = me.todo /\ new.files = me.files
  BY <1>1 DEF JobRecord
<1> HIDE DEF new
<1>3. JobOK(new)
  BY <1>2 DEF JobOK
<1> QED BY <1>3 DEF new

\* What one step does to the tools: what it does to tool j, and what others keep.
LEMMA StartEffect ==
    ASSUME NEW j \in Jobs, NEW files, Started(j, files)
    PROVE  /\ DOMAIN job' = Jobs /\ job[j] = Idle /\ starts < MaxStarts /\ starts' = starts + 1
           /\ job'[j] = [stage |-> "doctoc", files |-> files, todo |-> files, read |-> Nothing,
                         alone |-> \A k \in Jobs : ~ Shares(k, files)]
           /\ job'[j].files = files /\ job'[j].todo = files
BY DEF Started

LEMMA StartOthers ==
    ASSUME NEW j \in Jobs, NEW files, Started(j, files), NEW i \in Jobs \ {j}
    PROVE  \E a \in BOOLEAN :
              /\ job'[i] = [job[i] EXCEPT !.alone = a]
              /\ a => job[i].alone /\ Range(job[i].files) \cap Range(files) = {}
<1> DEFINE a == job[i].alone /\ ~ Shares(i, files)
<1>1. job'[i] = [job[i] EXCEPT !.alone = a]
  BY DEF Started
<1>2. a => job[i].alone /\ Range(job[i].files) \cap Range(files) = {}
  BY DEF Shares
<1>3. a \in BOOLEAN
  OBVIOUS
<1> HIDE DEF a
<1> QED BY <1>1, <1>2, <1>3

LEMMA StartKeepsJobs ==
    ASSUME TypeInv, NEW j \in Jobs, NEW files \in Seq(Files), files # <<>>, IsInjective(files),
           Started(j, files)
    PROVE  /\ DOMAIN job' = Jobs /\ \A i \in Jobs : JobOK(job'[i])
           /\ starts' \in 0 .. MaxStarts
<1>1. JobOK(job'[j])
  <2> DEFINE a == \A k \in Jobs : ~ Shares(k, files)
  <2>1. a \in BOOLEAN
    OBVIOUS
  <2>2. job'[j] = [stage |-> "doctoc", files |-> files, todo |-> files, read |-> Nothing,
                   alone |-> a]
    BY StartEffect
  <2> HIDE DEF a
  <2> QED BY <2>1, <2>2, StartedJob
<1>2. ASSUME NEW i \in Jobs \ {j} PROVE JobOK(job'[i])
  <2>1. JobOK(job[i])
    BY DEF TypeInv
  <2>2. PICK a \in BOOLEAN : job'[i] = [job[i] EXCEPT !.alone = a]
    BY StartOthers
  <2> QED BY <2>1, <2>2, AloneChanged
<1>3. starts' \in 0 .. MaxStarts
  <2>1. starts < MaxStarts /\ starts' = starts + 1
    BY StartEffect
  <2>2. starts \in 0 .. MaxStarts /\ MaxStarts \in Nat
    BY DocsAssumption DEF TypeInv
  <2> QED BY <2>1, <2>2
<1> QED BY <1>1, <1>2, <1>3, StartEffect

LEMMA ReadEffect ==
    ASSUME NEW j \in Jobs, DOMAIN job = Jobs, ReadFile(j)
    PROVE  /\ job[j].todo # <<>> /\ job[j].read = Nothing
           /\ DOMAIN job' = Jobs /\ job'[j] = [job[j] EXCEPT !.read = docs[Head(job[j].todo)]]
           /\ \A i \in Jobs \ {j} : job'[i] = job[i]
BY DEF ReadFile

LEMMA StopEffect ==
    ASSUME NEW j \in Jobs, DOMAIN job = Jobs, JobStops(j)
    PROVE  DOMAIN job' = Jobs /\ job'[j] = Idle /\ \A i \in Jobs \ {j} : job'[i] = job[i]
BY DEF JobStops

LEMMA DoctocEffect ==
    ASSUME NEW j \in Jobs, TypeInv, DoctocWrites(j)
    PROVE  /\ job[j].stage = "doctoc" /\ job[j].read # Nothing /\ job[j].todo # <<>>
           /\ docs' = [docs EXCEPT ![Head(job[j].todo)] =
                                      [job[j].read EXCEPT !.toc = doctoc(job[j].read)]]
           /\ DOMAIN job' = Jobs /\ \A i \in Jobs \ {j} : job'[i] = job[i]
           /\ Len(job[j].todo) = 1 =>
                 job'[j] = [stage |-> "decode", files |-> job[j].files, todo |-> job[j].files,
                            read |-> Nothing, alone |-> job[j].alone]
           /\ Len(job[j].todo) # 1 =>
                 job'[j] = [stage |-> "doctoc", files |-> job[j].files,
                            todo |-> Tail(job[j].todo), read |-> Nothing, alone |-> job[j].alone]
<1>1. JobOK(job[j]) /\ DOMAIN job = Jobs
  BY DEF TypeInv
<1>2. job[j] \in JobRecord /\ job[j].stage = "doctoc" /\ job[j].todo # <<>>
  BY <1>1 DEF DoctocWrites, JobOK
<1>3. \A i \in Jobs \ {j} : job'[i] = job[i]
  BY <1>1 DEF DoctocWrites
<1>4. /\ DOMAIN job' = Jobs
      /\ job'[j] = [job[j] EXCEPT !.read = Nothing,
                                  !.stage = IF Len(job[j].todo) = 1 THEN "decode" ELSE "doctoc",
                                  !.todo = IF Len(@) = 1 THEN job[j].files ELSE Tail(@)]
  BY <1>1 DEF DoctocWrites
<1>5. Len(job[j].todo) = 1 =>
         job'[j] = [stage |-> "decode", files |-> job[j].files, todo |-> job[j].files,
                    read |-> Nothing, alone |-> job[j].alone]
  BY <1>2, <1>4 DEF JobRecord
<1>6. Len(job[j].todo) # 1 =>
         job'[j] = [stage |-> "doctoc", files |-> job[j].files, todo |-> Tail(job[j].todo),
                    read |-> Nothing, alone |-> job[j].alone]
  BY <1>2, <1>4 DEF JobRecord
<1> QED BY <1>2, <1>3, <1>4, <1>5, <1>6 DEF DoctocWrites, WriteFile

LEMMA DecodeEffect ==
    ASSUME NEW j \in Jobs, TypeInv, DecodeWrites(j)
    PROVE  /\ job[j].stage = "decode" /\ job[j].read # Nothing /\ job[j].todo # <<>>
           /\ docs' = [docs EXCEPT ![Head(job[j].todo)] =
                          [job[j].read EXCEPT !.toc = decode(job[j].read.body, job[j].read.toc)]]
           /\ DOMAIN job' = Jobs /\ \A i \in Jobs \ {j} : job'[i] = job[i]
           /\ Len(job[j].todo) = 1 => job'[j] = Idle
           /\ Len(job[j].todo) # 1 =>
                 job'[j] = [stage |-> "decode", files |-> job[j].files,
                            todo |-> Tail(job[j].todo), read |-> Nothing, alone |-> job[j].alone]
<1>1. JobOK(job[j]) /\ DOMAIN job = Jobs
  BY DEF TypeInv
<1>2. job[j] \in JobRecord /\ job[j].stage = "decode" /\ job[j].todo # <<>>
  BY <1>1 DEF DecodeWrites, JobOK
<1>3. job' = [job EXCEPT ![j] = IF Len(job[j].todo) = 1 THEN Idle
                                ELSE [job[j] EXCEPT !.read = Nothing, !.todo = Tail(@)]]
  BY DEF DecodeWrites
<1>4. DOMAIN job' = Jobs /\ \A i \in Jobs \ {j} : job'[i] = job[i]
  BY <1>1, <1>3
<1>5. Len(job[j].todo) = 1 => job'[j] = Idle
  BY <1>1, <1>3
<1>6. Len(job[j].todo) # 1 =>
         job'[j] = [stage |-> "decode", files |-> job[j].files, todo |-> Tail(job[j].todo),
                    read |-> Nothing, alone |-> job[j].alone]
  <2>1. Len(job[j].todo) # 1 => job'[j] = [job[j] EXCEPT !.read = Nothing, !.todo = Tail(@)]
    BY <1>1, <1>3
  <2> QED BY <1>2, <2>1 DEF JobRecord
<1> QED BY <1>2, <1>4, <1>5, <1>6 DEF DecodeWrites, WriteFile

\* After each step the tools' lists are as they should be, and what is written is a
\* document.
LEMMA WriteKeepsTypes ==
    ASSUME TypeInv, NEW j \in Jobs, DoctocWrites(j) \/ DecodeWrites(j)
    PROVE  /\ docs' \in [Files -> Document]
           /\ DOMAIN job' = Jobs /\ \A i \in Jobs : JobOK(job'[i])
<1>1. JobOK(job[j]) /\ docs \in [Files -> Document] /\ \A i \in Jobs : JobOK(job[i])
  BY DEF TypeInv
<1>2. job[j].todo # <<>> /\ job[j].read # Nothing
  BY DoctocEffect, DecodeEffect
<1>3. job[j].read \in Document
  BY <1>1, <1>2 DEF JobOK, JobRecord
<1>4. Head(job[j].todo) \in Files
  BY <1>1, <1>2, FileAtHand
<1>5. docs' \in [Files -> Document]
  <2>1. PICK d \in Document : docs' = [docs EXCEPT ![Head(job[j].todo)] = d]
    <3>1. CASE DoctocWrites(j)
      <4>1. [job[j].read EXCEPT !.toc = doctoc(job[j].read)] \in Document
        BY <1>3, WrittenDocument
      <4> QED BY <3>1, <4>1, DoctocEffect
    <3>2. CASE DecodeWrites(j)
      <4>1. [job[j].read EXCEPT !.toc = decode(job[j].read.body, job[j].read.toc)] \in Document
        BY <1>3, WrittenDocument
      <4> QED BY <3>2, <4>1, DecodeEffect
    <3> QED BY <3>1, <3>2
  <2> QED BY <1>1, <1>4, <2>1
<1>6. JobOK(job'[j])
  <2>1. CASE DoctocWrites(j) /\ Len(job[j].todo) = 1
    <3>1. /\ job[j].files \in Seq(Files) /\ IsInjective(job[j].files)
          /\ job[j].alone \in BOOLEAN
      BY <1>1 DEF JobOK, JobRecord
    <3>2. job[j].files # <<>>
      BY <1>1, <1>2, FileAtHand
    <3>3. job'[j] = [stage |-> "decode", files |-> job[j].files, todo |-> job[j].files,
                     read |-> Nothing, alone |-> job[j].alone]
      BY <2>1, DoctocEffect
    <3> QED BY <3>1, <3>2, <3>3, StartedJob
  <2>2. CASE DecodeWrites(j) /\ Len(job[j].todo) = 1
    BY <2>2, DecodeEffect, IdleJob
  <2>3. CASE Len(job[j].todo) # 1
    <3>1. job'[j] = [stage |-> job[j].stage, files |-> job[j].files, todo |-> Tail(job[j].todo),
                     read |-> Nothing, alone |-> job[j].alone]
      BY <2>3, DoctocEffect, DecodeEffect
    <3> QED BY <1>1, <1>2, <2>3, <3>1, NextFile
  <2> QED BY <2>1, <2>2, <2>3
<1> QED BY <1>1, <1>5, <1>6, DoctocEffect, DecodeEffect

LEMMA OrderedFiles ==
    /\ FileOrder \in Seq(Files) /\ FileOrder # <<>> /\ IsInjective(FileOrder)
    /\ \A f \in Files : <<f>> \in Seq(Files) /\ <<f>> # <<>> /\ IsInjective(<<f>>)
BY DocsAssumption DEF IsInjective

\* generate-pdf.js works through files that exist.
LEMMA PdfKeepsTypes ==
    ASSUME PdfTypes,
           \/ \E matched \in SUBSET Files : PdfStarts(matched)
           \/ ConvertToPdf \/ PdfAborts \/ PdfEnds
    PROVE  PdfTypes'
<1> DEFINE PdfRecord == [stage : {"idle", "running", "ended", "aborted"}, matched : SUBSET Files,
                         todo : SUBSET Files, failed : SUBSET Files, exit : {0, 1}]
<1>1. pdf \in PdfRecord /\ pdf.todo \cup pdf.failed \subseteq pdf.matched /\ output \subseteq Files
  BY DEF PdfTypes
<1>2. ASSUME NEW matched \in SUBSET Files, PdfStarts(matched) PROVE PdfTypes'
  <2>1. /\ pdf' = [stage |-> IF matched = {} THEN "ended" ELSE "running", matched |-> matched,
                   todo |-> matched, failed |-> {}, exit |-> 0]
        /\ output' = output
    BY <1>2 DEF PdfStarts, NoRun
  <2> QED BY <1>1, <2>1 DEF PdfTypes
<1>3. CASE ConvertToPdf
  <2>1. PICK f \in Files : f \in pdf.todo /\ (Converted(f) \/ FailureRecorded(f))
    BY <1>3 DEF ConvertToPdf, NextToConvert
  <2>2. /\ pdf' \in PdfRecord /\ pdf'.todo = pdf.todo \ {f} /\ pdf'.matched = pdf.matched
        /\ pdf'.failed \subseteq pdf.failed \cup {f}
        /\ output' \subseteq output \cup {f}
    <3>1. CASE Converted(f)
      <4>1. pdf' = [pdf EXCEPT !.todo = pdf.todo \ {f}] /\ output' = output \cup {f}
        BY <3>1 DEF Converted
      <4> QED BY <1>1, <4>1
    <3>2. CASE FailureRecorded(f)
      <4>1. /\ pdf' = [pdf EXCEPT !.todo = pdf.todo \ {f}, !.failed = pdf.failed \cup {f}]
            /\ output' = output
        BY <3>2 DEF FailureRecorded
      <4> QED BY <1>1, <2>1, <4>1
    <3> QED BY <2>1, <3>1, <3>2
  <2> QED BY <1>1, <2>1, <2>2 DEF PdfTypes
<1>4. CASE PdfAborts \/ PdfEnds
  <2>1. /\ pdf' \in PdfRecord /\ pdf'.todo = pdf.todo /\ pdf'.matched = pdf.matched
        /\ pdf'.failed = pdf.failed /\ output' = output
    BY <1>1, <1>4 DEF PdfAborts, PdfEnds
  <2> QED BY <1>1, <2>1 DEF PdfTypes
<1> QED BY <1>2, <1>3, <1>4

LEMMA InitTypes == Init => TypeInv
<1> SUFFICES ASSUME Init PROVE TypeInv
  OBVIOUS
<1>1. docs \in [Files -> Document]
  BY DocsAssumption DEF Init
<1>2. DOMAIN job = Jobs /\ \A j \in Jobs : JobOK(job[j])
  BY IdleJob DEF Init
<1>3. starts \in 0 .. MaxStarts
  BY DocsAssumption DEF Init
<1>4. PdfTypes
  BY DEF Init, PdfTypes, NoRun
<1> QED BY <1>1, <1>2, <1>3, <1>4 DEF TypeInv

LEMMA StepTypes == TypeInv /\ [Next]_vars => TypeInv'
<1> SUFFICES ASSUME TypeInv, [Next]_vars PROVE TypeInv'
  OBVIOUS
<1>0. /\ docs \in [Files -> Document] /\ DOMAIN job = Jobs
      /\ \A j \in Jobs : JobOK(job[j])
      /\ starts \in 0 .. MaxStarts /\ PdfTypes
  BY DEF TypeInv
<1>1. ASSUME NEW j \in Jobs, NEW f \in Files, Save(j, f) PROVE TypeInv'
  <2>1. PICK b \in Bodies : docs' = [docs EXCEPT ![f].body = b]
    BY <1>1 DEF Save
  <2>2. docs' \in [Files -> Document]
    <3>1. docs' = [docs EXCEPT ![f] = [docs[f] EXCEPT !.body = b]]
      BY <2>1
    <3>2. [docs[f] EXCEPT !.body = b] \in Document
      BY <1>0, WrittenDocument
    <3> QED BY <1>0, <3>1, <3>2
  <2>3. /\ DOMAIN job' = Jobs /\ \A i \in Jobs : JobOK(job'[i]) /\ starts' \in 0 .. MaxStarts
    BY <1>0, <1>1, OrderedFiles, StartKeepsJobs DEF Save
  <2>4. UNCHANGED <<pdf, output>>
    BY <1>1 DEF Save
  <2> QED BY <1>0, <2>2, <2>3, <2>4 DEF TypeInv, PdfTypes
<1>2. ASSUME NEW j \in Jobs, TocAll(j) PROVE TypeInv'
  <2>1. /\ DOMAIN job' = Jobs /\ \A i \in Jobs : JobOK(job'[i]) /\ starts' \in 0 .. MaxStarts
    BY <1>0, <1>2, OrderedFiles, StartKeepsJobs DEF TocAll
  <2>2. UNCHANGED <<docs, pdf, output>>
    BY <1>2 DEF TocAll
  <2> QED BY <1>0, <2>1, <2>2 DEF TypeInv, PdfTypes
<1>3. ASSUME NEW j \in Jobs, ReadFile(j) PROVE TypeInv'
  <2>1. /\ job[j].todo # <<>> /\ DOMAIN job' = Jobs
        /\ job'[j] = [job[j] EXCEPT !.read = docs[Head(job[j].todo)]]
        /\ \A i \in Jobs \ {j} : job'[i] = job[i]
    BY <1>0, <1>3, ReadEffect
  <2>2. docs[Head(job[j].todo)] \in Document \cup {Nothing}
    BY <1>0, <2>1, FileAtHand
  <2>3. JobOK(job'[j])
    BY <1>0, <2>1, <2>2, ReadChanged
  <2>4. \A i \in Jobs : JobOK(job'[i])
    BY <1>0, <2>1, <2>3
  <2>5. UNCHANGED <<docs, starts, pdf, output>>
    BY <1>3 DEF ReadFile
  <2> QED BY <1>0, <2>1, <2>4, <2>5 DEF TypeInv, PdfTypes
<1>4. ASSUME NEW j \in Jobs, DoctocWrites(j) \/ DecodeWrites(j) PROVE TypeInv'
  <2>1. UNCHANGED <<starts, pdf, output>>
    BY <1>4 DEF DoctocWrites, DecodeWrites, WriteFile
  <2> QED BY <1>0, <1>4, <2>1, WriteKeepsTypes DEF TypeInv, PdfTypes
<1>5. ASSUME NEW j \in Jobs, JobStops(j) PROVE TypeInv'
  <2>1. DOMAIN job' = Jobs /\ job'[j] = Idle /\ \A i \in Jobs \ {j} : job'[i] = job[i]
    BY <1>0, <1>5, StopEffect
  <2>2. \A i \in Jobs : JobOK(job'[i])
    BY <1>0, <2>1, IdleJob
  <2>3. UNCHANGED <<docs, starts, pdf, output>>
    BY <1>5 DEF JobStops
  <2> QED BY <1>0, <2>1, <2>2, <2>3 DEF TypeInv, PdfTypes
<1>6. CASE \/ \E matched \in SUBSET Files : PdfStarts(matched)
           \/ ConvertToPdf \/ PdfAborts \/ PdfEnds
  <2>1. UNCHANGED <<docs, job, starts>>
    BY <1>6 DEF PdfStarts, ConvertToPdf, PdfAborts, PdfEnds
  <2>2. PdfTypes'
    BY <1>0, <1>6, PdfKeepsTypes
  <2> QED BY <1>0, <2>1, <2>2 DEF TypeInv
<1>7. CASE UNCHANGED vars
  BY <1>0, <1>7 DEF TypeInv, PdfTypes, vars
<1> QED BY <1>1, <1>2, <1>3, <1>4, <1>5, <1>6, <1>7 DEF Next

\* What is left to do of a tool's list is its end.
LEMMA LeftIsRest ==
    ASSUME NEW me, JobOK(me)
    PROVE  me.todo \in RestOf(me.files)
<1> DEFINE l == Len(me.files)
           t == Len(me.todo)
           n == l - t + 1
<1>1. /\ me.files \in Seq(Files) /\ me.todo \in Seq(Files) /\ l \in Nat /\ t \in Nat /\ t <= l
      /\ \A k \in 1 .. t : me.todo[k] = me.files[l - t + k]
  <2>1. me.files \in Seq(Files) /\ me.todo \in Seq(Files) /\ t <= l
    BY DEF JobOK, JobRecord
  <2> QED BY <2>1, LenProperties DEF JobOK
<1> HIDE DEF l, t
<1>2. n \in 1 .. l + 1 /\ n \in Int /\ l \in Int /\ l - n + 1 = t /\ (n <= l <=> t # 0)
  BY ONLY <1>1
<1>3. \A i \in n .. l : me.files[i] \in Files
  <2>1. \A i \in 1 .. l : me.files[i] \in Files
    BY <1>1, ElementOfSeq DEF l
  <2> QED BY <1>1, <1>2, <2>1
<1> DEFINE rest == SubSeq(me.files, n, l)
<1> HIDE DEF n
<1>4. /\ rest \in Seq(Files) /\ Len(rest) = IF n <= l THEN l - n + 1 ELSE 0
      /\ \A i \in 1 .. l - n + 1 : rest[i] = me.files[n + i - 1]
  BY <1>2, <1>3, SubSeqProperties
<1> HIDE DEF rest
<1>5. Len(rest) = t
  BY <1>1, <1>2, <1>4
<1>6. \A k \in 1 .. t : rest[k] = me.todo[k]
  <2> SUFFICES ASSUME NEW k \in 1 .. t PROVE rest[k] = me.todo[k]
    OBVIOUS
  <2>1. rest[k] = me.files[n + k - 1]
    BY <1>2, <1>4
  <2>2. n + k - 1 = l - t + k
    BY <1>1 DEF n
  <2> QED BY <1>1, <2>1, <2>2
<1>7. rest = me.todo
  <2>1. rest \in Seq(Files) /\ me.todo \in Seq(Files) /\ Len(rest) = Len(me.todo)
    BY <1>1, <1>4, <1>5 DEF t
  <2>2. \A k \in 1 .. Len(rest) : rest[k] = me.todo[k]
    BY <1>5, <1>6
  <2> QED BY <2>1, <2>2, SeqEqual
<1> QED BY <1>2, <1>7 DEF RestOf, rest, l

\* The files stay documents, the tools' lists ends of lists of files that exist, and
\* generate-pdf.js counts files that its pattern matched.
THEOREM DocToolsTypes == Spec => []TypeOK
<1>1. TypeInv => TypeOK
  <2> SUFFICES ASSUME TypeInv PROVE TypeOK
    OBVIOUS
  <2>1. ASSUME NEW j \in Jobs
        PROVE  /\ job[j].stage \in {"idle", "doctoc", "decode"}
               /\ job[j].todo \in RestOf(job[j].files) /\ Range(job[j].files) \subseteq Files
               /\ job[j].read = Nothing \/ job[j].read \in Document
               /\ job[j].stage = "idle" <=> job[j].todo = <<>>
    <3>1. JobOK(job[j])
      BY DEF TypeInv
    <3>2. job[j].todo \in RestOf(job[j].files)
      BY <3>1, LeftIsRest
    <3>3. job[j] \in JobRecord /\ (job[j].stage = "idle" <=> job[j].todo = <<>>)
      BY <3>1 DEF JobOK
    <3>4. Range(job[j].files) \subseteq Files
      BY <3>3, RangeOfSeq DEF JobRecord
    <3> QED BY <3>2, <3>3, <3>4 DEF JobRecord
  <2>2. DOMAIN docs = Files /\ \A f \in Files : docs[f] \in Document
    BY DEF TypeInv
  <2>3. /\ starts \in 0 .. MaxStarts
        /\ pdf.stage \in {"idle", "running", "ended", "aborted"}
        /\ pdf.todo \cup pdf.failed \subseteq pdf.matched /\ pdf.matched \subseteq Files
        /\ pdf.exit \in {0, 1} /\ output \subseteq Files
    BY DEF TypeInv, PdfTypes
  <2> QED BY <2>1, <2>2, <2>3 DEF TypeOK
<1> QED BY <1>1, InitTypes, StepTypes, PTL DEF Spec

-------------------------------------------------------------------------------
\* A document as doctoc leaves it; how many files of its list a tool has treated.
Listing(d) == d.toc = doctoc(d)

Handled(me) == Len(me.files) - Len(me.todo)

\* What a tool that is alone can count on: no other tool has one of its files; what it
\* has read is what the file says; doctoc's table stands in the files that it has
\* treated, and in those that decode-toc.js has still to treat.
AloneOK(me, ds) ==
    /\ me.read # Nothing => me.read = ds[Head(me.todo)]
    /\ me.stage = "doctoc" => \A n \in 1 .. Handled(me) : Listing(ds[me.files[n]])
    /\ me.stage = "decode" => \A n \in Handled(me) + 1 .. Len(me.files) : Listing(ds[me.files[n]])

AloneInv ==
    \A j \in Jobs : job[j].alone =>
        /\ \A i \in Jobs \ {j} : Range(job[i].files) \cap Range(job[j].files) = {}
        /\ job[j].todo # <<>> /\ AloneOK(job[j], docs)

\* Only the files in its list matter to a tool.
LEMMA FilesUntouched ==
    ASSUME NEW me, JobOK(me), me.todo # <<>>, NEW ds, NEW new, AloneOK(me, ds),
           \A f \in Range(me.files) : new[f] = ds[f]
    PROVE  AloneOK(me, new)
<1>1. DOMAIN me.files = 1 .. Len(me.files) /\ Len(me.files) \in Nat /\ Len(me.todo) \in Nat
      /\ Len(me.todo) <= Len(me.files)
  BY FileAtHand, LenProperties DEF JobOK
<1>2. \A n \in 1 .. Len(me.files) : new[me.files[n]] = ds[me.files[n]]
  BY <1>1 DEF Range
<1>3. new[Head(me.todo)] = ds[Head(me.todo)]
  <2> DEFINE n == Len(me.files) - Len(me.todo) + 1
  <2>1. n \in 1 .. Len(me.files) /\ Head(me.todo) = me.files[n]
    BY FileAtHand
  <2> HIDE DEF n
  <2> QED BY <1>2, <2>1
<1>4. Handled(me) \in Nat /\ Handled(me) <= Len(me.files)
  <2> DEFINE l == Len(me.files)
             t == Len(me.todo)
  <2>1. l \in Nat /\ t \in Nat /\ t <= l
    BY <1>1
  <2> HIDE DEF l, t
  <2>2. l - t \in Nat /\ l - t <= l
    BY ONLY <2>1
  <2> QED BY <2>2 DEF Handled, l, t
<1>5. me.stage = "doctoc" => \A n \in 1 .. Handled(me) : Listing(new[me.files[n]])
  BY <1>1, <1>2, <1>4 DEF AloneOK
<1>6. me.stage = "decode" =>
         \A n \in Handled(me) + 1 .. Len(me.files) : Listing(new[me.files[n]])
  BY <1>1, <1>2, <1>4 DEF AloneOK
<1> QED BY <1>3, <1>5, <1>6 DEF AloneOK

\* A tool that has not begun counts on nothing yet.
LEMMA AloneAtStart ==
    ASSUME NEW files \in Seq(Files), NEW alone, NEW ds
    PROVE  AloneOK([stage |-> "doctoc", files |-> files, todo |-> files, read |-> Nothing,
                    alone |-> alone], ds)
<1>1. Len(files) - Len(files) = 0
  BY LenProperties
<1>2. \A n \in 1 .. 0 : FALSE
  OBVIOUS
<1> QED BY <1>1, <1>2 DEF AloneOK, Handled

\* The list of a tool that has written a file.
LEMMA DoctocFields ==
    ASSUME NEW j \in Jobs, TypeInv, DoctocWrites(j)
    PROVE  /\ job'[j].files = job[j].files /\ job'[j].alone = job[j].alone
           /\ job[j].todo # <<>>
           /\ Len(job[j].todo) = 1 => job'[j].todo = job[j].files
           /\ Len(job[j].todo) # 1 => job'[j].todo = Tail(job[j].todo)
<1>0. job[j].todo # <<>>
  BY DoctocEffect
<1>1. CASE Len(job[j].todo) = 1
  <2>1. job'[j] = [stage |-> "decode", files |-> job[j].files, todo |-> job[j].files,
                   read |-> Nothing, alone |-> job[j].alone]
    BY <1>1, DoctocEffect
  <2> QED BY <1>0, <1>1, <2>1
<1>2. CASE Len(job[j].todo) # 1
  <2>1. job'[j] = [stage |-> "doctoc", files |-> job[j].files, todo |-> Tail(job[j].todo),
                   read |-> Nothing, alone |-> job[j].alone]
    BY <1>2, DoctocEffect
  <2> QED BY <1>0, <1>2, <2>1
<1> QED BY <1>1, <1>2

LEMMA DecodeFields ==
    ASSUME NEW j \in Jobs, TypeInv, DecodeWrites(j), job'[j] # Idle
    PROVE  /\ job'[j].files = job[j].files /\ job'[j].alone = job[j].alone
           /\ job[j].todo # <<>> /\ Len(job[j].todo) # 1
           /\ job'[j].todo = Tail(job[j].todo)
<1>0. job[j].todo # <<>>
  BY DecodeEffect
<1>1. Len(job[j].todo) # 1
  BY DecodeEffect
<1>2. job'[j] = [stage |-> "decode", files |-> job[j].files, todo |-> Tail(job[j].todo),
                 read |-> Nothing, alone |-> job[j].alone]
  BY <1>1, DecodeEffect
<1> QED BY <1>0, <1>1, <1>2

\* doctoc's table stands in the file that it has written; after the last one, in all.
LEMMA DoctocKeepsAlone ==
    ASSUME NEW j \in Jobs, TypeInv, AloneInv, DoctocWrites(j), job[j].alone
    PROVE  AloneOK(job'[j], docs')
<1> DEFINE me == job[j]
           l == Len(me.files)
           t == Len(me.todo)
           f == me.files[l - t + 1]
<1>1. JobOK(me) /\ me.stage = "doctoc" /\ me.todo # <<>> /\ me.read # Nothing /\ AloneOK(me, docs)
  BY DoctocEffect DEF TypeInv, AloneInv
<1>2. /\ l \in Nat /\ t \in Nat \ {0} /\ t <= l /\ l - t + 1 \in 1 .. l
      /\ Head(me.todo) = f /\ f \in Files /\ IsInjective(me.files)
      /\ DOMAIN me.files = 1 .. l /\ me.files \in Seq(Files)
  BY <1>1, FileAtHand, LenProperties DEF JobOK
<1>3. me.read \in Document /\ docs \in [Files -> Document]
  BY <1>1 DEF JobOK, JobRecord, TypeInv
<1>4. docs' = [docs EXCEPT ![f] = [me.read EXCEPT !.toc = doctoc(me.read)]]
  BY <1>2, DoctocEffect
<1>5. Listing(docs'[f])
  <2> HIDE DEF f
  <2>1. docs'[f] = [me.read EXCEPT !.toc = doctoc(me.read)]
    BY <1>2, <1>3, <1>4
  <2> QED BY <1>3, <2>1 DEF Listing, Document, doctoc
<1>6. \A n \in 1 .. l - t : Listing(docs[me.files[n]])
  BY <1>1 DEF AloneOK, Handled
<1>7. \A n \in 1 .. l - t : n \in 1 .. l /\ me.files[n] # f /\ me.files[n] \in Files
  <2> HIDE DEF l, t, me
  <2> SUFFICES ASSUME NEW n \in 1 .. l - t
               PROVE  n \in 1 .. l /\ me.files[n] # f /\ me.files[n] \in Files
    OBVIOUS
  <2>1. n \in 1 .. l /\ n # l - t + 1
    BY <1>2
  <2>2. me.files[n] # me.files[l - t + 1]
    BY <1>2, <2>1 DEF IsInjective
  <2>3. me.files[n] \in Files
    BY <1>2, <2>1, ElementOfSeq DEF l
  <2> QED BY <2>1, <2>2, <2>3
<1>8. \A n \in 1 .. l - t + 1 : Listing(docs'[me.files[n]])
  <2> HIDE DEF l, t, me, f
  <2> SUFFICES ASSUME NEW n \in 1 .. l - t + 1 PROVE Listing(docs'[me.files[n]])
    OBVIOUS
  <2>1. CASE n = l - t + 1
    BY <1>5, <2>1 DEF f
  <2>2. CASE n # l - t + 1
    <3>1. n \in 1 .. l - t
      BY <1>2, <2>2
    <3>2. docs'[me.files[n]] = docs[me.files[n]]
      BY <1>3, <1>4, <1>7, <3>1
    <3> QED BY <1>6, <3>1, <3>2
  <2> QED BY <2>1, <2>2
<1>9. CASE t = 1
  <2>1. job'[j] = [stage |-> "decode", files |-> me.files, todo |-> me.files,
                   read |-> Nothing, alone |-> me.alone]
    BY <1>9, DoctocEffect
  <2>2. Handled(job'[j]) = 0 /\ l - t + 1 = l
    <3>1. Handled(job'[j]) = l - l
      <4>1. job'[j].files = me.files /\ job'[j].todo = me.files
        BY <2>1
      <4> QED BY <4>1 DEF Handled
    <3> HIDE DEF l, t
    <3> QED BY <1>2, <1>9, <3>1
  <2>3. \A n \in 1 .. l : Listing(docs'[me.files[n]])
    <3> HIDE DEF l, t, me
    <3> QED BY <1>8, <2>2
  <2>4. 0 + 1 = 1
    OBVIOUS
  <2> HIDE DEF me
  <2> QED BY <2>1, <2>2, <2>3, <2>4 DEF AloneOK, l
<1>10. CASE t # 1
  <2>1. job'[j] = [stage |-> "doctoc", files |-> me.files, todo |-> Tail(me.todo),
                   read |-> Nothing, alone |-> me.alone]
    BY <1>10, DoctocEffect
  <2>2. Len(Tail(me.todo)) = t - 1
    BY <1>1, <1>10, NextFile
  <2>3. Handled(job'[j]) = l - t + 1
    <3>1. Handled(job'[j]) = l - (t - 1)
      <4>1. job'[j].files = me.files /\ job'[j].todo = Tail(me.todo)
        BY <2>1
      <4> QED BY <2>2, <4>1 DEF Handled
    <3> HIDE DEF l, t
    <3> QED BY <1>2, <3>1
  <2> HIDE DEF me, l, t
  <2> QED BY <1>8, <2>1, <2>3 DEF AloneOK
<1> QED BY <1>9, <1>10

\* decode-toc.js writes into a file that it will not come back to.
LEMMA DecodeKeepsAlone ==
    ASSUME NEW j \in Jobs, TypeInv, AloneInv, DecodeWrites(j), job[j].alone,
           Len(job[j].todo) # 1
    PROVE  AloneOK(job'[j], docs')
<1> DEFINE me == job[j]
           l == Len(me.files)
           t == Len(me.todo)
           f == me.files[l - t + 1]
<1>1. JobOK(me) /\ me.stage = "decode" /\ me.todo # <<>> /\ me.read # Nothing /\ AloneOK(me, docs)
  BY DecodeEffect DEF TypeInv, AloneInv
<1>2. /\ l \in Nat /\ t \in Nat \ {0} /\ t <= l /\ l - t + 1 \in 1 .. l
      /\ Head(me.todo) = f /\ f \in Files /\ IsInjective(me.files)
      /\ DOMAIN me.files = 1 .. l /\ me.files \in Seq(Files)
  BY <1>1, FileAtHand, LenProperties DEF JobOK
<1>3. docs \in [Files -> Document]
  BY DEF TypeInv
<1>4. docs' = [docs EXCEPT ![f] = [me.read EXCEPT !.toc = decode(me.read.body, me.read.toc)]]
  BY <1>2, DecodeEffect
<1>5. \A n \in l - t + 1 .. l : Listing(docs[me.files[n]])
  BY <1>1 DEF AloneOK, Handled
<1>6. \A n \in l - t + 2 .. l : Listing(docs'[me.files[n]])
  <2> HIDE DEF l, t, me
  <2> SUFFICES ASSUME NEW n \in l - t + 2 .. l PROVE Listing(docs'[me.files[n]])
    OBVIOUS
  <2>1. n \in 1 .. l /\ n # l - t + 1 /\ n \in l - t + 1 .. l
    BY <1>2
  <2>2. me.files[n] # f
    BY <1>2, <2>1 DEF IsInjective
  <2>3. me.files[n] \in Files
    BY <1>2, <2>1, ElementOfSeq DEF l
  <2> HIDE DEF f
  <2>4. docs'[me.files[n]] = docs[me.files[n]]
    BY <1>3, <1>4, <2>2, <2>3
  <2> QED BY <1>5, <2>1, <2>4
<1>7. job'[j] = [stage |-> "decode", files |-> me.files, todo |-> Tail(me.todo),
                 read |-> Nothing, alone |-> me.alone]
  BY DecodeEffect
<1>8. Len(Tail(me.todo)) = t - 1
  BY <1>1, NextFile
<1>9. Handled(job'[j]) + 1 = l - t + 2
  <2>1. Handled(job'[j]) = l - (t - 1)
    <3>1. job'[j].files = me.files /\ job'[j].todo = Tail(me.todo)
      BY <1>7
    <3> QED BY <1>8, <3>1 DEF Handled
  <2> HIDE DEF l, t
  <2> QED BY <1>2, <2>1
<1> HIDE DEF me, t
<1> QED BY <1>6, <1>7, <1>9 DEF AloneOK, l

\* A write of one tool is to a file that no lone other tool has.
LEMMA OthersStayAlone ==
    ASSUME NEW j \in Jobs, TypeInv, AloneInv, DoctocWrites(j) \/ DecodeWrites(j),
           NEW i \in Jobs \ {j}, job[i].alone
    PROVE  AloneOK(job[i], docs')
<1>1. /\ JobOK(job[i]) /\ JobOK(job[j]) /\ job[i].todo # <<>> /\ AloneOK(job[i], docs)
      /\ Range(job[j].files) \cap Range(job[i].files) = {}
      /\ docs \in [Files -> Document]
  BY DEF TypeInv, AloneInv
<1>2. /\ job[j].todo # <<>>
      /\ \E d : docs' = [docs EXCEPT ![Head(job[j].todo)] = d]
  <2>1. CASE DoctocWrites(j)
    BY <2>1, DoctocEffect
  <2>2. CASE DecodeWrites(j)
    BY <2>2, DecodeEffect
  <2> QED BY <2>1, <2>2
<1>3. Head(job[j].todo) \in Range(job[j].files)
  <2> DEFINE n == Len(job[j].files) - Len(job[j].todo) + 1
  <2>1. n \in 1 .. Len(job[j].files) /\ Head(job[j].todo) = job[j].files[n]
        /\ job[j].files \in Seq(Files)
    BY <1>1, <1>2, FileAtHand
  <2>2. n \in DOMAIN job[j].files
    <3> HIDE DEF n
    <3> QED BY <2>1, LenProperties
  <2> HIDE DEF n
  <2> QED BY <2>1, <2>2 DEF Range
<1>4. Range(job[i].files) \subseteq Files
  BY <1>1, RangeOfSeq DEF JobOK, JobRecord
<1>5. \A f \in Range(job[i].files) : docs'[f] = docs[f]
  BY <1>1, <1>2, <1>3, <1>4
<1> QED BY <1>1, <1>5, FilesUntouched

\* A tool that is started, or a save, takes the claim to be alone from those that
\* have one of its files.
LEMMA StartKeepsAlone ==
    ASSUME TypeInv, AloneInv, NEW j \in Jobs, NEW files \in Seq(Files), files # <<>>,
           IsInjective(files), Started(j, files),
           \A f \in Files \ Range(files) : docs'[f] = docs[f]
    PROVE  AloneInv'
<1>1. ASSUME job'[j].alone
      PROVE  /\ \A i \in Jobs \ {j} : Range(job'[i].files) \cap Range(job'[j].files) = {}
             /\ job'[j].todo # <<>> /\ AloneOK(job'[j], docs')
  <2> DEFINE a == \A k \in Jobs : ~ Shares(k, files)
  <2>1. job'[j] = [stage |-> "doctoc", files |-> files, todo |-> files, read |-> Nothing,
                   alone |-> a]
    BY StartEffect
  <2>2. job'[j].files = files /\ job'[j].todo = files /\ job'[j].alone = a
    <3> HIDE DEF a
    <3> QED BY <2>1
  <2>3. a
    BY <1>1, <2>2
  <2>4. ASSUME NEW i \in Jobs \ {j} PROVE Range(job'[i].files) \cap Range(files) = {}
    <3>1. job[i] \in JobRecord
      BY DEF TypeInv, JobOK
    <3>2. PICK b \in BOOLEAN : job'[i] = [job[i] EXCEPT !.alone = b]
      BY StartOthers
    <3>3. job'[i].files = job[i].files
      BY <3>1, <3>2 DEF JobRecord
    <3> QED BY <2>3, <3>3 DEF Shares
  <2>5. AloneOK(job'[j], docs')
    <3> HIDE DEF a
    <3> QED BY <2>1, AloneAtStart
  <2> QED BY <2>2, <2>4, <2>5
<1>2. ASSUME NEW i \in Jobs \ {j}, job'[i].alone
      PROVE  /\ \A k \in Jobs \ {i} : Range(job'[k].files) \cap Range(job'[i].files) = {}
             /\ job'[i].todo # <<>> /\ AloneOK(job'[i], docs')
  <2>1. JobOK(job[i]) /\ job[i] \in JobRecord
    BY DEF TypeInv, JobOK
  <2>2. PICK a \in BOOLEAN :
           /\ job'[i] = [job[i] EXCEPT !.alone = a]
           /\ a => job[i].alone /\ Range(job[i].files) \cap Range(files) = {}
    BY StartOthers
  <2>3. /\ job'[i].alone = a /\ job'[i].files = job[i].files /\ job'[i].todo = job[i].todo
        /\ job'[i].stage = job[i].stage /\ job'[i].read = job[i].read
    BY <2>1, <2>2 DEF JobRecord
  <2>4. job[i].alone /\ Range(job[i].files) \cap Range(files) = {}
    BY <1>2, <2>2, <2>3
  <2>5. /\ \A k \in Jobs \ {i} : Range(job[k].files) \cap Range(job[i].files) = {}
        /\ job[i].todo # <<>> /\ AloneOK(job[i], docs)
    BY <2>4 DEF AloneInv
  <2>6. ASSUME NEW k \in Jobs \ {i}
        PROVE  Range(job'[k].files) \cap Range(job'[i].files) = {}
    <3>1. CASE k = j
      <4>1. job'[j].files = files
        BY StartEffect
      <4> QED BY <2>3, <2>4, <3>1, <4>1
    <3>2. CASE k # j
      <4>1. job[k] \in JobRecord
        BY DEF TypeInv, JobOK
      <4>2. PICK b \in BOOLEAN : job'[k] = [job[k] EXCEPT !.alone = b]
        BY <3>2, StartOthers
      <4>3. job'[k].files = job[k].files
        BY <4>1, <4>2 DEF JobRecord
      <4> QED BY <2>3, <2>5, <4>3
    <3> QED BY <3>1, <3>2
  <2>7. AloneOK(job[i], docs')
    <3>1. Range(job[i].files) \subseteq Files
      BY <2>1, RangeOfSeq DEF JobRecord
    <3>2. \A f \in Range(job[i].files) : docs'[f] = docs[f]
      BY <2>4, <3>1
    <3> QED BY <2>1, <2>5, <3>2, FilesUntouched
  <2>8. AloneOK(job'[i], docs')
    BY <2>3, <2>7 DEF AloneOK, Handled
  <2> QED BY <2>3, <2>5, <2>6, <2>8
<1> QED BY <1>1, <1>2 DEF AloneInv

LEMMA StepAlone == TypeInv /\ AloneInv /\ [Next]_vars => AloneInv'
<1> SUFFICES ASSUME TypeInv, AloneInv, [Next]_vars PROVE AloneInv'
  OBVIOUS
<1>0. /\ docs \in [Files -> Document] /\ DOMAIN job = Jobs /\ \A j \in Jobs : JobOK(job[j])
  BY DEF TypeInv
<1>1. ASSUME NEW j \in Jobs, NEW f \in Files, Save(j, f) PROVE AloneInv'
  <2>1. PICK b \in Bodies : docs' = [docs EXCEPT ![f].body = b]
    BY <1>1 DEF Save
  <2>2. f \in Range(<<f>>)
    <3>1. 1 \in DOMAIN <<f>> /\ <<f>>[1] = f
      OBVIOUS
    <3> QED BY <3>1 DEF Range
  <2>3. \A g \in Files \ Range(<<f>>) : docs'[g] = docs[g]
    BY <1>0, <2>1, <2>2
  <2> QED BY <1>1, <2>3, OrderedFiles, StartKeepsAlone DEF Save
<1>2. ASSUME NEW j \in Jobs, TocAll(j) PROVE AloneInv'
  BY <1>2, OrderedFiles, StartKeepsAlone DEF TocAll
<1>3. ASSUME NEW j \in Jobs, ReadFile(j) PROVE AloneInv'
  <2>1. /\ job[j].todo # <<>> /\ DOMAIN job' = Jobs /\ docs' = docs
        /\ job'[j] = [job[j] EXCEPT !.read = docs[Head(job[j].todo)]]
        /\ \A i \in Jobs \ {j} : job'[i] = job[i]
    BY <1>0, <1>3, ReadEffect DEF ReadFile
  <2>2. job[j] \in JobRecord
    BY <1>0 DEF JobOK
  <2>3. /\ job'[j].files = job[j].files /\ job'[j].todo = job[j].todo
        /\ job'[j].stage = job[j].stage /\ job'[j].alone = job[j].alone
        /\ job'[j].read = docs[Head(job[j].todo)]
    BY <2>1, <2>2 DEF JobRecord
  <2>4. AloneOK(job[j], docs) => AloneOK(job'[j], docs')
    BY <2>1, <2>3 DEF AloneOK, Handled
  <2>5. \A i \in Jobs : /\ job'[i].files = job[i].files /\ job'[i].todo = job[i].todo
                        /\ job'[i].alone = job[i].alone
                        /\ AloneOK(job[i], docs) => AloneOK(job'[i], docs')
    BY <2>1, <2>3, <2>4
  <2> QED BY <2>5 DEF AloneInv
<1>4. ASSUME NEW j \in Jobs, DoctocWrites(j) \/ DecodeWrites(j) PROVE AloneInv'
  <2>1. \A i \in Jobs \ {j} : job'[i] = job[i]
    BY <1>4, DoctocEffect, DecodeEffect
  <2>2. ASSUME NEW i \in Jobs
        PROVE  /\ Range(job'[i].files) \subseteq Range(job[i].files)
               /\ job'[i].alone => job[i].alone
    <3>1. CASE i # j
      BY <2>1, <3>1
    <3>2. CASE i = j /\ job'[j] = Idle
      BY <3>2 DEF Idle, Range
    <3>3. CASE i = j /\ job'[j] # Idle
      <4>1. job'[j].files = job[j].files /\ job'[j].alone = job[j].alone
        BY <1>4, <3>3, DoctocFields, DecodeFields
      <4> QED BY <3>3, <4>1
    <3> QED BY <3>1, <3>2, <3>3
  <2>3. ASSUME NEW i \in Jobs, job'[i].alone
        PROVE  job'[i].todo # <<>> /\ AloneOK(job'[i], docs')
    <3>1. job[i].alone
      BY <2>2, <2>3
    <3>2. CASE i # j
      BY <1>4, <2>1, <3>1, <3>2, OthersStayAlone DEF AloneInv
    <3>3. CASE i = j
      <4>1. job'[j] # Idle
        BY <2>3, <3>3 DEF Idle
      <4>2. AloneOK(job'[j], docs')
        <5>1. CASE DoctocWrites(j)
          BY <3>1, <3>3, <5>1, DoctocKeepsAlone
        <5>2. CASE DecodeWrites(j)
          <6>1. Len(job[j].todo) # 1
            BY <4>1, <5>2, DecodeEffect
          <6> QED BY <3>1, <3>3, <5>2, <6>1, DecodeKeepsAlone
        <5> QED BY <1>4, <5>1, <5>2
      <4>3. job'[j].todo # <<>>
        <5>1. CASE Len(job[j].todo) = 1
          <6>1. CASE DoctocWrites(j)
            <7>1. job'[j].todo = job[j].files
              BY <5>1, <6>1, DoctocFields
            <7>2. job[j].files # <<>>
              BY <1>0, <6>1, DoctocEffect, FileAtHand
            <7> QED BY <7>1, <7>2
          <6>2. CASE DecodeWrites(j)
            BY <4>1, <5>1, <6>2, DecodeEffect
          <6> QED BY <1>4, <6>1, <6>2
        <5>2. CASE Len(job[j].todo) # 1
          <6>1. job'[j].todo = Tail(job[j].todo) /\ job[j].todo # <<>>
            BY <1>4, <4>1, <5>2, DoctocFields, DecodeFields
          <6> QED BY <1>0, <5>2, <6>1, NextFile
        <5> QED BY <5>1, <5>2
      <4> QED BY <3>3, <4>2, <4>3
    <3> QED BY <3>2, <3>3
  <2> QED BY <2>2, <2>3 DEF AloneInv
<1>5. ASSUME NEW j \in Jobs, JobStops(j) PROVE AloneInv'
  <2>1. /\ DOMAIN job' = Jobs /\ job'[j] = Idle /\ \A i \in Jobs \ {j} : job'[i] = job[i]
        /\ docs' = docs
    BY <1>0, <1>5, StopEffect DEF JobStops
  <2>2. job'[j].alone = FALSE /\ Range(job'[j].files) = {}
    BY <2>1 DEF Idle, Range
  <2> QED BY <2>1, <2>2 DEF AloneInv
<1>6. CASE UNCHANGED <<docs, job>>
  BY <1>6 DEF AloneInv
<1>7. ASSUME \/ \E matched \in SUBSET Files : PdfStarts(matched)
             \/ ConvertToPdf \/ PdfAborts \/ PdfEnds
      PROVE  UNCHANGED <<docs, job>>
  BY <1>7 DEF PdfStarts, ConvertToPdf, PdfAborts, PdfEnds
<1> QED BY <1>1, <1>2, <1>3, <1>4, <1>5, <1>6, <1>7 DEF Next, vars

\* Whatever the documents say, and whatever other tools and the editor do to other
\* files meanwhile: a tool that was alone with its files leaves in each regular one the
\* table of contents that decode-toc.js promises.
THEOREM LoneToolIsRight == Spec => AloneLeavesTheRightToc
<1>1. Init => AloneInv
  BY DEF Init, AloneInv, Idle
<1>2. ASSUME TypeInv, AloneInv, NEW j \in Jobs, job[j].alone, DecodeWrites(j)
      PROVE  LET f == Head(job[j].todo)
             IN  Regular(docs'[f].body) => docs'[f].toc = Expected(docs'[f].body.below)
  <2> DEFINE d == job[j].read
             f == Head(job[j].todo)
  <2>1. /\ JobOK(job[j]) /\ job[j].stage = "decode" /\ d # Nothing /\ job[j].todo # <<>>
        /\ docs' = [docs EXCEPT ![f] = [d EXCEPT !.toc = decode(d.body, d.toc)]]
        /\ docs \in [Files -> Document] /\ AloneOK(job[j], docs)
    BY <1>2, DecodeEffect DEF TypeInv, AloneInv
  <2>2. d = docs[f] /\ f \in Files /\ d \in Document
    BY <2>1, FileAtHand DEF AloneOK
  <2>3. Listing(docs[f])
    <3> DEFINE n == Len(job[j].files) - Len(job[j].todo) + 1
    <3>1. n \in 1 .. Len(job[j].files) /\ f = job[j].files[n] /\ Len(job[j].files) \in Nat
      BY <2>1, FileAtHand
    <3>2. \A m \in Handled(job[j]) + 1 .. Len(job[j].files) : Listing(docs[job[j].files[m]])
      BY <2>1 DEF AloneOK
    <3>3. n = Handled(job[j]) + 1
      BY DEF Handled
    <3> HIDE DEF n
    <3>4. n \in n .. Len(job[j].files)
      BY <3>1
    <3> QED BY <3>1, <3>2, <3>3, <3>4
  <2>4. Regular(d.body) => decode(d.body, d.toc) = Expected(d.body.below)
    <3>1. d.body \in Body /\ d.toc = doctoc(d)
      BY <2>2, <2>3, WrittenDocument DEF Listing
    <3>2. Regular(d.body) => decode(d.body, doctoc(d)) = Expected(d.body.below)
      BY <3>1, DecodeKeepsItsPromise
    <3> QED BY <3>1, <3>2
  <2>5. docs'[f].toc = decode(d.body, d.toc) /\ docs'[f].body = d.body
    <3>1. d \in [body : Bodies, toc : Seq(Entry)]
      BY <2>2 DEF Document
    <3> HIDE DEF d, f
    <3>2. docs'[f] = [d EXCEPT !.toc = decode(d.body, d.toc)]
      BY <2>1, <2>2
    <3> QED BY <3>1, <3>2
  <2> QED BY <2>4, <2>5
<1>3. TypeInv /\ AloneInv /\ [Next]_vars =>
         [\A j \in Jobs : (job[j].alone /\ DecodeWrites(j)) =>
             LET f == Head(job[j].todo)
             IN  Regular(docs'[f].body) => docs'[f].toc = Expected(docs'[f].body.below)]_vars
  BY <1>2
<1> QED BY <1>1, <1>3, InitTypes, StepTypes, StepAlone, PTL DEF Spec, AloneLeavesTheRightToc

-------------------------------------------------------------------------------
\* generate-pdf.js.

\* While the run is at work each matched file is still to do, has failed or has
\* its PDF, and is only one of these; that is what makes the count of failures,
\* from which the exit code is computed, tell about the PDFs.
Accounted ==
    /\ pdf.matched = pdf.todo \cup pdf.failed \cup output
    /\ pdf.todo \cap (pdf.failed \cup output) = {}
    /\ pdf.failed \cap output = {}

PdfInv ==
    /\ pdf = NoRun => output = {}
    /\ DOMAIN pdf = DOMAIN NoRun
    /\ pdf # NoRun =>
          /\ Accounted
          /\ pdf.stage \in {"running", "ended", "aborted"}
          /\ pdf.stage = "ended" => pdf.todo = {} /\ pdf.exit = IF pdf.failed = {} THEN 0 ELSE 1
          /\ pdf.stage = "aborted" => pdf.todo # {} /\ pdf.exit = 1

LEMMA StepPdfInv == PdfInv /\ [Next]_vars => PdfInv'
<1> SUFFICES ASSUME PdfInv, [Next]_vars PROVE PdfInv'
  OBVIOUS
<1>1. ASSUME NEW matched \in SUBSET Files, PdfStarts(matched) PROVE PdfInv'
  <2>1. /\ pdf' = [stage |-> IF matched = {} THEN "ended" ELSE "running", matched |-> matched,
                   todo |-> matched, failed |-> {}, exit |-> 0]
        /\ output' = {}
    BY <1>1 DEF PdfStarts, NoRun, PdfInv
  <2>2. Accounted' /\ DOMAIN pdf' = DOMAIN NoRun /\ pdf' # NoRun
    BY <2>1 DEF Accounted, NoRun
  <2> QED BY <2>1, <2>2 DEF PdfInv
<1>2. ASSUME ConvertToPdf PROVE PdfInv'
  <2>1. PICK f \in Files : NextToConvert(f) /\ (Converted(f) \/ FailureRecorded(f))
    BY <1>2 DEF ConvertToPdf
  <2>2. pdf.stage = "running" /\ pdf # NoRun /\ f \in pdf.todo
    BY <1>2, <2>1 DEF ConvertToPdf, NextToConvert, NoRun
  <2>3. /\ DOMAIN pdf' = DOMAIN pdf /\ pdf'.stage = "running" /\ pdf'.matched = pdf.matched
        /\ pdf'.todo = pdf.todo \ {f}
        /\ \/ pdf'.failed = pdf.failed /\ output' = output \cup {f}
           \/ pdf'.failed = pdf.failed \cup {f} /\ output' = output
    BY <2>1, <2>2 DEF Converted, FailureRecorded, PdfInv, NoRun
  <2>4. pdf' # NoRun
    BY <2>3 DEF NoRun
  <2>5. Accounted'
    BY <2>2, <2>3 DEF PdfInv, Accounted
  <2> QED BY <2>2, <2>3, <2>4, <2>5 DEF PdfInv
<1>3. CASE PdfAborts
  <2>1. /\ pdf # NoRun /\ pdf.todo # {} /\ output' = output
        /\ DOMAIN pdf' = DOMAIN pdf /\ pdf'.stage = "aborted" /\ pdf'.exit = 1
        /\ pdf'.matched = pdf.matched /\ pdf'.todo = pdf.todo /\ pdf'.failed = pdf.failed
    BY <1>3 DEF PdfAborts, PdfInv, NoRun
  <2>2. Accounted'
    BY <2>1 DEF PdfInv, Accounted
  <2> QED BY <2>1, <2>2 DEF PdfInv, NoRun
<1>4. CASE PdfEnds
  <2>1. /\ pdf # NoRun /\ pdf.todo = {} /\ output' = output
        /\ DOMAIN pdf' = DOMAIN pdf /\ pdf'.stage = "ended"
        /\ pdf'.exit = IF pdf.failed = {} THEN 0 ELSE 1
        /\ pdf'.matched = pdf.matched /\ pdf'.todo = pdf.todo /\ pdf'.failed = pdf.failed
    BY <1>4 DEF PdfEnds, PdfInv, NoRun
  <2>2. Accounted'
    BY <2>1 DEF PdfInv, Accounted
  <2> QED BY <2>1, <2>2 DEF PdfInv, NoRun
<1>5. CASE UNCHANGED <<pdf, output>>
  BY <1>5 DEF PdfInv, Accounted
<1>6. ASSUME NEW j \in Jobs, \/ \E f \in Files : Save(j, f)
                             \/ TocAll(j) \/ ReadFile(j) \/ DoctocWrites(j) \/ DecodeWrites(j)
                             \/ JobStops(j)
      PROVE  UNCHANGED <<pdf, output>>
  BY <1>6 DEF Save, TocAll, ReadFile, DoctocWrites, DecodeWrites, WriteFile, JobStops
<1> QED BY <1>1, <1>2, <1>3, <1>4, <1>5, <1>6 DEF Next, vars

\* A run of generate-pdf.js ends with 0 if and only if each file its pattern
\* matched has its PDF, wherever it ends; and unless it is aborted, each one has
\* been tried.
THEOREM ExitCodeIsTrue == Spec => []ExitCodeTells
<1>1. Init => PdfInv
  BY DEF Init, PdfInv
<1>2. PdfInv => ExitCodeTells
  <2>1. pdf = NoRun => ExitCodeTells
    BY DEF NoRun, ExitCodeTells
  <2>2. PdfInv /\ pdf # NoRun => ExitCodeTells
    BY DEF PdfInv, Accounted, ExitCodeTells
  <2> QED BY <2>1, <2>2
<1> QED BY <1>1, <1>2, StepPdfInv, PTL DEF Spec
===============================================================================
