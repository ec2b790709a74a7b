--------------------------- MODULE HistoryStoreProofs ---------------------------
(***************************************************************************)
(* Lemmas about the operators of HistoryStore, for VersionHistory and the  *)
(* engine alike.                                                           *)
(***************************************************************************)
EXTENDS HistoryStore, SequenceTheorems, FiniteSetTheorems, WellFoundedInduction, TLAPS

\* A set of numbers that has an upper bound has a largest member, and Max is it.
LEMMA MaxOfBounded ==
    ASSUME NEW S \in SUBSET Nat, S # {}, NEW b \in Nat, \A x \in S : x <= b
    PROVE  Max(S) \in S /\ \A x \in S : x <= Max(S)
<1> DEFINE Bounds == {n \in Nat : \A x \in S : x <= n}
           Less == OpToRel(<, Nat)
<1>0. \A x, y \in Nat : x < y => <<x, y>> \in Less
  BY Zenon DEF OpToRel
<1>1. PICK m \in Bounds : \A n \in Bounds : ~ (<<n, m>> \in Less)
  <2>1. Bounds \subseteq Nat /\ Bounds # {}
    OBVIOUS
  <2>2. IsWellFoundedOn(Less, Nat)
    BY NatLessThanWellFounded, Zenon
  <2> HIDE DEF Bounds, Less
  <2> QED BY <2>1, <2>2, WFMin, Zenon
<1> HIDE DEF Less
<1>2. \A n \in Bounds : m <= n
  <2> SUFFICES ASSUME NEW n \in Bounds, n < m PROVE FALSE
    OBVIOUS
  <2>1. <<n, m>> \in Less
    BY <1>0
  <2> QED BY <1>1, <2>1
<1>3. m \in S
  <2> SUFFICES ASSUME m \notin S PROVE FALSE
    OBVIOUS
  <2>1. PICK x \in S : TRUE
    OBVIOUS
  <2>2. m - 1 \in Bounds
    BY <2>1
  <2> QED BY <1>2, <2>2
<1>4. \E x \in S : \A y \in S : x >= y
  BY <1>3
<1> QED BY <1>4 DEF Max

\* The next number of a history is positive and above every number in it.
LEMMA NextVersionIsAbove ==
    ASSUME NEW entries, \A e \in entries : e.ver \in Nat,
           NEW b \in Nat, \A e \in entries : e.ver <= b,
           NEW rec
    PROVE  /\ NextVersion(entries, rec) \in Nat \ {0}
           /\ NextVersion(entries, rec) <= b + 1
           /\ \A e \in HistoryOf(entries, rec) : e.ver < NextVersion(entries, rec)
<1> DEFINE S == {e.ver : e \in HistoryOf(entries, rec)}
<1>1. HistoryOf(entries, rec) \subseteq entries
  BY DEF HistoryOf
<1>2. CASE HistoryOf(entries, rec) = {}
  BY <1>2 DEF NextVersion
<1>3. CASE HistoryOf(entries, rec) # {}
  <2>1. S \in SUBSET Nat /\ S # {} /\ \A x \in S : x <= b
    BY <1>1, <1>3
  <2>2. Max(S) \in S /\ \A x \in S : x <= Max(S)
    <3> HIDE DEF S
    <3> QED BY <2>1, MaxOfBounded
  <2>3. NextVersion(entries, rec) = Max(S) + 1
    BY <1>3 DEF NextVersion
  <2>4. \A e \in HistoryOf(entries, rec) : e.ver \in S
    OBVIOUS
  <2>5. /\ Max(S) \in Nat /\ Max(S) <= b
        /\ \A e \in HistoryOf(entries, rec) : e.ver \in Nat /\ e.ver <= Max(S)
    <3> HIDE DEF S
    <3> QED BY <2>1, <2>2, <2>4
  <2> HIDE DEF S
  <2> QED BY <2>3, <2>5
<1> QED BY <1>2, <1>3

\* What is added to a context is the new entry and what it already had.
LEMMA AddedByTracking ==
    ASSUME NEW E, NEW t \in [added : Seq(E), deleted : SUBSET E], NEW e \in E
    PROVE  /\ TrackAdded(t, e) \in [added : Seq(E), deleted : SUBSET E]
           /\ AddedEntries(TrackAdded(t, e)) \subseteq AddedEntries(t) \cup {e}
<1>0. \A added : [t EXCEPT !.added = added] = [added |-> added, deleted |-> t.deleted]
  OBVIOUS
<1>1. TrackAdded(t, e) = [added |-> Append(t.added, e), deleted |-> t.deleted]
  BY <1>0, Zenon DEF TrackAdded
<1>2. /\ Append(t.added, e) \in Seq(E)
      /\ \A i \in DOMAIN Append(t.added, e) :
            \/ i \in DOMAIN t.added /\ Append(t.added, e)[i] = t.added[i]
            \/ Append(t.added, e)[i] = e
  BY AppendProperties
<1> QED BY <1>1, <1>2 DEF AddedEntries

\* The new entry is among those that were added.
LEMMA TrackedIsAdded ==
    ASSUME NEW E, NEW t \in [added : Seq(E), deleted : SUBSET E], NEW e
    PROVE  e \in AddedEntries(TrackAdded(t, e))
<1>1. \A added : [t EXCEPT !.added = added].added = added
  OBVIOUS
<1>2. TrackAdded(t, e).added = Append(t.added, e)
  BY <1>1, Zenon DEF TrackAdded
<1>3. t.added \in Seq(E \cup {e})
  BY SeqDef
<1>4. /\ Len(t.added) + 1 \in DOMAIN Append(t.added, e)
      /\ Append(t.added, e)[Len(t.added) + 1] = e
  BY <1>3, AppendProperties
<1> QED BY <1>2, <1>4 DEF AddedEntries

\* The next number of a history that is not empty follows that of an entry.
LEMMA NextVersionFollows ==
    ASSUME NEW entries, \A e \in entries : e.ver \in Nat,
           NEW b \in Nat, \A e \in entries : e.ver <= b,
           NEW rec, HistoryOf(entries, rec) # {}
    PROVE  \E m \in HistoryOf(entries, rec) : NextVersion(entries, rec) = m.ver + 1
<1> DEFINE S == {e.ver : e \in HistoryOf(entries, rec)}
<1>1. S \in SUBSET Nat /\ S # {} /\ \A x \in S : x <= b
  BY DEF HistoryOf
<1>2. Max(S) \in S
  <2> HIDE DEF S
  <2> QED BY <1>1, MaxOfBounded
<1>3. NextVersion(entries, rec) = Max(S) + 1
  BY DEF NextVersion
<1> QED BY <1>2, <1>3

\* What the tracking operations make of a context, field by field.
LEMMA TrackingFields ==
    ASSUME NEW E, NEW t \in [added : Seq(E), deleted : SUBSET E], NEW e, NEW d
    PROVE  /\ TrackAdded(t, e) = [added |-> Append(t.added, e), deleted |-> t.deleted]
           /\ TrackDeleted(t, d) = [added |-> t.added, deleted |-> t.deleted \cup d]
<1>1. \A x : [t EXCEPT !.added = x] = [added |-> x, deleted |-> t.deleted]
  OBVIOUS
<1>2. \A x : [t EXCEPT !.deleted = x] = [added |-> t.added, deleted |-> x]
  OBVIOUS
<1> QED BY <1>1, <1>2, Zenon DEF TrackAdded, TrackDeleted

\* A save leaves a finite table finite.
LEMMA SavedIsFinite ==
    ASSUME NEW E, NEW t \in [added : Seq(E), deleted : SUBSET E],
           NEW entries, IsFiniteSet(entries)
    PROVE  IsFiniteSet(Saved(entries, t))
<1> DEFINE at == [i \in 1 .. Len(t.added) |-> t.added[i]]
<1>1. t.added \in Seq(E) /\ Len(t.added) \in Nat /\ DOMAIN t.added = 1 .. Len(t.added)
  BY LenProperties
<1>2. at \in Surjection(1 .. Len(t.added), AddedEntries(t))
  BY <1>1 DEF Surjection, AddedEntries
<1>3. IsFiniteSet(AddedEntries(t))
  <2> HIDE DEF at
  <2> QED BY <1>1, <1>2, FS_NatSurjection, Zenon DEF ExistsSurjection
<1>4. IsFiniteSet(entries \ t.deleted)
  BY FS_Subset
<1> QED BY <1>3, <1>4, FS_Union, Zenon DEF Saved

\* Excess takes the lower end of a history.
LEMMA ExcessIsDownClosed ==
    ASSUME NEW entries, IsFiniteSet(entries), \A e \in entries : e.ver \in Nat,
           NEW rec, NEW max \in Nat,
           NEW e \in Excess(entries, rec, max), NEW f \in HistoryOf(entries, rec), f.ver < e.ver
    PROVE  f \in Excess(entries, rec, max)
<1> DEFINE Above(g) == {h \in HistoryOf(entries, rec) : h.ver > g.ver}
<1>1. e \in HistoryOf(entries, rec) /\ Cardinality(Above(e)) >= max
  BY DEF Excess
<1>2. HistoryOf(entries, rec) \subseteq entries
  BY DEF HistoryOf
<1>3. Above(e) \subseteq Above(f) /\ Above(f) \subseteq entries
  BY <1>1, <1>2
<1>4. IsFiniteSet(Above(f)) /\ IsFiniteSet(Above(e))
  <2> HIDE DEF Above
  <2> QED BY <1>3, FS_Subset
<1>5. Cardinality(Above(e)) <= Cardinality(Above(f))
  <2> HIDE DEF Above
  <2> QED BY <1>3, <1>4, FS_Subset
<1>6. Cardinality(Above(e)) \in Nat /\ Cardinality(Above(f)) \in Nat
  <2> HIDE DEF Above
  <2> QED BY <1>4, FS_CardinalityType
<1>7. Cardinality(Above(f)) >= max
  <2> HIDE DEF Above
  <2> QED BY <1>1, <1>5, <1>6
<1> QED BY <1>7 DEF Excess
===============================================================================
