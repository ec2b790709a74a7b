------------------------- MODULE VersionHistoryProofs -------------------------
(***************************************************************************)
(* What holds of VersionHistory for any number of workers, records,        *)
(* captures and faults.                                                    *)
(***************************************************************************)
EXTENDS VersionHistory, HistoryStoreProofs

-------------------------------------------------------------------------------
\* Type correctness.  The number of a new entry is a number only because the
\* numbers given so far have a bound, so the invariant carries one.
Bounded(b) ==
    /\ \A e \in versions : e.ver <= b
    /\ \A w \in Workers : \A e \in AddedEntries(tracker[w]) : e.ver <= b

TypeInv == TypeOK /\ \E b \in Nat : Bounded(b)

Tracker == [added : Seq(Entry), deleted : SUBSET Entry]

LEMMA InitTypeInv == Init => TypeInv
<1> SUFFICES ASSUME Init PROVE TypeInv
  OBVIOUS
<1> USE HistoryAssumption
<1>1. EmptyTracker \in Tracker /\ AddedEntries(EmptyTracker) = {}
  BY DEF EmptyTracker, Tracker, AddedEntries
<1>2. TypeOK
  BY <1>1 DEF Init, TypeOK, Tracker
<1>3. Bounded(0)
  BY <1>1 DEF Init, Bounded
<1> QED BY <1>2, <1>3 DEF TypeInv

LEMMA StepTypeInv == TypeInv /\ [Next]_vars => TypeInv'
<1> SUFFICES ASSUME TypeInv, [Next]_vars PROVE TypeInv'
  OBVIOUS
<1> USE HistoryAssumption
<1>0. PICK b \in Nat : Bounded(b)
  BY DEF TypeInv
<1>t. TypeOK
  BY DEF TypeInv
<1>e. EmptyTracker \in Tracker /\ AddedEntries(EmptyTracker) = {}
  BY DEF EmptyTracker, Tracker, AddedEntries
<1>1. ASSUME NEW w \in Workers, NEW r \in Records, CaptureSnapshot(w, r) PROVE TypeInv'
  <2>1. \A e \in versions : e.ver \in Nat /\ e.ver <= b
    BY <1>0, <1>t DEF TypeOK, Entry, Bounded
  <2>2. NextVersion(versions, r) \in Nat \ {0} /\ NextVersion(versions, r) <= b + 1
    BY <2>1, NextVersionIsAbove
  <2>3. NewEntry(r) \in Entry /\ NewEntry(r).ver <= b + 1
    BY <1>t, <2>2 DEF NewEntry, Entry, TypeOK
  <2>4. tracker[w] \in Tracker
    BY <1>t DEF TypeOK, Tracker
  <2>5. /\ TrackAdded(tracker[w], NewEntry(r)) \in Tracker
        /\ AddedEntries(TrackAdded(tracker[w], NewEntry(r)))
              \subseteq AddedEntries(tracker[w]) \cup {NewEntry(r)}
    BY <2>3, <2>4, AddedByTracking DEF Tracker
  <2>6. TypeOK'
    BY <1>1, <1>t, <2>5 DEF CaptureSnapshot, TypeOK, Tracker
  <2>7. tracker' = [tracker EXCEPT ![w] = TrackAdded(tracker[w], NewEntry(r))]
    BY <1>1 DEF CaptureSnapshot
  <2>8. \A u \in Workers : AddedEntries(tracker'[u])
                              \subseteq AddedEntries(tracker[u]) \cup {NewEntry(r)}
    BY <1>t, <2>5, <2>7 DEF TypeOK
  <2>9. \A e : e \in versions => e.ver <= b + 1
    BY <2>1
  <2>10. \A u \in Workers : \A e \in AddedEntries(tracker[u]) : e.ver \in Nat
    <3>1. \A u \in Workers : tracker[u].added \in Seq(Entry)
      BY <1>t DEF TypeOK
    <3>2. \A u \in Workers : AddedEntries(tracker[u]) \subseteq Entry
      BY <3>1 DEF AddedEntries
    <3> QED BY <3>2 DEF Entry
  <2>11. Bounded(b + 1)'
    BY <1>0, <1>1, <2>3, <2>8, <2>9, <2>10 DEF Bounded, CaptureSnapshot
  <2> QED BY <2>6, <2>11 DEF TypeInv
<1>2. ASSUME NEW w \in Workers, NEW d \in SUBSET versions,
             tracker' = [tracker EXCEPT ![w] = TrackDeleted(@, d)],
             saving' = [saving EXCEPT ![w] = TRUE],
             UNCHANGED <<versions, gone, clock, captures, faults>>
      PROVE  TypeInv'
  <2>1. tracker[w] \in Tracker /\ d \in SUBSET Entry
    BY <1>t DEF TypeOK, Tracker
  <2>2. /\ TrackDeleted(tracker[w], d) \in Tracker
        /\ AddedEntries(TrackDeleted(tracker[w], d)) = AddedEntries(tracker[w])
    BY <2>1 DEF TrackDeleted, Tracker, AddedEntries
  <2>3. TypeOK'
    BY <1>2, <1>t, <2>2 DEF TypeOK, Tracker
  <2>4. \A u \in Workers : AddedEntries(tracker'[u]) = AddedEntries(tracker[u])
    BY <1>2, <1>t, <2>2 DEF TypeOK
  <2>5. Bounded(b)'
    BY <1>0, <1>2, <2>4 DEF Bounded
  <2> QED BY <2>3, <2>5 DEF TypeInv
<1>3. ASSUME NEW w \in Workers, NEW r \in Records, ApplyRetentionForRecord(w, r) PROVE TypeInv'
  <2>1. Excess(versions, r, MaxVersions) \in SUBSET versions
    BY DEF Excess, HistoryOf
  <2> QED BY <1>2, <1>3, <2>1 DEF ApplyRetentionForRecord
<1>4. ASSUME NEW w \in Workers, NEW s \in SyncIds, ApplyTimeBasedRetention(w, s) PROVE TypeInv'
  <2>1. Expired(s) \in SUBSET versions
    BY DEF OlderThan, Expired
  <2> QED BY <1>2, <1>4, <2>1 DEF ApplyTimeBasedRetention
<1>s. ASSUME NEW w \in Workers
      PROVE  /\ Saved(versions, tracker[w]) \subseteq Entry
             /\ \A e \in Saved(versions, tracker[w]) : e.ver <= b
  <2>1. tracker[w] \in Tracker
    BY <1>t DEF TypeOK, Tracker
  <2>2. Saved(versions, tracker[w]) \subseteq versions \cup AddedEntries(tracker[w])
    BY DEF Saved
  <2>3. AddedEntries(tracker[w]) \subseteq Entry
    BY <2>1 DEF Tracker, AddedEntries
  <2> QED BY <1>0, <1>t, <2>2, <2>3 DEF TypeOK, Bounded
<1>5. ASSUME NEW w \in Workers, SaveChanges(w) PROVE TypeInv'
  <2>1. TypeOK'
    BY <1>5, <1>t, <1>e, <1>s DEF TypeOK, Tracker, SaveChanges
  <2>2. \A u \in Workers : AddedEntries(tracker'[u]) \subseteq AddedEntries(tracker[u])
    BY <1>5, <1>t, <1>e DEF TypeOK, SaveChanges
  <2>3. Bounded(b)'
    BY <1>0, <1>5, <1>s, <2>2 DEF Bounded, SaveChanges
  <2> QED BY <2>1, <2>3 DEF TypeInv
<1>13. ASSUME NEW w \in Workers, SaveLost(w) PROVE TypeInv'
  <2>1. TypeOK'
    BY <1>13, <1>t, <1>s DEF TypeOK, SaveLost
  <2>2. Bounded(b)'
    BY <1>0, <1>13, <1>s DEF Bounded, SaveLost
  <2> QED BY <2>1, <2>2 DEF TypeInv
<1>6. ASSUME NEW w \in Workers, EndScope(w) PROVE TypeInv'
  <2>1. TypeOK'
    BY <1>6, <1>t, <1>e DEF TypeOK, Tracker, EndScope
  <2>2. \A u \in Workers : AddedEntries(tracker'[u]) \subseteq AddedEntries(tracker[u])
    BY <1>6, <1>t, <1>e DEF TypeOK, EndScope
  <2>3. Bounded(b)'
    BY <1>0, <1>6, <2>2 DEF Bounded, EndScope
  <2> QED BY <2>1, <2>3 DEF TypeInv
<1>7. ASSUME UNCHANGED <<versions, tracker>>, TypeOK' PROVE TypeInv'
  BY <1>0, <1>7 DEF TypeInv, Bounded
<1>8. ASSUME NEW w \in Workers, CreateLogEntry(w) PROVE TypeInv'
  BY <1>7, <1>8, <1>t DEF CreateLogEntry, TypeOK
<1>9. ASSUME NEW w \in Workers, SaveRejected(w) PROVE TypeInv'
  BY <1>7, <1>9, <1>t DEF SaveRejected, TypeOK
<1>10. ASSUME NEW w \in Workers, SaveFault(w) PROVE TypeInv'
  BY <1>7, <1>10, <1>t DEF SaveFault, TypeOK
<1>11. CASE Tick
  BY <1>7, <1>11, <1>t DEF Tick, TypeOK
<1>12. CASE UNCHANGED vars
  BY <1>7, <1>12, <1>t DEF vars, TypeOK
<1> QED BY <1>1, <1>3, <1>4, <1>5, <1>6, <1>8, <1>9, <1>10, <1>11, <1>12,
           <1>13 DEF Next, WorkerStep

\* Every entry and every context is of its type, whatever the workers do.
THEOREM TypeCorrect == Spec => []TypeOK
<1>1. TypeInv => TypeOK
  BY DEF TypeInv
<1> QED BY <1>1, InitTypeInv, StepTypeInv, PTL DEF Spec

-------------------------------------------------------------------------------
\* One worker process, as the repository deploys it.  What it is about to write
\* and the table agree, and this takes more than the four properties:
\*   - the clock is not behind any entry, nor a pending one that is not in the
\*     table behind a saved one;
\*   - the pending ones that are in the table, their answer lost, are the upper
\*     end of a history;
\*   - what is marked for deletion and not gone is the lower end of a history;
\*   - each such row was expired, or had MaxVersions newer ones, when it was
\*     marked, and as nothing is written before the save it still has them.
Newer(e) == {f \in versions : f.rec = e.rec /\ f.ver > e.ver}

Dated(w) ==
    /\ \A e \in versions : e.created <= clock
    /\ \A i \in DOMAIN tracker[w].added : tracker[w].added[i].created <= clock
    /\ \A i \in DOMAIN tracker[w].added : tracker[w].added[i] \notin versions =>
          \A e \in versions :
             e.rec = tracker[w].added[i].rec => e.created <= tracker[w].added[i].created

UpperEnd(w) ==
    \A i \in DOMAIN tracker[w].added : tracker[w].added[i] \in versions =>
        \A f \in versions :
           f.rec = tracker[w].added[i].rec /\ f.ver > tracker[w].added[i].ver =>
              \E j \in DOMAIN tracker[w].added : f = tracker[w].added[j]

LowerEnd(d) ==
    /\ d \subseteq versions
    /\ \A e \in d : \A f \in versions : (f.rec = e.rec /\ f.ver < e.ver) => f \in d

Droppable(d) ==
    \A e \in d : e.created + MaxAge < clock \/ Cardinality(Newer(e)) >= MaxVersions

Marked(w) ==
    ~ gone[w] => LowerEnd(tracker[w].deleted) /\ Droppable(tracker[w].deleted)

OneInv(w) ==
    /\ TypeInv
    /\ IsFiniteSet(versions)
    /\ VersionsInOrder
    /\ NoGaps
    /\ PendingIsNextOrSaved
    /\ Dated(w)
    /\ UpperEnd(w)
    /\ Marked(w)

\* The types of the parts, as the steps below use them.
LEMMA PartTypes ==
    ASSUME TypeInv
    PROVE  /\ \A e \in versions : e \in Entry /\ e.ver \in Nat \ {0} /\ e.created \in Nat
           /\ \A w \in Workers : tracker[w] \in Tracker
           /\ \A w \in Workers : \A i \in DOMAIN tracker[w].added :
                 tracker[w].added[i] \in Entry
           /\ clock \in Nat
           /\ \E b \in Nat : \A e \in versions : e.ver <= b
<1>1. TypeOK
  BY DEF TypeInv
<1>2. \A w \in Workers : tracker[w] \in Tracker
  BY <1>1 DEF TypeOK, Tracker
<1>3. \A w \in Workers : \A i \in DOMAIN tracker[w].added : tracker[w].added[i] \in Entry
  BY <1>2 DEF Tracker
<1>4. clock \in Nat
  BY <1>1, HistoryAssumption DEF TypeOK
<1>5. \E b \in Nat : \A e \in versions : e.ver <= b
  BY DEF TypeInv, Bounded
<1> QED BY <1>1, <1>2, <1>3, <1>4, <1>5 DEF TypeOK, Entry

LEMMA InitOneInv ==
    ASSUME NEW w, Workers = {w}, Init
    PROVE  OneInv(w)
<1>1. versions = {} /\ tracker[w] = EmptyTracker
  BY DEF Init
<1>2. tracker[w].added = << >> /\ tracker[w].deleted = {}
  BY <1>1 DEF EmptyTracker
<1>3. TypeInv
  BY InitTypeInv
<1>4. IsFiniteSet(versions)
  BY <1>1, FS_EmptySet
<1>5. VersionsInOrder /\ NoGaps
  BY <1>1 DEF VersionsInOrder, NoGaps
<1>6. PendingIsNextOrSaved
  BY <1>2 DEF PendingIsNextOrSaved
<1>7. Dated(w) /\ UpperEnd(w)
  BY <1>1, <1>2 DEF Dated, UpperEnd
<1>8. Marked(w)
  BY <1>1, <1>2 DEF Marked, LowerEnd, Droppable
<1> QED BY <1>3, <1>4, <1>5, <1>6, <1>7, <1>8 DEF OneInv

\* A capture: the new entry has the next number and the latest date.
LEMMA CaptureKeeps ==
    ASSUME NEW w, Workers = {w}, OneInv(w), TypeInv', NEW r \in Records, CaptureSnapshot(w, r)
    PROVE  OneInv(w)'
<1> DEFINE t == tracker[w]
<1>1. t \in Tracker /\ t.added \in Seq(Entry)
  BY PartTypes DEF OneInv, Tracker
<1>2. tracker'[w] = TrackAdded(t, NewEntry(r)) /\ UNCHANGED <<versions, gone, clock>>
  BY DEF CaptureSnapshot, OneInv, TypeInv, TypeOK
<1>3. tracker'[w].added = Append(t.added, NewEntry(r)) /\ tracker'[w].deleted = t.deleted
  <2>1. TrackAdded(t, NewEntry(r)) = [added |-> Append(t.added, NewEntry(r)), deleted |-> t.deleted]
    BY <1>1, TrackingFields, Zenon DEF Tracker
  <2> QED BY <1>2, <2>1
<1>4. t.added \in Seq(Entry \cup {NewEntry(r)})
  BY <1>1, SeqDef
<1>5. \A i \in DOMAIN tracker'[w].added :
          \/ i \in DOMAIN t.added /\ tracker'[w].added[i] = t.added[i]
          \/ tracker'[w].added[i] = NewEntry(r)
  BY <1>3, <1>4, AppendProperties
<1>6. NewEntry(r).rec = r /\ NewEntry(r).ver = NextVersion(versions, r) /\ NewEntry(r).created = clock
  BY DEF NewEntry
<1>7. IsFiniteSet(versions') /\ VersionsInOrder' /\ NoGaps'
  BY <1>2 DEF OneInv, VersionsInOrder, NoGaps
<1>8. PendingIsNextOrSaved'
  BY <1>2, <1>5, <1>6 DEF OneInv, PendingIsNextOrSaved
<1>9. Dated(w)'
  <2>1. clock \in Nat /\ clock <= clock
    BY PartTypes DEF OneInv
  <2> QED BY <1>2, <1>5, <1>6, <2>1 DEF OneInv, Dated
<1>10. Marked(w)'
  BY <1>2, <1>3 DEF OneInv, Marked, LowerEnd, Droppable, Newer
<1>11. UpperEnd(w)'
  <2>1. PICK b \in Nat : \A e \in versions : e.ver <= b
    BY PartTypes DEF OneInv
  <2>2. \A e \in HistoryOf(versions, r) : e.ver < NextVersion(versions, r)
    BY <2>1, PartTypes, NextVersionIsAbove DEF OneInv
  <2>3. NextVersion(versions, r) \in Nat /\ \A e \in versions : e.ver \in Nat
    BY <2>1, PartTypes, NextVersionIsAbove DEF OneInv
  <2>4. \A f \in versions : f.rec = r => ~ f.ver > NextVersion(versions, r)
    BY <2>2, <2>3 DEF HistoryOf
  <2>5. \A j \in DOMAIN t.added : j \in DOMAIN tracker'[w].added /\ tracker'[w].added[j] = t.added[j]
    BY <1>1, <1>3, <1>4, AppendProperties
  <2> QED BY <1>2, <1>5, <1>6, <2>4, <2>5 DEF OneInv, UpperEnd
<1> QED BY <1>7, <1>8, <1>9, <1>10, <1>11 DEF OneInv

\* Retention marks the lower end of histories, of what it may drop.
LEMMA MarkingKeeps ==
    ASSUME NEW w, Workers = {w}, OneInv(w), TypeInv', NEW d, LowerEnd(d), Droppable(d),
           tracker' = [tracker EXCEPT ![w] = TrackDeleted(@, d)],
           UNCHANGED <<versions, gone, clock>>
    PROVE  OneInv(w)'
<1>1. tracker[w] \in Tracker
  BY PartTypes DEF OneInv
<1>2. tracker'[w] = TrackDeleted(tracker[w], d)
  BY DEF OneInv, TypeInv, TypeOK
<1>3. tracker'[w].added = tracker[w].added /\ tracker'[w].deleted = tracker[w].deleted \cup d
  <2>1. TrackDeleted(tracker[w], d)
            = [added |-> tracker[w].added, deleted |-> tracker[w].deleted \cup d]
    BY <1>1, TrackingFields, Zenon DEF Tracker
  <2> QED BY <1>2, <2>1
<1>4. IsFiniteSet(versions') /\ VersionsInOrder' /\ NoGaps'
  BY DEF OneInv, VersionsInOrder, NoGaps
<1>5. PendingIsNextOrSaved' /\ Dated(w)' /\ UpperEnd(w)'
  BY <1>3 DEF OneInv, PendingIsNextOrSaved, Dated, UpperEnd
<1>6. ~ gone[w] => LowerEnd(tracker[w].deleted)'
  BY <1>3 DEF OneInv, Marked, LowerEnd
<1>7. ~ gone[w] => Droppable(tracker[w].deleted)'
  BY <1>3 DEF OneInv, Marked, Droppable, Newer
<1> QED BY <1>4, <1>5, <1>6, <1>7 DEF OneInv, Marked

LEMMA ExcessMayBeDropped ==
    ASSUME NEW w, OneInv(w), NEW r
    PROVE  LET d == Excess(versions, r, MaxVersions) IN LowerEnd(d) /\ Droppable(d)
<1> DEFINE d == Excess(versions, r, MaxVersions)
<1>1. MaxVersions \in Nat /\ IsFiniteSet(versions) /\ \A e \in versions : e.ver \in Nat
  BY PartTypes, HistoryAssumption DEF OneInv
<1>2. d \subseteq HistoryOf(versions, r) /\ HistoryOf(versions, r) \subseteq versions
  BY DEF Excess, HistoryOf
<1>3. \A e \in d : \A f \in HistoryOf(versions, r) : f.ver < e.ver => f \in d
  BY <1>1, ExcessIsDownClosed
<1>4. \A e \in d : e.rec = r /\ \A f \in versions : f.rec = e.rec => f \in HistoryOf(versions, r)
  BY <1>2 DEF HistoryOf
<1>5. LowerEnd(d)
  <2> HIDE DEF d
  <2> QED BY <1>2, <1>3, <1>4 DEF LowerEnd
<1>6. ASSUME NEW e \in d PROVE Cardinality(Newer(e)) >= MaxVersions
  <2>1. Newer(e) = {f \in HistoryOf(versions, r) : f.ver > e.ver}
    BY <1>4 DEF Newer, HistoryOf
  <2> QED BY <2>1 DEF Excess
<1>7. Droppable(d)
  BY <1>6 DEF Droppable
<1> QED BY <1>5, <1>7

LEMMA OlderMayBeDropped ==
    ASSUME NEW w, OneInv(w), MaxAge <= clock, NEW s
    PROVE  LowerEnd(Expired(s)) /\ Droppable(Expired(s))
<1> DEFINE d == Expired(s)
<1>1. MaxAge \in Nat /\ clock \in Nat /\ \A e \in versions : e.created \in Nat
  BY PartTypes, HistoryAssumption DEF OneInv
<1>2. \A e : e \in d <=> e \in versions /\ SyncIdOf[e.rec] = s /\ e.created < clock - MaxAge
  BY DEF OlderThan, Expired
<1>3. \A e, f \in versions : (f.rec = e.rec /\ f.ver < e.ver) => f.created <= e.created
  BY DEF OneInv, VersionsInOrder
<1>4. LowerEnd(d)
  <2> HIDE DEF d
  <2> SUFFICES ASSUME NEW e \in d, NEW f \in versions, f.rec = e.rec, f.ver < e.ver
               PROVE  f \in d
    BY <1>2 DEF LowerEnd
  <2>1. f.created <= e.created /\ e.created < clock - MaxAge
    BY <1>2, <1>3
  <2> QED BY <1>1, <1>2, <2>1
<1>5. Droppable(d)
  <2> HIDE DEF d
  <2> QED BY <1>1, <1>2 DEF Droppable
<1> QED BY <1>4, <1>5

\* A commit: what is left of a history is its upper end, what a commit whose
\* answer was lost has written stays in it, and the entries that are new follow
\* the last entry of theirs.
LEMMA CommitKeeps ==
    ASSUME NEW w, Workers = {w}, OneInv(w), Accepted(w), versions' = Saved(versions, tracker[w])
    PROVE  /\ IsFiniteSet(versions') /\ VersionsInOrder' /\ NoGaps'
           /\ \A e \in versions' : e.created <= clock
           /\ \A i \in DOMAIN tracker[w].added :
                 /\ tracker[w].added[i] \in versions'
                 /\ \A f \in versions' :
                       f.rec = tracker[w].added[i].rec /\ f.ver > tracker[w].added[i].ver =>
                          \E j \in DOMAIN tracker[w].added : f = tracker[w].added[j]
<1> DEFINE t == tracker[w]
           Pending(e) == \E i \in DOMAIN t.added : e = t.added[i]
           Kept(e) == e \in versions /\ (e \notin t.deleted \/ Pending(e))
           New(e) == e \notin versions /\ Pending(e)
<1>1. t \in [added : Seq(Entry), deleted : SUBSET Entry]
  BY PartTypes DEF OneInv, Tracker
<1>2. LowerEnd(t.deleted)
  BY DEF OneInv, Marked, Accepted
<1>3. \A e : e \in versions' <=> Kept(e) \/ New(e)
  BY DEF Saved, AddedEntries
<1>n. /\ \A e \in versions : e.ver \in Nat /\ e.created \in Nat
      /\ \A e : Pending(e) => e.ver \in Nat /\ e.created \in Nat
  BY PartTypes DEF OneInv, Entry
<1>4. ASSUME NEW e, New(e)
      PROVE  /\ e.ver = NextVersion(versions, e.rec) /\ e.created <= clock
             /\ \A f \in versions : f.rec = e.rec => f.ver < e.ver /\ f.created <= e.created
  <2>1. PICK b \in Nat : \A f \in versions : f.ver <= b
    BY PartTypes DEF OneInv
  <2>2. e.ver = NextVersion(versions, e.rec)
    BY <1>4 DEF OneInv, PendingIsNextOrSaved
  <2>3. \A f \in HistoryOf(versions, e.rec) : f.ver < NextVersion(versions, e.rec)
    BY <1>n, <2>1, NextVersionIsAbove
  <2>4. e.created <= clock /\ \A f \in versions : f.rec = e.rec => f.created <= e.created
    BY <1>4 DEF OneInv, Dated
  <2> QED BY <2>2, <2>3, <2>4 DEF HistoryOf
<1>5. ASSUME NEW e, Kept(e), NEW f \in versions, f.rec = e.rec, e.ver < f.ver
      PROVE  Kept(f)
  <2>1. CASE Pending(e)
    BY <1>n, <1>5, <2>1 DEF OneInv, UpperEnd
  <2>2. CASE e \notin t.deleted
    BY <1>2, <1>n, <1>5, <2>2 DEF LowerEnd
  <2> QED BY <1>5, <2>1, <2>2
<1>6. IsFiniteSet(versions')
  BY <1>1, SavedIsFinite, Zenon DEF OneInv
<1>7. VersionsInOrder'
  <2> SUFFICES ASSUME NEW e \in versions', NEW f \in versions', e.rec = f.rec, e.ver < f.ver
               PROVE  e.created <= f.created
    BY DEF VersionsInOrder
  <2>1. CASE e \in versions /\ f \in versions
    BY <2>1 DEF OneInv, VersionsInOrder
  <2>2. CASE e \in versions /\ New(f)
    BY <1>4, <2>2
  <2>3. CASE New(e) /\ f \in versions
    BY <1>4, <1>n, <2>3
  <2>4. CASE New(e) /\ New(f)
    BY <1>4, <1>n, <2>4
  <2> QED BY <1>3, <2>1, <2>2, <2>3, <2>4
<1>8. NoGaps'
  <2> SUFFICES ASSUME NEW e \in versions', NEW f \in versions', e.rec = f.rec,
                      NEW n \in e.ver .. f.ver
               PROVE  \E g \in versions' : g.rec = e.rec /\ g.ver = n
    BY DEF NoGaps
  <2>1. CASE n = e.ver \/ n = f.ver
    BY <2>1
  <2>m. ASSUME NEW m \in versions, m.rec = e.rec, n <= m.ver, Kept(e), e.ver < n
        PROVE  \E g \in versions' : g.rec = e.rec /\ g.ver = n
    <3>1. n \in e.ver .. m.ver
      BY <1>n, <2>m
    <3>2. PICK g \in versions : g.rec = e.rec /\ g.ver = n
      BY <2>m, <3>1 DEF OneInv, NoGaps
    <3>3. Kept(g)
      BY <1>5, <2>m, <3>2
    <3> QED BY <1>3, <3>2, <3>3
  <2>2. CASE n # e.ver /\ n # f.ver /\ Kept(e) /\ f \in versions
    <3>1. e.ver \in Nat /\ f.ver \in Nat /\ e.ver < n /\ n <= f.ver
      BY <1>n, <2>2
    <3> QED BY <2>2, <2>m, <3>1
  <2>3. CASE n # e.ver /\ n # f.ver /\ Kept(e) /\ New(f)
    <3>1. PICK b \in Nat : \A h \in versions : h.ver <= b
      BY PartTypes DEF OneInv
    <3>2. HistoryOf(versions, e.rec) # {}
      BY <2>3 DEF HistoryOf
    <3>3. PICK m \in HistoryOf(versions, e.rec) : NextVersion(versions, e.rec) = m.ver + 1
      BY <1>n, <3>1, <3>2, NextVersionFollows
    <3>4. m \in versions /\ m.rec = e.rec /\ f.ver = m.ver + 1
      BY <1>4, <2>3, <3>3 DEF HistoryOf
    <3>5. e.ver \in Nat /\ m.ver \in Nat /\ e.ver < n /\ n <= m.ver
      BY <1>n, <2>3, <3>4
    <3> QED BY <2>3, <2>m, <3>4, <3>5
  <2>4. CASE n # e.ver /\ n # f.ver /\ New(e)
    <3>1. e.ver \in Nat /\ f.ver \in Nat /\ e.ver < f.ver
      BY <1>n, <1>3, <2>4
    <3>2. CASE f \in versions
      BY <1>4, <2>4, <3>1, <3>2
    <3>3. CASE New(f)
      BY <1>4, <2>4, <3>1, <3>3
    <3> QED BY <1>3, <3>2, <3>3
  <2> QED BY <1>3, <2>1, <2>2, <2>3, <2>4
<1>9. \A e \in versions' : e.created <= clock
  BY <1>3, <1>4 DEF OneInv, Dated
<1>10. ASSUME NEW i \in DOMAIN t.added, NEW f \in versions', f.rec = t.added[i].rec,
              f.ver > t.added[i].ver
       PROVE  Pending(f)
  <2>1. CASE New(f)
    BY <2>1
  <2>2. CASE f \in versions /\ t.added[i] \in versions
    BY <1>10, <2>2 DEF OneInv, UpperEnd
  <2>3. CASE f \in versions /\ t.added[i] \notin versions
    <3>1. f.ver < t.added[i].ver
      BY <1>4, <1>10, <2>3
    <3> QED BY <1>10, <1>n, <2>3, <3>1
  <2> QED BY <1>3, <2>1, <2>2, <2>3
<1>11. \A i \in DOMAIN t.added : t.added[i] \in versions'
  BY <1>3
<1> QED BY <1>6, <1>7, <1>8, <1>9, <1>10, <1>11

LEMMA SaveKeeps ==
    ASSUME NEW w, Workers = {w}, OneInv(w), TypeInv', SaveChanges(w)
    PROVE  OneInv(w)'
<1>1. /\ versions' = Saved(versions, tracker[w]) /\ Accepted(w)
      /\ clock' = clock
  BY DEF SaveChanges
<1>2. tracker'[w].added = << >> /\ tracker'[w].deleted = {}
  <2>1. tracker'[w] = EmptyTracker
    BY DEF SaveChanges, OneInv, TypeInv, TypeOK
  <2> QED BY <2>1 DEF EmptyTracker
<1>3. IsFiniteSet(versions') /\ VersionsInOrder' /\ NoGaps' /\ \A e \in versions' : e.created <= clock
  BY <1>1, CommitKeeps
<1>4. PendingIsNextOrSaved' /\ Dated(w)' /\ UpperEnd(w)'
  BY <1>1, <1>2, <1>3 DEF PendingIsNextOrSaved, Dated, UpperEnd
<1>5. Marked(w)'
  BY <1>2 DEF Marked, LowerEnd, Droppable
<1> QED BY <1>3, <1>4, <1>5 DEF OneInv

\* A commit whose answer is lost: all that is pending is in the table, and what
\* was marked is gone.
LEMMA LostSaveKeeps ==
    ASSUME NEW w, Workers = {w}, OneInv(w), TypeInv', SaveLost(w)
    PROVE  OneInv(w)'
<1>1. /\ versions' = Saved(versions, tracker[w]) /\ Accepted(w)
      /\ clock' = clock /\ tracker' = tracker
      /\ gone'[w] = (tracker[w].deleted # {})
  BY DEF SaveLost, OneInv, TypeInv, TypeOK
<1>2. /\ IsFiniteSet(versions') /\ VersionsInOrder' /\ NoGaps'
      /\ \A e \in versions' : e.created <= clock
      /\ \A i \in DOMAIN tracker[w].added :
            /\ tracker[w].added[i] \in versions'
            /\ \A f \in versions' :
                  f.rec = tracker[w].added[i].rec /\ f.ver > tracker[w].added[i].ver =>
                     \E j \in DOMAIN tracker[w].added : f = tracker[w].added[j]
  BY <1>1, CommitKeeps
<1>3. PendingIsNextOrSaved'
  BY <1>1, <1>2 DEF PendingIsNextOrSaved
<1>4. Dated(w)'
  BY <1>1, <1>2 DEF OneInv, Dated
<1>5. UpperEnd(w)'
  BY <1>1, <1>2 DEF UpperEnd
<1>6. Marked(w)'
  BY <1>1 DEF Marked, LowerEnd, Droppable
<1> QED BY <1>2, <1>3, <1>4, <1>5, <1>6 DEF OneInv

\* The scope ends and takes what the context tracked with it.
LEMMA EndScopeKeeps ==
    ASSUME NEW w, Workers = {w}, OneInv(w), TypeInv', EndScope(w)
    PROVE  OneInv(w)'
<1>1. versions' = versions /\ clock' = clock
  BY DEF EndScope
<1>2. tracker'[w].added = << >> /\ tracker'[w].deleted = {}
  <2>1. tracker'[w] = EmptyTracker
    BY DEF EndScope, OneInv, TypeInv, TypeOK
  <2> QED BY <2>1 DEF EmptyTracker
<1>3. VersionsInOrder' /\ NoGaps' /\ IsFiniteSet(versions')
  BY <1>1 DEF OneInv, VersionsInOrder, NoGaps
<1>4. PendingIsNextOrSaved' /\ Dated(w)' /\ UpperEnd(w)'
  BY <1>1, <1>2 DEF OneInv, PendingIsNextOrSaved, Dated, UpperEnd
<1>5. Marked(w)'
  BY <1>2 DEF Marked, LowerEnd, Droppable
<1> QED BY <1>3, <1>4, <1>5 DEF OneInv

\* A step that neither writes nor tracks; the clock may go on.
LEMMA OtherStepsKeep ==
    ASSUME NEW w, Workers = {w}, OneInv(w), TypeInv', UNCHANGED <<versions, tracker, gone>>,
           clock <= clock'
    PROVE  OneInv(w)'
<1>1. IsFiniteSet(versions') /\ VersionsInOrder' /\ NoGaps' /\ PendingIsNextOrSaved'
  BY DEF OneInv, VersionsInOrder, NoGaps, PendingIsNextOrSaved
<1>2. clock \in Nat /\ clock' \in Nat /\ MaxAge \in Nat
  BY HistoryAssumption DEF OneInv, TypeInv, TypeOK
<1>3. /\ \A e \in versions : e.created \in Nat
      /\ \A i \in DOMAIN tracker[w].added : tracker[w].added[i].created \in Nat
  BY PartTypes DEF OneInv, Entry
<1>4. Dated(w)' /\ UpperEnd(w)'
  BY <1>2, <1>3 DEF OneInv, Dated, UpperEnd
<1>5. ~ gone[w] => LowerEnd(tracker[w].deleted)'
  BY DEF OneInv, Marked, LowerEnd
<1>6. ~ gone[w] => Droppable(tracker[w].deleted)'
  <2>1. ~ gone[w] => \A e \in tracker[w].deleted : e.created \in Nat
    BY <1>3 DEF OneInv, Marked, LowerEnd
  <2> QED BY <1>2, <2>1 DEF OneInv, Marked, Droppable, Newer
<1> QED BY <1>1, <1>4, <1>5, <1>6 DEF OneInv, Marked

LEMMA StepOneInv ==
    ASSUME NEW w, Workers = {w}, OneInv(w), [Next]_vars
    PROVE  OneInv(w)'
<1>0. TypeInv'
  BY StepTypeInv DEF OneInv
<1>c. clock \in Nat
  BY PartTypes DEF OneInv
<1>1. ASSUME NEW r \in Records, CaptureSnapshot(w, r) PROVE OneInv(w)'
  BY <1>0, <1>1, CaptureKeeps
<1>2. ASSUME NEW r \in Records, ApplyRetentionForRecord(w, r) PROVE OneInv(w)'
  BY <1>0, <1>2, ExcessMayBeDropped, MarkingKeeps DEF ApplyRetentionForRecord
<1>3. ASSUME NEW s \in SyncIds, ApplyTimeBasedRetention(w, s) PROVE OneInv(w)'
  BY <1>0, <1>3, OlderMayBeDropped, MarkingKeeps DEF ApplyTimeBasedRetention
<1>4. CASE SaveChanges(w)
  BY <1>0, <1>4, SaveKeeps
<1>8. CASE SaveLost(w)
  BY <1>0, <1>8, LostSaveKeeps
<1>5. CASE EndScope(w)
  BY <1>0, <1>5, EndScopeKeeps
<1>6. CASE CreateLogEntry(w) \/ SaveRejected(w) \/ SaveFault(w) \/ UNCHANGED vars
  BY <1>0, <1>c, <1>6, OtherStepsKeep DEF CreateLogEntry, SaveRejected, SaveFault, vars
<1>7. CASE Tick
  BY <1>0, <1>c, <1>7, OtherStepsKeep DEF Tick
<1> QED BY <1>1, <1>2, <1>3, <1>4, <1>5, <1>6, <1>7, <1>8 DEF Next, WorkerStep

LEMMA OneWorkerInvariant ==
    ASSUME NEW w, Workers = {w}
    PROVE  Spec => []OneInv(w)
<1>1. Init => OneInv(w)
  BY InitOneInv
<1>2. OneInv(w) /\ [Next]_vars => OneInv(w)'
  BY StepOneInv
<1> QED BY <1>1, <1>2, PTL DEF Spec

\* With one worker process the number a pending snapshot was given is still the
\* next one when it is saved, or the snapshot is in the table already, whatever
\* saves fail in between and on whichever side of the commit.
THEOREM PendingNumbersStay ==
    ASSUME NEW w, Workers = {w}
    PROVE  Spec => []PendingIsNextOrSaved
<1>1. OneInv(w) => PendingIsNextOrSaved
  BY DEF OneInv
<1> QED BY <1>1, OneWorkerInvariant, PTL

\* With one worker process the versions of a record are numbered in the order in
\* which they were taken.
THEOREM NumbersFollowTheClock ==
    ASSUME NEW w, Workers = {w}
    PROVE  Spec => []VersionsInOrder
<1>1. OneInv(w) => VersionsInOrder
  BY DEF OneInv
<1> QED BY <1>1, OneWorkerInvariant, PTL

\* With one worker process retention takes versions from the old end only: what
\* is left of a history has no gap.
THEOREM HistoriesHaveNoGaps ==
    ASSUME NEW w, Workers = {w}
    PROVE  Spec => []NoGaps
<1>1. OneInv(w) => NoGaps
  BY DEF OneInv
<1> QED BY <1>1, OneWorkerInvariant, PTL

\* With one worker process, and whatever was left over from a failed save, no
\* version is dropped that is neither expired nor followed by MaxVersions others.
THEOREM RetentionOfOneWorker ==
    ASSUME NEW w, Workers = {w}
    PROVE  Spec => RetentionKeepsNewest
<1> DEFINE Kept == \A e \in versions \ versions' :
                      \/ e.created + MaxAge < clock
                      \/ Cardinality({f \in versions \cup versions' :
                                         f.rec = e.rec /\ f.ver > e.ver}) >= MaxVersions
<1>1. OneInv(w) /\ OneInv(w)' /\ [Next]_vars => [Kept]_vars
  <2> SUFFICES ASSUME OneInv(w), OneInv(w)', [Next]_vars, NEW e \in versions \ versions'
               PROVE  \/ e.created + MaxAge < clock
                      \/ Cardinality({f \in versions \cup versions' :
                                         f.rec = e.rec /\ f.ver > e.ver}) >= MaxVersions
    OBVIOUS
  <2>1. SaveChanges(w) \/ SaveLost(w)
    BY DEF Next, WorkerStep, vars, Tick, CaptureSnapshot, ApplyRetentionForRecord,
           ApplyTimeBasedRetention, CreateLogEntry, SaveRejected, SaveFault, EndScope
  <2>2. e \in tracker[w].deleted /\ ~ gone[w]
    BY <2>1 DEF SaveChanges, SaveLost, Accepted, Saved
  <2>3. CASE Cardinality(Newer(e)) >= MaxVersions
    <3> DEFINE All == {f \in versions \cup versions' : f.rec = e.rec /\ f.ver > e.ver}
    <3>1. Newer(e) \subseteq All /\ All \subseteq versions \cup versions'
      BY DEF Newer
    <3>2. IsFiniteSet(versions \cup versions')
      BY FS_Union DEF OneInv
    <3>3. IsFiniteSet(All) /\ IsFiniteSet(Newer(e)) /\ Cardinality(Newer(e)) <= Cardinality(All)
      <4> HIDE DEF All
      <4>1. IsFiniteSet(All)
        BY <3>1, <3>2, FS_Subset
      <4> QED BY <3>1, <4>1, FS_Subset
    <3>4. Cardinality(All) \in Nat /\ Cardinality(Newer(e)) \in Nat
      <4> HIDE DEF All
      <4> QED BY <3>3, FS_CardinalityType
    <3>5. Cardinality(All) >= MaxVersions
      <4> HIDE DEF All
      <4> QED BY <2>3, <3>3, <3>4, HistoryAssumption
    <3> QED BY <3>5
  <2> QED BY <2>2, <2>3 DEF OneInv, Marked, Droppable
<1>2. [][Kept]_vars => RetentionKeepsNewest
  BY PTL DEF RetentionKeepsNewest
<1> QED BY <1>1, <1>2, OneWorkerInvariant, PTL DEF Spec
===============================================================================
