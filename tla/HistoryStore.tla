----------------------------- MODULE HistoryStore -----------------------------
(***************************************************************************)
(* The RecordVersionHistory table and the Entity Framework context through *)
(* which VersionHistoryRepository reads and writes it.  No variables: the  *)
(* operators are applied to the set of committed entries and to the change *)
(* tracker of one context (AppDbContext), by VersionHistory, where several *)
(* contexts race, and by SyncEngine, which takes the whole cycle.          *)
(*                                                                         *)
(* An entry belongs to one history, `rec': in the code the four columns    *)
(* SyncId, InstanceId, SiteId and RecordId that every query filters on.    *)
(***************************************************************************)
EXTENDS Naturals, Sequences, FiniteSets, FiniteSetsExt

\* The entries of one record's history.
HistoryOf(entries, rec) == {e \in entries : e.rec = rec}

\* Variants of NextVersion, to be rejected: the number of entries instead of the
\* largest number, the largest number of any record, and a count from zero.
NextVersionByCount(entries, rec) == Cardinality(HistoryOf(entries, rec)) + 1

NextVersionOfAll(entries, rec) ==
    IF entries = {} THEN 1 ELSE Max({e.ver : e \in entries}) + 1

NextVersionFromZero(entries, rec) ==
    IF HistoryOf(entries, rec) = {}
    THEN 0
    ELSE Max({e.ver : e \in HistoryOf(entries, rec)}) + 1

\* GetNextVersionNumberAsync: the largest committed number plus one.  Entries
\* that are only tracked by a context are not in the query's answer.
NextVersion(entries, rec) ==
    IF HistoryOf(entries, rec) = {}
    THEN 1
    ELSE Max({e.ver : e \in HistoryOf(entries, rec)}) + 1

\* Variant of Excess, to be rejected: ascending order, the newest are dropped.
ExcessNewest(entries, rec, max) ==
    {e \in HistoryOf(entries, rec) :
        Cardinality({f \in HistoryOf(entries, rec) : f.ver < e.ver}) >= max}

\* DeleteExcessVersionsAsync: everything after the `max' highest numbers.
Excess(entries, rec, max) ==
    {e \in HistoryOf(entries, rec) :
        Cardinality({f \in HistoryOf(entries, rec) : f.ver > e.ver}) >= max}

\* DeleteOlderThanAsync: everything created before the cutoff.
OlderThan(entries, cutoff) == {e \in entries : e.created < cutoff}

-------------------------------------------------------------------------------
\* The change tracker of a context: entries in state Added, in the order they
\* were added, and entries in state Deleted.
EmptyTracker == [added |-> << >>, deleted |-> {}]

TrackAdded(tracker, entry) == [tracker EXCEPT !.added = Append(@, entry)]

TrackDeleted(tracker, entries) == [tracker EXCEPT !.deleted = @ \cup entries]

AddedEntries(tracker) == {tracker.added[i] : i \in DOMAIN tracker.added}

SameNumber(e, f) == e.rec = f.rec /\ e.ver = f.ver

\* Variant, to be rejected: the unique index lacks the version number.
IndexOfRecords(entries, tracker) ==
    \A e \in entries \ tracker.deleted : \A f \in AddedEntries(tracker) : e.rec # f.rec

\* The unique index on (SyncId, InstanceId, SiteId, RecordId, VersionNumber)
\* admits the rows of a SaveChanges.
IndexAdmits(entries, tracker) ==
    /\ \A i, j \in DOMAIN tracker.added :
          i # j => ~ SameNumber(tracker.added[i], tracker.added[j])
    /\ \A e \in entries \ tracker.deleted, i \in DOMAIN tracker.added :
          ~ SameNumber(e, tracker.added[i])

\* SaveChangesAsync sends everything the context tracks in one transaction.
\* It throws, and writes nothing, when the index rejects a row or when a row to
\* be deleted is gone (DbUpdateConcurrencyException).
CanSave(entries, tracker) ==
    /\ tracker.deleted \subseteq entries
    /\ IndexAdmits(entries, tracker)

Saved(entries, tracker) ==
    (entries \ tracker.deleted) \cup AddedEntries(tracker)
===============================================================================
