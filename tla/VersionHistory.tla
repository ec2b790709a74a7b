---------------------------- MODULE VersionHistory ----------------------------
(***************************************************************************)
(* The version history of overwritten records: VersionHistoryService and   *)
(* VersionHistoryRepository, run by one or several worker processes, each  *)
(* through its own Entity Framework context.                               *)
(*                                                                         *)
(* A capture reads the next number and adds an entry; retention reads the  *)
(* entries to drop and marks them deleted; both then call SaveChangesAsync *)
(* in a later step.  SaveChangesAsync writes all a context tracks, and a   *)
(* failed call leaves the tracked entities where they are: they are sent   *)
(* again by the next SaveChangesAsync of the same scope, whoever calls it. *)
(* The call may fail before the database committed, or after: then what is *)
(* tracked is in the table already and is sent again all the same.         *)
(***************************************************************************)
EXTENDS HistoryStore

CONSTANTS
    Workers,       \* processes with a context of their own
    Records,       \* histories: SyncId, InstanceId, SiteId and RecordId
    SyncIds,       \* definitions
    SyncIdOf,      \* the definition a history belongs to
    MaxVersions,   \* VersionHistoryMaxVersions
    MaxAge,        \* VersionHistoryMaxDays, in ticks of the clock
    MaxClock,      \* bound: the clock stops here
    MaxCaptures,   \* bound: entries tracked in a whole behaviour
    MaxFaults      \* bound: SaveChangesAsync calls that fail for no reason of ours

ASSUME HistoryAssumption ==
    /\ SyncIdOf \in [Records -> SyncIds]
    /\ MaxVersions \in Nat \ {0}
    /\ MaxAge \in Nat
    /\ MaxClock \in Nat
    /\ MaxCaptures \in Nat
    /\ MaxFaults \in Nat

VARIABLES
    versions,   \* the committed rows of RecordVersionHistories
    tracker,    \* tracker[w]: what the context of w tracks
    saving,     \* saving[w]: w is inside SaveChangesAsync
    gone,       \* gone[w]: the rows w marks as deleted are deleted already
    clock,      \* DateTime.UtcNow
    captures,   \* entries tracked so far (for the bound)
    faults      \* transient failures so far (for the bound)

vars == <<versions, tracker, saving, gone, clock, captures, faults>>

Entry == [rec : Records, ver : Nat \ {0}, created : Nat]

TypeOK ==
    /\ versions \in SUBSET Entry
    /\ tracker \in [Workers -> [added : Seq(Entry), deleted : SUBSET Entry]]
    /\ saving \in [Workers -> BOOLEAN]
    /\ gone \in [Workers -> BOOLEAN]
    /\ clock \in 0 .. MaxClock
    /\ captures \in 0 .. MaxCaptures
    /\ faults \in 0 .. MaxFaults

Init ==
    /\ versions = {}
    /\ tracker = [w \in Workers |-> EmptyTracker]
    /\ saving = [w \in Workers |-> FALSE]
    /\ gone = [w \in Workers |-> FALSE]
    /\ clock = 0
    /\ captures = 0
    /\ faults = 0

-------------------------------------------------------------------------------
NewEntry(r) == [rec |-> r, ver |-> NextVersion(versions, r), created |-> clock]

\* CaptureSnapshotCoreAsync up to the SaveChangesAsync of CreateAsync: the
\* number is read, the entry stamped and added to the context.
CaptureSnapshot(w, r) ==
    /\ ~ saving[w]
    /\ captures < MaxCaptures
    /\ tracker' = [tracker EXCEPT ![w] = TrackAdded(@, NewEntry(r))]
    /\ saving' = [saving EXCEPT ![w] = TRUE]
    /\ captures' = captures + 1
    /\ UNCHANGED <<versions, gone, clock, faults>>

\* ApplyRetentionForRecordAsync up to its SaveChangesAsync; with nothing in
\* excess it returns without one.
ApplyRetentionForRecord(w, r) ==
    /\ ~ saving[w]
    /\ Excess(versions, r, MaxVersions) # {}
    /\ tracker' = [tracker EXCEPT ![w] = TrackDeleted(@, Excess(versions, r, MaxVersions))]
    /\ saving' = [saving EXCEPT ![w] = TRUE]
    /\ UNCHANGED <<versions, gone, clock, captures, faults>>

\* DeleteOlderThanAsync: the entries of one definition that have expired.
Expired(s) == OlderThan({e \in versions : SyncIdOf[e.rec] = s}, clock - MaxAge)

\* Variant, to be rejected: ExecuteDelete, which bypasses the context.
ExecuteDeleteOlder(w, s) ==
    /\ ~ saving[w]
    /\ MaxAge <= clock
    /\ Expired(s) # {}
    /\ versions' = versions \ Expired(s)
    /\ UNCHANGED <<tracker, saving, gone, clock, captures, faults>>

\* ApplyTimeBasedRetentionAsync up to its SaveChangesAsync.
ApplyTimeBasedRetention(w, s) ==
    /\ ~ saving[w]
    /\ MaxAge <= clock
    /\ Expired(s) # {}
    /\ tracker' = [tracker EXCEPT ![w] = TrackDeleted(@, Expired(s))]
    /\ saving' = [saving EXCEPT ![w] = TRUE]
    /\ UNCHANGED <<versions, gone, clock, captures, faults>>

\* CreateLogEntryAsync saves through the same context, so it flushes whatever
\* an earlier failed call left behind.
CreateLogEntry(w) ==
    /\ ~ saving[w]
    /\ tracker[w] # EmptyTracker
    /\ saving' = [saving EXCEPT ![w] = TRUE]
    /\ UNCHANGED <<versions, tracker, gone, clock, captures, faults>>

\* The database takes what the context tracks.  A row that is gone cannot be
\* deleted a second time (DbUpdateConcurrencyException).
Accepted(w) == CanSave(versions, tracker[w]) /\ ~ gone[w]

SaveChanges(w) ==
    /\ saving[w]
    /\ Accepted(w)
    /\ versions' = Saved(versions, tracker[w])
    /\ tracker' = [tracker EXCEPT ![w] = EmptyTracker]
    /\ saving' = [saving EXCEPT ![w] = FALSE]
    /\ UNCHANGED <<gone, clock, captures, faults>>

\* SaveChangesAsync throws: nothing is written, everything stays tracked.
SaveRejected(w) ==
    /\ saving[w]
    /\ ~ Accepted(w)
    /\ saving' = [saving EXCEPT ![w] = FALSE]
    /\ UNCHANGED <<versions, tracker, gone, clock, captures, faults>>

SaveFault(w) ==
    /\ saving[w]
    /\ faults < MaxFaults
    /\ faults' = faults + 1
    /\ saving' = [saving EXCEPT ![w] = FALSE]
    /\ UNCHANGED <<versions, tracker, gone, clock, captures>>

\* SaveChangesAsync throws although the database has committed: the answer is
\* lost, or the token is cancelled while it is awaited.  Everything stays tracked.
SaveLost(w) ==
    /\ saving[w]
    /\ Accepted(w)
    /\ faults < MaxFaults
    /\ faults' = faults + 1
    /\ versions' = Saved(versions, tracker[w])
    /\ gone' = [gone EXCEPT ![w] = tracker[w].deleted # {}]
    /\ saving' = [saving EXCEPT ![w] = FALSE]
    /\ UNCHANGED <<tracker, clock, captures>>

\* The worker's `using var scope' ends, or the process dies: the context and
\* all it tracked are gone.
EndScope(w) ==
    /\ tracker' = [tracker EXCEPT ![w] = EmptyTracker]
    /\ saving' = [saving EXCEPT ![w] = FALSE]
    /\ gone' = [gone EXCEPT ![w] = FALSE]
    /\ UNCHANGED <<versions, clock, captures, faults>>

Tick ==
    /\ clock < MaxClock
    /\ clock' = clock + 1
    /\ UNCHANGED <<versions, tracker, saving, gone, captures, faults>>

WorkerStep(w) ==
    \/ \E r \in Records : CaptureSnapshot(w, r) \/ ApplyRetentionForRecord(w, r)
    \/ \E s \in SyncIds : ApplyTimeBasedRetention(w, s)
    \/ CreateLogEntry(w)
    \/ SaveChanges(w)
    \/ SaveRejected(w)
    \/ SaveFault(w)
    \/ SaveLost(w)
    \/ EndScope(w)

Next == Tick \/ \E w \in Workers : WorkerStep(w)

Spec == Init /\ [][Next]_vars

-------------------------------------------------------------------------------
\* A higher number was captured no earlier.  Several workers break this: one
\* that read its number before the other's snapshots were pruned saves late.
VersionsInOrder ==
    \A e, f \in versions : e.rec = f.rec /\ e.ver < f.ver => e.created <= f.created

\* Retention takes a prefix of a history and captures extend it by one, so a
\* history never has a hole.
NoGaps ==
    \A e, f \in versions : e.rec = f.rec =>
        \A n \in e.ver .. f.ver : \E g \in versions : g.rec = e.rec /\ g.ver = n

\* A pending snapshot is not overtaken: the number it was given is still the
\* next one when it is sent again, unless it is in the table already because only
\* the answer of its save was lost.
PendingIsNextOrSaved ==
    \A w \in Workers : \A i \in DOMAIN tracker[w].added :
        LET e == tracker[w].added[i] IN
        e \in versions \/ e.ver = NextVersion(versions, e.rec)

\* A history that is not yet older than MaxAge never loses its newest version:
\* what a step deletes was expired, or MaxVersions newer versions were there.
RetentionKeepsNewest ==
    [][\A e \in versions \ versions' :
          \/ e.created + MaxAge < clock
          \/ Cardinality({f \in versions \cup versions' :
                             f.rec = e.rec /\ f.ver > e.ver}) >= MaxVersions]_vars
===============================================================================
