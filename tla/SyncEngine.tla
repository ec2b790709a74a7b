------------------------------- MODULE SyncEngine -------------------------------
(***************************************************************************)
(* SyncEngine.ExecuteSyncAsync: one synchronisation of one definition from *)
(* its source site to its target sites, one action per awaited call, while *)
(* the users of Pleasanter go on editing both sides, calls fail, the host  *)
(* asks the worker to stop and the process dies.                           *)
(*                                                                         *)
(* The caller is left open here: it may call ExecuteSyncAsync for any      *)
(* definition, in the scope it has or in a new one.  SyncWorker adds the   *)
(* one caller there is.  A scope owns the engine (its _lastSyncTimes) and  *)
(* the database context (its change tracker); NewScope replaces both.  One *)
(* worker process is assumed, as the architecture shows it: reads and      *)
(* writes of the configuration database that belong to one call are one    *)
(* step here and interleave in VersionHistory.                             *)
(***************************************************************************)
EXTENDS Integers, SyncRules, HistoryStore

CONSTANTS
    Sites,         \* Pleasanter sites, each in an instance of its own
    Definitions,   \* SyncIds
    Config,        \* the SyncDefinition of each SyncId, see ConfigAssumption
    User,          \* the Pleasanter user who edits rows
    Creators,      \* sites whose users create rows
    Editors,       \* sites whose users edit rows
    Deleters,      \* sites whose users delete rows
    ReuseKeys,     \* users may create a row with a key that was used before
    CanStop,       \* the host may ask the worker to stop
    CanCrash,      \* the process may die
    MaxTime,       \* bound: the clock stops here
    MaxEdits,      \* bound: steps of users
    MaxFaults,     \* bound: calls that fail by themselves
    MaxSyncs       \* bound: calls of ExecuteSyncAsync

Strategies == {"SourceWins", "LastWriteWins", "ManualResolution", "FieldLevelMerge"}

Mapping == [site : Sites, enabled : BOOLEAN, exclude : SUBSET Columns]

ASSUME ConfigAssumption ==
    /\ Null \notin Sites \cup Keys \cup Vals \cup Titles \cup Row \cup Nat
    /\ Blank \notin Titles
    /\ User \in UserIds
    /\ Config \in [Definitions ->
          [source : Sites, mappings : Seq(Mapping), rules : Rules, syncUser : UserIds,
           strategy : Strategies, interval : Nat \ {0}, history : BOOLEAN,
           maxVersions : Nat \cup {Null}, maxAge : Nat \cup {Null}]]
    /\ Creators \subseteq Sites
    /\ {ReuseKeys, CanStop, CanCrash} \subseteq BOOLEAN
    /\ {MaxTime, MaxEdits, MaxFaults, MaxSyncs} \subseteq Nat

VARIABLES
    \* the world around the engine
    sites,          \* sites[s]: the tables of site s
    clock,          \* DateTime.UtcNow, the same for all databases
    cancelled,      \* the stopping token is cancelled
    edits, faults, syncs,   \* counters, for the bounds
    \* the configuration database and the scope's context
    history,        \* RecordVersionHistories
    tracker,        \* what the context tracks
    logs,           \* SyncLogs, in the order they were written
    lastSyncTimes,  \* _lastSyncTimes of the scope's engine, Null where absent
    \* the local variables of ExecuteSyncAsync
    pc,             \* the call it is about to make
    def,            \* definition
    lastSyncTime,   \* its change window starts here
    mappings,       \* target mappings still to do, the current one first
    changed,        \* changedRecords
    todo,           \* records of the loop that runs, still to do
    record,         \* record, or deletedRecord
    existing,       \* existingTarget, or targetRecord
    log             \* logEntry

world == <<sites, clock, cancelled, edits, syncs>>
store == <<history, tracker>>
local == <<def, lastSyncTime, mappings, changed>>
vars == <<world, faults, store, logs, lastSyncTimes, pc, local, todo, record, existing, log>>

LogEntry == [status : {"Success", "Failed"}, processed : Nat, inserted : Nat,
             updated : Nat, deleted : Nat, conflicts : Nat]

NewLogEntry == [status |-> "Success", processed |-> 0, inserted |-> 0,
                updated |-> 0, deleted |-> 0, conflicts |-> 0]

Snapshot == [rec : Definitions \X Sites \X (Nat \ {0}), ver : Nat \ {0}, created : Nat,
             title : Titles \cup {Blank}, val : Vals \cup {Null}, by : UserIds, at : Nat, delete : BOOLEAN]

Steps == {"idle", "prepare", "fetch", "mapping", "record", "capture", "upsert", "retain",
          "deletions", "deletion", "captureDelete", "delete", "cleanup", "writeLog"}

TypeOK ==
    /\ sites \in [Sites -> Site]
    /\ clock \in 0 .. MaxTime
    /\ cancelled \in BOOLEAN
    /\ edits \in 0 .. MaxEdits /\ faults \in 0 .. MaxFaults /\ syncs \in 0 .. MaxSyncs
    /\ history \in SUBSET Snapshot
    /\ tracker \in [added : Seq(Snapshot), deleted : SUBSET Snapshot]
    /\ logs \in Seq(LogEntry)
    /\ lastSyncTimes \in [Definitions -> Int \cup {Null}]
    /\ pc \in Steps
    /\ def \in Definitions \cup {Null}
    /\ lastSyncTime \in Int
    /\ mappings \in Seq(Mapping)
    /\ changed \in SUBSET Row
    /\ todo \in SUBSET Row
    /\ record \in Row \cup {Null}
    /\ existing \in Row \cup {Null}
    /\ log \in LogEntry

Init ==
    /\ sites = [s \in Sites |-> EmptySite]
    /\ clock = 0
    /\ cancelled = FALSE
    /\ edits = 0 /\ faults = 0 /\ syncs = 0
    /\ history = {}
    /\ tracker = EmptyTracker
    /\ logs = << >>
    /\ lastSyncTimes = [d \in Definitions |-> Null]
    /\ pc = "idle"
    /\ def = Null /\ lastSyncTime = 0 /\ mappings = << >> /\ changed = {}
    /\ todo = {} /\ record = Null /\ existing = Null
    /\ log = NewLogEntry

-------------------------------------------------------------------------------
Definition == Config[def]
Target == Head(mappings).site
EffectiveColumns == GetEffectiveColumns(Definition.rules, Head(mappings).exclude)
FilteredRecord == FilterRecordColumns(record, EffectiveColumns)

\* An awaited call completes unless its token is cancelled; it may also fail by
\* itself (connection, timeout, deadlock victim, ...).
Completes == ~ cancelled /\ UNCHANGED faults

Fault == faults < MaxFaults /\ faults' = faults + 1

Throws == Fault \/ (cancelled /\ UNCHANGED faults)

\* SaveChangesAsync of the scope's context with tracker t.
Saves(t) ==
    /\ Completes
    /\ CanSave(history, t)
    /\ history' = Saved(history, t)
    /\ tracker' = EmptyTracker

\* It throws: the context keeps what it tracks, even when the database has taken
\* it and only the answer is lost.
SaveThrows(t) ==
    /\ tracker' = t
    /\ \/ Throws /\ UNCHANGED history
       \/ Throws /\ CanSave(history, t) /\ history' = Saved(history, t)
       \/ UNCHANGED faults /\ ~ CanSave(history, t) /\ UNCHANGED history

\* The end of one pass of a record loop, with the counters it changed.
NextRecord(loop, entry) ==
    /\ log' = entry
    /\ pc' = loop
    /\ record' = Null
    /\ existing' = Null

\* Variant, to be rejected: the catch forgets to set the status.
GiveUpQuietly(loop) == NextRecord(loop, log)

\* catch (Exception) inside the loops: the record is given up, the loop goes on.
GiveUp(loop) == NextRecord(loop, [log EXCEPT !.status = "Failed"])

\* Variant, to be rejected: the outer catch tries again, whatever the exception.
AbortAndRetry ==
    /\ log' = [log EXCEPT !.status = "Failed"]
    /\ pc' = "prepare"
    /\ todo' = {} /\ record' = Null /\ existing' = Null

\* The outer catch (Exception): everything that was still to do is given up.
Abort ==
    /\ log' = [log EXCEPT !.status = "Failed"]
    /\ pc' = "writeLog"
    /\ todo' = {} /\ record' = Null /\ existing' = Null

\* The locals go out of scope.
Return ==
    /\ pc' = "idle"
    /\ def' = Null /\ lastSyncTime' = 0 /\ mappings' = << >> /\ changed' = {}
    /\ todo' = {} /\ record' = Null /\ existing' = Null
    /\ log' = NewLogEntry

\* A scope of the worker ends: the context and the engine go with it.
DropScope ==
    /\ tracker' = EmptyTracker
    /\ lastSyncTimes' = [d \in Definitions |-> Null]

-------------------------------------------------------------------------------
\* Variant, to be rejected: the engine is a singleton.
KeepScope ==
    /\ pc = "idle"
    /\ UNCHANGED faults \/ Fault
    /\ UNCHANGED <<world, store, logs, lastSyncTimes, pc, local, todo, record, existing, log>>

\* CreateScope, then the query for the enabled definitions, which may fail.
NewScope ==
    /\ pc = "idle"
    /\ UNCHANGED faults \/ Fault
    /\ DropScope
    /\ UNCHANGED <<world, history, logs, pc, local, todo, record, existing, log>>

ExecuteSync(d) ==
    /\ pc = "idle"
    /\ syncs < MaxSyncs
    /\ syncs' = syncs + 1
    /\ def' = d
    /\ log' = NewLogEntry
    /\ pc' = "prepare"
    /\ UNCHANGED <<sites, clock, cancelled, edits, faults, store, logs, lastSyncTimes,
                   lastSyncTime, mappings, changed, todo, record, existing>>

\* GetReferenceTypeAsync, then the start of the change window and the columns.
GetReferenceType ==
    /\ pc = "prepare"
    /\ \/ /\ Completes
          /\ lastSyncTime' = IF lastSyncTimes[def] = Null
                             THEN clock - Definition.interval
                             ELSE lastSyncTimes[def]
          /\ lastSyncTimes' = [lastSyncTimes EXCEPT ![def] = lastSyncTime']
          /\ mappings' = Definition.mappings
          /\ pc' = "fetch"
          /\ UNCHANGED <<log, todo, record, existing>>
       \/ Throws /\ Abort /\ UNCHANGED <<lastSyncTimes, lastSyncTime, mappings>>
    /\ UNCHANGED <<world, store, logs, def, changed>>

FetchChanges ==
    /\ pc = "fetch"
    /\ \/ /\ Completes
          /\ changed' = GetChangedRecords(sites[Definition.source], lastSyncTime,
                                          Definition.syncUser)
          /\ pc' = "mapping"
          /\ UNCHANGED <<log, todo, record, existing>>
       \/ Throws /\ Abort /\ UNCHANGED changed
    /\ UNCHANGED <<world, store, logs, lastSyncTimes, def, lastSyncTime, mappings>>

\* foreach over the target mappings.
EnterMapping ==
    /\ pc = "mapping" /\ mappings # << >>
    /\ IF Head(mappings).enabled
       THEN todo' = changed /\ pc' = "record" /\ UNCHANGED mappings
       ELSE mappings' = Tail(mappings) /\ UNCHANGED <<todo, pc>>
    /\ UNCHANGED <<world, faults, store, logs, lastSyncTimes, def, lastSyncTime, changed,
                   record, existing, log>>

\* After the last mapping the engine remembers when it ended.
LeaveMappings ==
    /\ pc = "mapping" /\ mappings = << >>
    /\ lastSyncTimes' = [lastSyncTimes EXCEPT ![def] = clock]
    /\ pc' = "cleanup"
    /\ UNCHANGED <<world, faults, store, logs, local, todo, record, existing, log>>

\* ThrowIfCancellationRequested at the head of either record loop.
StopInLoop ==
    /\ pc \in {"record", "deletion"} /\ todo # {} /\ cancelled
    /\ Abort
    /\ UNCHANGED <<world, faults, store, logs, lastSyncTimes, local>>

\* The queries order their rows by UpdatedTime.
Earliest(rows) == {r \in rows : \A q \in rows : r.time <= q.time}

\* ShouldSkipDueToConflict
ShouldSkipDueToConflict(source, target) ==
    /\ target.time > lastSyncTime
    /\ target.updator # Definition.syncUser
    /\ \/ Definition.strategy = "LastWriteWins" /\ target.time > source.time
       \/ Definition.strategy = "ManualResolution"

\* Variant, to be rejected: no snapshot is taken.
NeverCapture(found) == "upsert"

\* Where a record goes once its target row has been looked up.
AfterFind(found) ==
    IF found # Null /\ Definition.history THEN "capture" ELSE "upsert"

\* FindRecordBySyncKeyAsync and the decision on a conflict.  A conflict is
\* counted; only ManualResolution leaves the record alone.
FindTarget ==
    /\ pc = "record" /\ ~ cancelled
    /\ \E r \in Earliest(todo) :
          /\ todo' = todo \ {r}
          /\ \/ Throws /\ GiveUp("record")
             \/ /\ Completes
                /\ \E found \in FindRecordBySyncKey(sites[Target], r.key) :
                      LET conflict == found # Null /\ ShouldSkipDueToConflict(r, found)
                          counted  == IF conflict THEN [log EXCEPT !.conflicts = @ + 1] ELSE log
                      IN  IF conflict /\ Definition.strategy = "ManualResolution"
                          THEN NextRecord("record", counted)
                          ELSE /\ log' = counted
                               /\ record' = r
                               /\ existing' = found
                               /\ pc' = AfterFind(found)
    /\ UNCHANGED <<world, store, logs, lastSyncTimes, local>>

\* CaptureSnapshotCoreAsync: the next number is read, the entry added and saved.
SnapshotOf(row, isDelete) ==
    LET rec == <<def, Target, row.id>>
    IN  [rec |-> rec, ver |-> NextVersion(history, rec), created |-> clock,
         title |-> row.title, val |-> row.val, by |-> row.updator, at |-> row.time, delete |-> isDelete]

Capture(isDelete, next, loop) ==
    LET t == TrackAdded(tracker, SnapshotOf(existing, isDelete))
    IN  /\ \/ Saves(t) /\ pc' = next /\ UNCHANGED <<log, record, existing>>
           \/ SaveThrows(t) /\ GiveUp(loop)
           \/ Throws /\ UNCHANGED store /\ GiveUp(loop)   \* the number is not read
        /\ UNCHANGED <<world, logs, lastSyncTimes, local, todo>>

CaptureSnapshot == pc = "capture" /\ Capture(FALSE, "upsert", "record")

CaptureDeleteSnapshot == pc = "captureDelete" /\ Capture(TRUE, "delete", "deletion")

\* UpsertRecordAsync: one transaction on the target.  Whatever it wrote, an
\* insertion is counted as one row inserted and an update as one row updated.  A
\* commit may take effect and throw all the same, because its answer is lost or
\* the token is cancelled while it is awaited.
UpsertRecord ==
    /\ pc = "upsert"
    /\ \/ /\ existing = Null /\ InsertAccepted(EffectiveColumns)
          /\ sites' = [sites EXCEPT ![Target] =
                InsertRecord(@, FilteredRecord, Definition.syncUser, clock)]
          /\ \/ /\ Completes
                /\ NextRecord("record", [log EXCEPT !.inserted = @ + 1, !.processed = @ + 1])
             \/ Throws /\ GiveUp("record")
       \/ /\ existing # Null /\ UpdateAccepted(EffectiveColumns)
          /\ sites' = [sites EXCEPT ![Target] =
                UpdateRecord(@, FilteredRecord, EffectiveColumns, Definition.syncUser, clock)]
          /\ \/ /\ Completes
                /\ log' = [log EXCEPT !.updated = @ + 1]
                /\ pc' = "retain"
                /\ UNCHANGED <<record, existing>>
             \/ Throws /\ GiveUp("record")
       \/ /\ \/ Throws
             \/ UNCHANGED faults /\ existing = Null /\ ~ InsertAccepted(EffectiveColumns)
             \/ UNCHANGED faults /\ existing # Null /\ ~ UpdateAccepted(EffectiveColumns)
          /\ GiveUp("record")
          /\ UNCHANGED sites
    /\ UNCHANGED <<clock, cancelled, edits, syncs, store, logs, lastSyncTimes, local, todo>>

\* ApplyRetentionForRecordAsync, then RecordsProcessed++.
ApplyRetentionForRecord ==
    /\ pc = "retain"
    /\ LET excess == IF Definition.maxVersions = Null THEN {}
                     ELSE Excess(history, <<def, Target, existing.id>>, Definition.maxVersions)
           Processed == NextRecord("record", [log EXCEPT !.processed = @ + 1])
       IN  \/ Definition.maxVersions = Null /\ Processed /\ UNCHANGED <<store, faults>>
           \/ /\ Definition.maxVersions # Null
              /\ \/ excess = {} /\ Completes /\ Processed /\ UNCHANGED store
                 \/ excess # {} /\ Saves(TrackDeleted(tracker, excess)) /\ Processed
                 \/ excess # {} /\ SaveThrows(TrackDeleted(tracker, excess)) /\ GiveUp("record")
                 \/ Throws /\ GiveUp("record") /\ UNCHANGED store
    /\ UNCHANGED <<world, logs, lastSyncTimes, local, todo>>

LeaveRecords ==
    /\ pc = "record" /\ todo = {}
    /\ pc' = "deletions"
    /\ UNCHANGED <<world, faults, store, logs, lastSyncTimes, local, todo, record, existing, log>>

FetchDeletions ==
    /\ pc = "deletions"
    /\ \/ /\ Completes
          /\ todo' = GetDeletedRecords(sites[Definition.source], lastSyncTime)
          /\ pc' = "deletion"
          /\ UNCHANGED <<log, record, existing>>
       \/ Throws /\ Abort
    /\ UNCHANGED <<world, store, logs, lastSyncTimes, local>>

FindDeleted ==
    /\ pc = "deletion" /\ ~ cancelled
    /\ \E r \in Earliest(todo) :
          /\ todo' = todo \ {r}
          /\ \/ Throws /\ GiveUp("deletion")
             \/ /\ Completes
                /\ \E found \in FindRecordBySyncKey(sites[Target], r.key) :
                      IF found = Null
                      THEN NextRecord("deletion", log)
                      ELSE /\ record' = r
                           /\ existing' = found
                           /\ pc' = IF Definition.history THEN "captureDelete" ELSE "delete"
                           /\ UNCHANGED log
    /\ UNCHANGED <<world, store, logs, lastSyncTimes, local>>

\* Variant, to be rejected: the DELETE asks for the id the row has in the source.
DeleteBySourceId ==
    /\ pc = "delete"
    /\ \/ /\ sites' = [sites EXCEPT ![Target] = DeleteRecord(@, record.id)]
          /\ \/ /\ Completes
                /\ NextRecord("deletion", [log EXCEPT !.deleted = @ + 1, !.processed = @ + 1])
             \/ Throws /\ GiveUp("deletion")
       \/ Throws /\ GiveUp("deletion") /\ UNCHANGED sites
    /\ UNCHANGED <<clock, cancelled, edits, syncs, store, logs, lastSyncTimes, local, todo>>

\* DeleteRecordAsync, whose commit may take effect and throw as well.
DeleteTarget ==
    /\ pc = "delete"
    /\ \/ /\ sites' = [sites EXCEPT ![Target] = DeleteRecord(@, existing.id)]
          /\ \/ /\ Completes
                /\ NextRecord("deletion", [log EXCEPT !.deleted = @ + 1, !.processed = @ + 1])
             \/ Throws /\ GiveUp("deletion")
       \/ Throws /\ GiveUp("deletion") /\ UNCHANGED sites
    /\ UNCHANGED <<clock, cancelled, edits, syncs, store, logs, lastSyncTimes, local, todo>>

\* Variant, to be rejected: the loop over the mappings does not move on.
LeaveDeletionsOnly ==
    /\ pc = "deletion" /\ todo = {}
    /\ pc' = "mapping"
    /\ UNCHANGED <<world, faults, store, logs, lastSyncTimes, local, todo, record, existing, log>>

LeaveDeletions ==
    /\ pc = "deletion" /\ todo = {}
    /\ mappings' = Tail(mappings)
    /\ pc' = "mapping"
    /\ UNCHANGED <<world, faults, store, logs, lastSyncTimes, def, lastSyncTime, changed, todo,
                   record, existing, log>>

\* ApplyTimeBasedRetentionAsync for the entries of the definition.
Cleanup ==
    /\ pc = "cleanup"
    /\ LET old == IF Definition.maxAge = Null THEN {}
                  ELSE OlderThan({h \in history : h.rec[1] = def}, clock - Definition.maxAge)
           Done == pc' = "writeLog" /\ UNCHANGED <<log, todo, record, existing>>
       IN  \/ Definition.maxAge = Null /\ Done /\ UNCHANGED <<store, faults>>
           \/ /\ Definition.maxAge # Null
              /\ \/ old = {} /\ Completes /\ Done /\ UNCHANGED store
                 \/ old # {} /\ Saves(TrackDeleted(tracker, old)) /\ Done
                 \/ old # {} /\ SaveThrows(TrackDeleted(tracker, old)) /\ Abort
                 \/ Throws /\ Abort /\ UNCHANGED store
    /\ UNCHANGED <<world, logs, lastSyncTimes, local>>

\* CreateLogEntryAsync, outside the try: when it throws the caller gets the
\* exception, leaves its scope, and there is no log entry.
LogWritten ==
    /\ pc = "writeLog"
    /\ Saves(tracker)
    /\ logs' = Append(logs, log)
    /\ Return
    /\ UNCHANGED <<world, lastSyncTimes>>

LogLost ==
    /\ pc = "writeLog"
    /\ Throws \/ (UNCHANGED faults /\ ~ CanSave(history, tracker))
    /\ DropScope
    /\ Return
    /\ UNCHANGED <<world, history, logs>>

EngineStep ==
    \/ GetReferenceType \/ FetchChanges \/ EnterMapping \/ LeaveMappings
    \/ StopInLoop
    \/ FindTarget \/ CaptureSnapshot \/ UpsertRecord \/ ApplyRetentionForRecord \/ LeaveRecords
    \/ FetchDeletions \/ FindDeleted \/ CaptureDeleteSnapshot \/ DeleteTarget \/ LeaveDeletions
    \/ Cleanup \/ LogWritten \/ LogLost

-------------------------------------------------------------------------------
\* The world around the engine.

engineVars == <<faults, store, logs, lastSyncTimes, pc, local, todo, record, existing, log>>

KeysOf(site) == {r.key : r \in site.rows \cup site.deleted}

EditSite(s, site) ==
    /\ edits < MaxEdits
    /\ edits' = edits + 1
    /\ sites' = [sites EXCEPT ![s] = site]
    /\ UNCHANGED <<clock, cancelled, syncs, engineVars>>

UserCreatesRow(s, k, v, t) ==
    /\ s \in Creators
    /\ ReuseKeys \/ \A other \in Sites : k \notin KeysOf(sites[other])
    /\ EditSite(s, UserCreates(sites[s], k, v, t, User, clock))

UserUpdatesRow(s, r, v, t) ==
    /\ s \in Editors
    /\ EditSite(s, UserUpdates(sites[s], r, v, t, User, clock))

UserDeletesRow(s, r) ==
    /\ s \in Deleters
    /\ EditSite(s, UserDeletes(sites[s], r, User, clock))

UserStep ==
    \E s \in Sites :
       \/ \E k \in Keys, v \in Vals, t \in Titles : UserCreatesRow(s, k, v, t)
       \/ \E r \in sites[s].rows, v \in Vals, t \in Titles : UserUpdatesRow(s, r, v, t)
       \/ \E r \in sites[s].rows : UserDeletesRow(s, r)

Tick ==
    /\ clock < MaxTime
    /\ clock' = clock + 1
    /\ UNCHANGED <<sites, cancelled, edits, syncs, engineVars>>

\* The host cancels the stopping token, at any time.
Stop ==
    /\ CanStop /\ ~ cancelled
    /\ cancelled' = TRUE
    /\ UNCHANGED <<sites, clock, edits, syncs, engineVars>>

\* The stopped service is started again.
Restart ==
    /\ cancelled /\ pc = "idle"
    /\ cancelled' = FALSE
    /\ DropScope
    /\ UNCHANGED <<sites, clock, edits, syncs, faults, history, logs, pc, local, todo, record,
                   existing, log>>

\* The process dies, in the middle of a synchronisation or not, and is started
\* again.
Crash ==
    /\ CanCrash
    /\ cancelled' = FALSE
    /\ DropScope
    /\ Return
    /\ UNCHANGED <<sites, clock, edits, syncs, faults, history, logs>>

Environment == UserStep \/ Tick \/ Stop \/ Restart \/ Crash

Next == NewScope \/ (\E d \in Definitions : ExecuteSync(d)) \/ EngineStep \/ Environment

Spec == Init /\ [][Next]_vars

-------------------------------------------------------------------------------
\* Properties.

InProgress == pc # "idle"

\* The counters of a log entry agree: what was processed is what was inserted,
\* updated or deleted, except for updates whose retention failed, and those
\* leave the status Failed.
LogAdds ==
    LET done == log.inserted + log.updated + log.deleted
        counted == IF pc = "retain" THEN log.processed + 1 ELSE log.processed
    IN  /\ counted <= done
        /\ log.status = "Success" => counted = done

\* The target row that was looked up, as long as it is what it was then.
FoundRow == {r \in sites[Target].rows : BaseRecord(r) = existing}

\* With version history on, the engine is about to overwrite or delete the target
\* row it found only when a committed snapshot holds that row's state.
SnapshotFirst ==
    existing # Null /\ Definition.history /\ pc \in {"upsert", "delete"} =>
        \E h \in history :
            /\ h.rec = <<def, Target, existing.id>>
            /\ h.title = existing.title /\ h.by = existing.updator /\ h.at = existing.time
            /\ h.delete = (pc = "delete")

\* Where only the engine creates rows, a sync key has one row, although lookup
\* and insertion are separate transactions and the source may hold a key twice.
NoDuplicateKeys ==
    \A s \in Sites \ Creators : \A r, q \in sites[s].rows :
        r.key = q.key /\ r.key # Null => r = q

\* A synchronisation in which nothing throws has no failure to report.
FaultFreeSyncSucceeds == faults = 0 /\ ~ cancelled => log.status = "Success"

TargetsOf(d) == {Config[d].mappings[i].site : i \in
                    {j \in DOMAIN Config[d].mappings : Config[d].mappings[j].enabled}}

\* When the loops end without an error, every record that was fetched has a row
\* with its key in every enabled target, unless that key was deleted meanwhile.
SuccessMeansPresent ==
    pc = "cleanup" /\ log.status = "Success" =>
        \A r \in changed, t \in TargetsOf(def) :
            \/ \E q \in sites[t].rows : q.key = r.key
            \/ \E q \in sites[Definition.source].deleted \cup sites[t].deleted : q.key = r.key

\* What the engine deletes in a target has the key of a row that was deleted in the
\* source, and not before the start of the window, although the row goes by its id,
\* which was looked up calls ago, while users delete, edit and create rows with the
\* same keys on both sides.
DeletesAnswerDeletions ==
    [][pc = "delete" /\ pc' = "deletion" =>
          \A r \in sites[Target].rows \ sites'[Target].rows :
              \E q \in sites[Definition.source].deleted :
                  q.key = r.key /\ q.time > lastSyncTime]_vars

\* Two definitions that synchronise two sites in opposite directions do not feed
\* each other: what the engine wrote in one never comes back to the other, so the
\* rows of a site that users work on are changed by its users alone.
NoEcho == [][pc # pc' => \A s \in Creators : sites'[s] = sites[s]]_vars

\* However a synchronisation goes, it comes to an end.
SyncEnds == InProgress ~> ~ InProgress

\* A fetched record is not forgotten: its key reaches the current target, or the
\* log of the synchronisation shows a failure, or the host has asked to stop.
PickedRecordArrives ==
    \A k \in Keys, t \in Sites :
        (pc = "record" /\ Target = t /\ \E r \in todo : r.key = k)
            ~> (k \in KeysOf(sites[t]) \/ log.status = "Failed" \/ cancelled)

\* The step changes or deletes the row that was looked up.
TouchesFoundRow == existing # Null /\ FoundRow \ sites'[Target].rows # {}
===============================================================================
