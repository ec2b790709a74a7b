---------------------------- MODULE SyncOutcomeProofs ----------------------------
(***************************************************************************)
(* What SyncEngine does to the sites and the version history, for any      *)
(* sites, definitions, users, bounds and faults, and for any caller; and   *)
(* the same under the worker, with the loop that SyncWorker adds.          *)
(***************************************************************************)
EXTENDS SyncWorker, SyncEngineProofs

-------------------------------------------------------------------------------
\* What a step does to the sites: a transaction of the engine on its target, or
\* one of Pleasanter for a user.

EngineWrites ==
    /\ pc' # pc
    /\ Target \in Sites
    /\ \A t \in Sites \ {Target} : sites'[t] = sites[t]
    /\ \/ /\ pc = "upsert" /\ existing = Null
          /\ Inserted(sites[Target], sites'[Target], FilteredRecord.key, Definition.syncUser)
       \/ /\ pc = "upsert" /\ existing # Null
          /\ Rewritten(sites[Target], sites'[Target], Definition.syncUser)
       \/ pc = "delete" /\ Removed(sites[Target], sites'[Target], existing.id)

UserWrites(s) ==
    /\ UNCHANGED engineVars
    /\ \A t \in Sites \ {s} : sites'[t] = sites[t]
    /\ \/ /\ s \in Creators
          /\ \E k \in Keys :
                /\ ReuseKeys \/ \A other \in Sites : k \notin KeysOf(sites[other])
                /\ Inserted(sites[s], sites'[s], k, User)
       \/ s \in Editors /\ \E r \in sites[s].rows : Replaced(sites[s], sites'[s], r)
       \/ s \in Deleters /\ \E r \in sites[s].rows : Buried(sites[s], sites'[s], r)

LEMMA UpsertWrites ==
    ASSUME TypeInv, UpsertRecord
    PROVE  UNCHANGED sites \/ EngineWrites
<1>1. /\ Target \in Sites /\ record \in Row /\ def \in Definitions /\ clock \in Nat
      /\ pc = "upsert" /\ pc' # pc /\ sites \in [Sites -> Site]
  BY TargetTyped, BoundsTyped
     DEF TypeInv, UpsertRecord, GiveUp, NextRecord, Control, LocalOK, WorldOK
<1>2. FilteredRecord \in Row /\ Definition.syncUser \in UserIds /\ sites[Target] \in Site
  BY <1>1, FilterTyped, ConfigParts DEF FilteredRecord, Definition
<1>3. Inserted(sites[Target], InsertRecord(sites[Target], FilteredRecord, Definition.syncUser, clock),
               FilteredRecord.key, Definition.syncUser)
  BY <1>1, <1>2, InsertTyped, Zenon
<1>4. Rewritten(sites[Target], UpdateRecord(sites[Target], FilteredRecord, EffectiveColumns,
                                            Definition.syncUser, clock), Definition.syncUser)
  BY <1>1, <1>2, UpdateTyped, Zenon
<1>5. ASSUME NEW site, sites' = [sites EXCEPT ![Target] = site]
      PROVE  sites'[Target] = site /\ \A t \in Sites \ {Target} : sites'[t] = sites[t]
  BY <1>1, <1>5
<1> QED BY <1>1, <1>3, <1>4, <1>5 DEF UpsertRecord, EngineWrites

LEMMA DeleteWrites ==
    ASSUME TypeInv, DeleteTarget
    PROVE  UNCHANGED sites \/ EngineWrites
<1>1. Target \in Sites /\ pc = "delete" /\ pc' # pc /\ sites \in [Sites -> Site]
  BY TargetTyped DEF TypeInv, DeleteTarget, GiveUp, NextRecord, Control, LocalOK, WorldOK
<1>2. Removed(sites[Target], DeleteRecord(sites[Target], existing.id), existing.id)
  BY <1>1, DeleteTyped
<1> QED BY <1>1, <1>2 DEF DeleteTarget, EngineWrites

LEMMA UserStepWrites ==
    ASSUME TypeInv, UserStep
    PROVE  \E s \in Sites : UserWrites(s)
<1>1. sites \in [Sites -> Site] /\ clock \in Nat /\ User \in UserIds
  BY BoundsTyped DEF TypeInv, WorldOK
<1>2. ASSUME NEW s \in Sites, NEW site, EditSite(s, site)
      PROVE  /\ UNCHANGED engineVars /\ sites'[s] = site
             /\ \A t \in Sites \ {s} : sites'[t] = sites[t]
  BY <1>1, <1>2 DEF EditSite
<1>3. ASSUME NEW s \in Sites, NEW k \in Keys, NEW v \in Vals, NEW t \in Titles,
             UserCreatesRow(s, k, v, t)
      PROVE  UserWrites(s)
  <2>1. Inserted(sites[s], UserCreates(sites[s], k, v, t, User, clock), k, User)
    BY <1>1, UserCreatesTyped
  <2> QED BY <1>2, <1>3, <2>1 DEF UserCreatesRow, UserWrites
<1>4. ASSUME NEW s \in Sites, NEW r \in sites[s].rows, NEW v \in Vals, NEW t \in Titles,
             UserUpdatesRow(s, r, v, t)
      PROVE  UserWrites(s)
  <2>1. Replaced(sites[s], UserUpdates(sites[s], r, v, t, User, clock), r)
    BY <1>1, UserUpdatesTyped
  <2> QED BY <1>2, <1>4, <2>1 DEF UserUpdatesRow, UserWrites
<1>5. ASSUME NEW s \in Sites, NEW r \in sites[s].rows, UserDeletesRow(s, r)
      PROVE  UserWrites(s)
  <2>1. Buried(sites[s], UserDeletes(sites[s], r, User, clock), r)
    BY <1>1, UserDeletesTyped
  <2> QED BY <1>2, <1>5, <2>1 DEF UserDeletesRow, UserWrites
<1> QED BY <1>3, <1>4, <1>5 DEF UserStep

LEMMA StepSites ==
    ASSUME TypeInv, [Next]_vars
    PROVE  UNCHANGED sites \/ EngineWrites \/ \E s \in Sites : UserWrites(s)
<1>1. CASE UpsertRecord
  BY <1>1, UpsertWrites
<1>2. CASE DeleteTarget
  BY <1>2, DeleteWrites
<1>3. CASE UserStep
  BY <1>3, UserStepWrites
<1>4. CASE NewScope \/ GetReferenceType \/ FetchChanges \/ EnterMapping \/ LeaveMappings
  BY <1>4 DEF NewScope, GetReferenceType, FetchChanges, EnterMapping, LeaveMappings, world
<1>5. ASSUME NEW d \in Definitions, ExecuteSync(d) PROVE UNCHANGED sites
  BY <1>5 DEF ExecuteSync
<1>6. CASE StopInLoop \/ FindTarget \/ FindDeleted \/ CaptureSnapshot \/ CaptureDeleteSnapshot
  BY <1>6 DEF StopInLoop, FindTarget, FindDeleted, CaptureSnapshot, CaptureDeleteSnapshot,
              Capture, world
<1>7. CASE ApplyRetentionForRecord \/ LeaveRecords \/ FetchDeletions \/ LeaveDeletions
  BY <1>7 DEF ApplyRetentionForRecord, LeaveRecords, FetchDeletions, LeaveDeletions, world
<1>8. CASE Cleanup \/ LogWritten \/ LogLost
  BY <1>8 DEF Cleanup, LogWritten, LogLost, world
<1>9. CASE Tick \/ Stop \/ Restart \/ Crash \/ UNCHANGED vars
  BY <1>9 DEF Tick, Stop, Restart, Crash, vars, world
<1> QED BY <1>1, <1>2, <1>3, <1>4, <1>5, <1>6, <1>7, <1>8, <1>9
        DEF Next, EngineStep, Environment

-------------------------------------------------------------------------------
\* Where a step takes the engine, and what becomes of its locals.

RecordLoop == {"record", "capture", "upsert", "retain"}
DeletionLoop == {"deletion", "captureDelete", "delete"}

Stays == UNCHANGED <<pc, local, todo, record, existing, log>>

Aborts == pc # "idle" /\ Abort /\ UNCHANGED local

\* A record is given up: the status is Failed from here on.
GivesUp ==
    /\ \/ pc \in RecordLoop /\ GiveUp("record")
       \/ pc \in DeletionLoop /\ GiveUp("deletion")
    /\ todo' \subseteq todo
    /\ UNCHANGED local

Starts == pc = "idle" /\ \E d \in Definitions : ExecuteSync(d)

Prepares ==
    /\ pc = "prepare" /\ pc' = "fetch"
    /\ mappings' = Definition.mappings
    /\ UNCHANGED <<def, changed, todo, record, existing, log>>

Fetches ==
    /\ pc = "fetch" /\ pc' = "mapping"
    /\ changed' = GetChangedRecords(sites[Definition.source], lastSyncTime, Definition.syncUser)
    /\ UNCHANGED <<def, lastSyncTime, mappings, todo, record, existing, log>>

\* A record is done: its loop goes on, with the status it had.
Processes(loop) ==
    /\ pc' = loop /\ record' = Null /\ existing' = Null
    /\ log'.status = log.status
    /\ UNCHANGED <<local, todo>>

TakesUp(r) ==
    /\ pc = "record" /\ r \in todo /\ todo' = todo \ {r}
    /\ log'.status = log.status
    /\ \E found \in FindRecordBySyncKey(sites[Target], r.key) : FindsTarget(r, found)
    /\ UNCHANGED local

TakesUpDeleted(r) ==
    /\ pc = "deletion" /\ r \in todo /\ todo' = todo \ {r}
    /\ \E found \in FindRecordBySyncKey(sites[Target], r.key) : FindsDeleted(r, found)
    /\ UNCHANGED <<log, local>>

Captures ==
    /\ \/ pc = "capture" /\ pc' = "upsert"
       \/ pc = "captureDelete" /\ pc' = "delete"
    /\ UNCHANGED <<local, todo, record, existing, log>>

Inserts ==
    /\ pc = "upsert" /\ existing = Null
    /\ Inserted(sites[Target], sites'[Target], FilteredRecord.key, Definition.syncUser)
    /\ Processes("record")

Updates ==
    /\ pc = "upsert" /\ pc' = "retain" /\ existing # Null
    /\ log'.status = log.status
    /\ UNCHANGED <<local, todo, record, existing>>

FetchesDeletions ==
    /\ pc = "deletions" /\ pc' = "deletion"
    /\ todo' = GetDeletedRecords(sites[Definition.source], lastSyncTime)
    /\ UNCHANGED <<local, record, existing, log>>

Cleans == pc = "cleanup" /\ pc' = "writeLog" /\ UNCHANGED <<local, todo, record, existing, log>>

Flow ==
    \/ Stays \/ Return \/ Aborts \/ GivesUp \/ Starts \/ Prepares \/ Fetches
    \/ EnterMapping \/ LeaveMappings \/ LeaveRecords \/ LeaveDeletions
    \/ (\E r \in todo : TakesUp(r) \/ TakesUpDeleted(r))
    \/ Captures \/ Inserts \/ Updates \/ FetchesDeletions \/ Cleans
    \/ pc = "retain" /\ Processes("record")
    \/ pc = "delete" /\ Processes("deletion")

LEMMA StepFlow ==
    ASSUME TypeInv, [Next]_vars
    PROVE  Flow
<1> USE DEF Flow
<1>1. log \in LogEntry
  BY DEF TypeInv, LogInv
<1>2. ASSUME NEW e \in {[log EXCEPT !.conflicts = @ + 1], [log EXCEPT !.updated = @ + 1],
                        [log EXCEPT !.processed = @ + 1],
                        [log EXCEPT !.inserted = @ + 1, !.processed = @ + 1],
                        [log EXCEPT !.deleted = @ + 1, !.processed = @ + 1]}
      PROVE  e.status = log.status
  BY <1>1, <1>2 DEF LogEntry
<1>3. CASE NewScope \/ Restart
  BY <1>3 DEF NewScope, Restart, Stays, local
<1>4. ASSUME NEW d \in Definitions, ExecuteSync(d) PROVE Flow
  BY <1>4 DEF Starts, ExecuteSync
<1>5. CASE GetReferenceType
  BY <1>5 DEF GetReferenceType, Prepares, Aborts, local
<1>6. CASE FetchChanges
  BY <1>6 DEF FetchChanges, Fetches, Aborts, local
<1>7. CASE StopInLoop
  BY <1>7 DEF StopInLoop, Aborts
<1>8. CASE FindTarget
  <2>1. PICK r \in todo :
           /\ todo' = todo \ {r}
           /\ \/ GiveUp("record")
              \/ \E found \in FindRecordBySyncKey(sites[Target], r.key) : FindsTarget(r, found)
    BY <1>8, FindTargetCases
  <2>2. pc = "record" /\ UNCHANGED local /\ todo' \subseteq todo
    BY <1>8, <2>1 DEF FindTarget
  <2>3. CASE GiveUp("record")
    BY <2>2, <2>3 DEF GivesUp, RecordLoop
  <2>4. ASSUME NEW found \in FindRecordBySyncKey(sites[Target], r.key), FindsTarget(r, found)
        PROVE  Flow
    <3>1. log'.status = log.status
      BY <1>2, <2>4 DEF FindsTarget, NextRecord
    <3>2. TakesUp(r)
      BY <2>1, <2>2, <2>4, <3>1 DEF TakesUp
    <3> QED BY <3>2
  <2> QED BY <2>1, <2>3, <2>4
<1>9. CASE FindDeleted
  <2>1. PICK r \in todo :
           /\ todo' = todo \ {r}
           /\ \/ GiveUp("deletion")
              \/ \E found \in FindRecordBySyncKey(sites[Target], r.key) : FindsDeleted(r, found)
    BY <1>9, FindDeletedCases
  <2>2. pc = "deletion" /\ UNCHANGED local /\ todo' \subseteq todo
    BY <1>9, <2>1 DEF FindDeleted
  <2>3. CASE GiveUp("deletion")
    BY <2>2, <2>3 DEF GivesUp, DeletionLoop
  <2>4. ASSUME NEW found \in FindRecordBySyncKey(sites[Target], r.key), FindsDeleted(r, found)
        PROVE  Flow
    <3>1. UNCHANGED log
      BY <2>4 DEF FindsDeleted, NextRecord
    <3>2. TakesUpDeleted(r)
      BY <2>1, <2>2, <2>4, <3>1 DEF TakesUpDeleted
    <3> QED BY <3>2
  <2> QED BY <2>1, <2>3, <2>4
<1>10. CASE CaptureSnapshot \/ CaptureDeleteSnapshot
  BY <1>10 DEF CaptureSnapshot, CaptureDeleteSnapshot, Capture, Captures, GivesUp,
               RecordLoop, DeletionLoop
<1>11. CASE UpsertRecord
  <2>1. pc = "upsert" /\ UNCHANGED <<local, todo>>
    BY <1>11 DEF UpsertRecord
  <2>2. CASE GiveUp("record")
    BY <2>1, <2>2 DEF GivesUp, RecordLoop
  <2>3. CASE log' = [log EXCEPT !.updated = @ + 1] /\ pc' = "retain" /\ existing # Null
             /\ UNCHANGED <<record, existing>>
    BY <1>2, <2>1, <2>3 DEF Updates
  <2>4. CASE /\ existing = Null
             /\ sites' = [sites EXCEPT ![Target] =
                   InsertRecord(@, FilteredRecord, Definition.syncUser, clock)]
             /\ NextRecord("record", [log EXCEPT !.inserted = @ + 1, !.processed = @ + 1])
    <3>1. /\ Target \in Sites /\ record \in Row /\ def \in Definitions /\ clock \in Nat
          /\ sites \in [Sites -> Site]
      BY <2>1, TargetTyped, BoundsTyped DEF TypeInv, Control, LocalOK, WorldOK
    <3>2. FilteredRecord \in Row /\ Definition.syncUser \in UserIds /\ sites[Target] \in Site
      BY <3>1, FilterTyped, ConfigParts DEF FilteredRecord, Definition
    <3>3. Inserted(sites[Target], InsertRecord(sites[Target], FilteredRecord, Definition.syncUser, clock),
                   FilteredRecord.key, Definition.syncUser)
      BY <3>1, <3>2, InsertTyped, Zenon
    <3>4. Inserted(sites[Target], sites'[Target], FilteredRecord.key, Definition.syncUser)
      BY <2>4, <3>1, <3>3
    <3>5. log'.status = log.status
      BY <1>2, <2>4 DEF NextRecord
    <3> QED BY <2>1, <2>4, <3>4, <3>5 DEF Inserts, Processes, NextRecord
  <2> QED BY <1>11, <2>2, <2>3, <2>4 DEF UpsertRecord
<1>12. CASE ApplyRetentionForRecord
  <2>1. pc = "retain" /\ UNCHANGED <<local, todo>>
    BY <1>12 DEF ApplyRetentionForRecord
  <2>2. CASE GiveUp("record")
    BY <2>1, <2>2 DEF GivesUp, RecordLoop
  <2>3. CASE NextRecord("record", [log EXCEPT !.processed = @ + 1])
    BY <1>2, <2>1, <2>3 DEF NextRecord, Processes
  <2> QED BY <1>12, <2>2, <2>3 DEF ApplyRetentionForRecord
<1>13. CASE FetchDeletions
  BY <1>13 DEF FetchDeletions, FetchesDeletions, Aborts
<1>14. CASE DeleteTarget
  <2>1. pc = "delete" /\ UNCHANGED <<local, todo>>
    BY <1>14 DEF DeleteTarget
  <2>2. CASE GiveUp("deletion")
    BY <2>1, <2>2 DEF GivesUp, DeletionLoop
  <2>3. CASE NextRecord("deletion", [log EXCEPT !.deleted = @ + 1, !.processed = @ + 1])
    BY <1>2, <2>1, <2>3 DEF NextRecord, Processes
  <2> QED BY <1>14, <2>2, <2>3 DEF DeleteTarget
<1>15. CASE Cleanup
  BY <1>15 DEF Cleanup, Cleans, Aborts
<1>16. CASE LogWritten \/ LogLost \/ Crash
  BY <1>16 DEF LogWritten, LogLost, Crash
<1>17. CASE UserStep
  BY <1>17 DEF UserStep, UserCreatesRow, UserUpdatesRow, UserDeletesRow, EditSite, engineVars, Stays
<1>18. CASE Tick \/ Stop \/ UNCHANGED vars
  BY <1>18 DEF Tick, Stop, vars, engineVars, Stays
<1> QED BY <1>3, <1>4, <1>5, <1>6, <1>7, <1>8, <1>9, <1>10, <1>11, <1>12, <1>13, <1>14, <1>15,
           <1>16, <1>17, <1>18
        DEF Next, EngineStep, Environment

-------------------------------------------------------------------------------
\* A snapshot before every change.

LEMMA StepSnapshot ==
    ASSUME TypeInv, SnapshotFirst, [Next]_vars
    PROVE  SnapshotFirst'
<1>1. LocalOK /\ Control /\ StoreOK(history, tracker)
  BY DEF TypeInv
<1>2. CASE pc' \notin {"upsert", "delete"}
  BY <1>2 DEF SnapshotFirst
<1>3. CASE UNCHANGED <<history, pc, def, mappings, existing>>
  BY <1>3 DEF SnapshotFirst, Definition, Target
<1>4. ASSUME NEW isDelete \in BOOLEAN, NEW loop \in {"record", "deletion"}, existing # Null,
             Capture(isDelete, IF isDelete THEN "delete" ELSE "upsert", loop)
      PROVE  SnapshotFirst'
  <2>1. CASE GiveUp(loop)
    BY <1>2, <1>4, <2>1 DEF GiveUp, NextRecord
  <2> DEFINE e == SnapshotOf(existing, isDelete)
  <2>2. CASE /\ Saves(TrackAdded(tracker, e))
             /\ pc' = IF isDelete THEN "delete" ELSE "upsert"
             /\ UNCHANGED <<record, existing, local>>
    <3>1. /\ e.rec = <<def, Target, existing.id>> /\ e.title = existing.title
          /\ e.by = existing.updator /\ e.at = existing.time /\ e.delete = isDelete
      BY DEF SnapshotOf
    <3> HIDE DEF e
    <3>2. e \in AddedEntries(TrackAdded(tracker, e))
      BY <1>1, TrackedIsAdded DEF StoreOK, Context
    <3>3. e \in history'
      BY <2>2, <3>2 DEF Saves, Saved
    <3>4. def' = def /\ Target' = Target /\ existing' = existing
      BY <2>2 DEF Target, local
    <3>5. isDelete = (pc' = "delete")
      BY <2>2
    <3> QED BY <3>1, <3>3, <3>4, <3>5 DEF SnapshotFirst
  <2> QED BY <1>4, <2>1, <2>2 DEF Capture
<1>5. CASE CaptureSnapshot
  <2>1. existing # Null
    BY <1>1, <1>5, ConfigAssumption DEF CaptureSnapshot, Control, ConfigAssumption
  <2>2. Capture(FALSE, IF FALSE THEN "delete" ELSE "upsert", "record")
    BY <1>5 DEF CaptureSnapshot
  <2> QED BY <1>4, <2>1, <2>2
<1>6. CASE CaptureDeleteSnapshot
  <2>1. existing # Null
    BY <1>1, <1>6, ConfigAssumption DEF CaptureDeleteSnapshot, Control, ConfigAssumption
  <2>2. Capture(TRUE, IF TRUE THEN "delete" ELSE "upsert", "deletion")
    BY <1>6 DEF CaptureDeleteSnapshot
  <2> QED BY <1>4, <2>1, <2>2
<1>7. CASE FindTarget
  <2>1. Definition' = Definition
    BY <1>7 DEF FindTarget, Definition, local
  <2>2. CASE GiveUp("record")
    BY <1>2, <2>2 DEF GiveUp, NextRecord
  <2>3. ASSUME NEW r, NEW found, FindsTarget(r, found) PROVE SnapshotFirst'
    <3>1. CASE \E entry : NextRecord("record", entry)
      BY <1>2, <3>1 DEF NextRecord
    <3>2. CASE existing' = found /\ pc' = AfterFind(found)
      BY <2>1, <3>2 DEF AfterFind, SnapshotFirst
    <3> QED BY <2>3, <3>1, <3>2 DEF FindsTarget
  <2> QED BY <1>7, <2>2, <2>3, FindTargetCases
<1>8. CASE FindDeleted
  <2>1. Definition' = Definition
    BY <1>8 DEF FindDeleted, Definition, local
  <2>2. CASE GiveUp("deletion")
    BY <1>2, <2>2 DEF GiveUp, NextRecord
  <2>3. ASSUME NEW r, NEW found, FindsDeleted(r, found) PROVE SnapshotFirst'
    <3>1. CASE NextRecord("deletion", log)
      BY <1>2, <3>1 DEF NextRecord
    <3>2. CASE pc' = IF Definition.history THEN "captureDelete" ELSE "delete"
      BY <2>1, <3>2 DEF SnapshotFirst
    <3> QED BY <2>3, <3>1, <3>2 DEF FindsDeleted
  <2> QED BY <1>8, <2>2, <2>3, FindDeletedCases
<1>9. ASSUME NEW d \in Definitions, ExecuteSync(d) PROVE SnapshotFirst'
  BY <1>2, <1>9 DEF ExecuteSync
<1>10. CASE GetReferenceType \/ FetchChanges \/ EnterMapping \/ LeaveMappings \/ StopInLoop
  BY <1>2, <1>10 DEF GetReferenceType, FetchChanges, EnterMapping, LeaveMappings, StopInLoop, Abort
<1>11. CASE UpsertRecord
  BY <1>2, <1>11 DEF UpsertRecord, GiveUp, NextRecord
<1>12. CASE ApplyRetentionForRecord
  BY <1>2, <1>12 DEF ApplyRetentionForRecord, GiveUp, NextRecord
<1>13. CASE LeaveRecords \/ FetchDeletions \/ DeleteTarget \/ LeaveDeletions
  BY <1>2, <1>13 DEF LeaveRecords, FetchDeletions, DeleteTarget, LeaveDeletions, GiveUp, NextRecord, Abort
<1>14. CASE Cleanup
  BY <1>2, <1>14 DEF Cleanup, Abort
<1>15. CASE LogWritten \/ LogLost \/ Crash
  BY <1>2, <1>15 DEF LogWritten, LogLost, Crash, Return
<1>16. CASE NewScope \/ Restart
  BY <1>3, <1>16 DEF NewScope, Restart, local
<1>17. CASE UserStep
  BY <1>3, <1>17 DEF UserStep, UserCreatesRow, UserUpdatesRow, UserDeletesRow, EditSite,
                     engineVars, store, local
<1>18. CASE Tick \/ Stop \/ UNCHANGED vars
  BY <1>3, <1>18 DEF Tick, Stop, vars, engineVars, store, local
<1> QED BY <1>5, <1>6, <1>7, <1>8, <1>9, <1>10, <1>11, <1>12, <1>13, <1>14, <1>15, <1>16, <1>17, <1>18
        DEF Next, EngineStep, Environment

\* With version history on, the engine is about to overwrite or delete a target
\* row only when a committed snapshot holds that row as it was found: no fault,
\* stop, crash or change by a user comes between capture and write in a way that
\* would lose it.
THEOREM SnapshotsComeFirst == Spec => []SnapshotFirst
<1>1. Init => SnapshotFirst
  BY DEF Init, SnapshotFirst
<1>2. TypeInv /\ SnapshotFirst /\ [Next]_vars => SnapshotFirst'
  BY StepSnapshot
<1> QED BY <1>1, <1>2, InitTypeInv, StepTypeInv, PTL DEF Spec

-------------------------------------------------------------------------------
\* One row for a sync key.

OneRowPerKey(rows) == \A r, q \in rows : r.key = q.key /\ r.key # Null => r = q

Free(rows, key) == key = Null \/ \A r \in rows : r.key # key

\* The lookup found nothing, and nothing has come since: between lookup and
\* insertion only users change the target, and they create no row there.
KeyInv ==
    /\ NoDuplicateKeys
    /\ pc = "upsert" /\ existing = Null /\ Target \notin Creators
          => Free(sites[Target].rows, record.key)

\* Rows that keep their keys keep them apart.
LEMMA SubsetKeeps ==
    ASSUME NEW rows, NEW some \in SUBSET rows
    PROVE  /\ OneRowPerKey(rows) => OneRowPerKey(some)
           /\ \A key : Free(rows, key) => Free(some, key)
BY DEF OneRowPerKey, Free

LEMMA RewrittenKeeps ==
    ASSUME NEW site, NEW after, NEW u, Rewritten(site, after, u)
    PROVE  OneRowPerKey(site.rows) => OneRowPerKey(after.rows)
BY DEF OneRowPerKey, Rewritten

LEMMA ReplacedKeeps ==
    ASSUME NEW site, NEW after, NEW r \in site.rows, Replaced(site, after, r)
    PROVE  /\ OneRowPerKey(site.rows) => OneRowPerKey(after.rows)
           /\ \A key : Free(site.rows, key) => Free(after.rows, key)
BY DEF OneRowPerKey, Free, Replaced

LEMMA InsertedKeeps ==
    ASSUME NEW site, NEW after, NEW key, NEW u, Inserted(site, after, key, u),
           Free(site.rows, key)
    PROVE  OneRowPerKey(site.rows) => OneRowPerKey(after.rows)
BY DEF OneRowPerKey, Free, Inserted

\* Where users create no rows, only what the engine inserts could repeat a key.
LEMMA StepKeepsKeysApart ==
    ASSUME TypeInv, KeyInv, [Next]_vars, NEW s \in Sites \ Creators
    PROVE  OneRowPerKey(sites'[s].rows)
<1>1. OneRowPerKey(sites[s].rows)
  BY DEF KeyInv, NoDuplicateKeys, OneRowPerKey
<1>2. CASE sites'[s].rows \subseteq sites[s].rows
  BY <1>1, <1>2, SubsetKeeps
<1>3. CASE EngineWrites
  <2>1. CASE s # Target
    BY <1>2, <1>3, <2>1 DEF EngineWrites
  <2>2. CASE /\ s = Target /\ pc = "upsert" /\ existing = Null
             /\ Inserted(sites[s], sites'[s], FilteredRecord.key, Definition.syncUser)
    <3>1. record \in Row
      BY <2>2 DEF TypeInv, Control
    <3>2. FilteredRecord.key \in {record.key, Null}
      BY <3>1, FilterTyped DEF FilteredRecord
    <3>3. Free(sites[s].rows, FilteredRecord.key)
      BY <2>2, <3>2 DEF KeyInv, Free
    <3> QED BY <1>1, <2>2, <3>3, InsertedKeeps
  <2>3. CASE s = Target /\ Rewritten(sites[s], sites'[s], Definition.syncUser)
    BY <1>1, <2>3, RewrittenKeeps
  <2>4. CASE s = Target /\ Removed(sites[s], sites'[s], existing.id)
    BY <1>2, <2>4 DEF Removed
  <2> QED BY <1>3, <2>1, <2>2, <2>3, <2>4 DEF EngineWrites
<1>4. ASSUME NEW t \in Sites, UserWrites(t) PROVE OneRowPerKey(sites'[s].rows)
  <2>1. CASE t # s
    BY <1>2, <1>4, <2>1 DEF UserWrites
  <2>2. ASSUME NEW r \in sites[s].rows, Replaced(sites[s], sites'[s], r)
        PROVE  OneRowPerKey(sites'[s].rows)
    BY <1>1, <2>2, ReplacedKeeps
  <2>3. ASSUME NEW r \in sites[s].rows, Buried(sites[s], sites'[s], r)
        PROVE  OneRowPerKey(sites'[s].rows)
    BY <1>2, <2>3 DEF Buried
  <2> QED BY <1>4, <2>1, <2>2, <2>3 DEF UserWrites
<1> QED BY <1>2, <1>3, <1>4, StepSites

\* A key that was free when the lookup found nothing is free still.
LEMMA StepKeepsFree ==
    ASSUME TypeInv, KeyInv, [Next]_vars,
           pc' = "upsert", existing' = Null, Target' \notin Creators
    PROVE  Free(sites'[Target'].rows, record'.key)
<1>1. LocalOK /\ Control /\ sites \in [Sites -> Site]
  BY DEF TypeInv, WorldOK
<1>2. CASE Stays
  <2>1. /\ pc = "upsert" /\ mappings # << >> /\ existing = Null /\ record' = record
        /\ Target' = Target /\ Target \in Sites
    BY <1>1, <1>2, TargetTyped DEF Stays, Control, LocalOK, local, Target
  <2>2. Free(sites[Target].rows, record.key)
    BY <2>1 DEF KeyInv
  <2>3. CASE sites'[Target].rows \subseteq sites[Target].rows
    BY <2>1, <2>2, <2>3, SubsetKeeps
  <2>4. ASSUME NEW r \in sites[Target].rows, Replaced(sites[Target], sites'[Target], r)
        PROVE  Free(sites'[Target].rows, record.key)
    BY <2>2, <2>4, ReplacedKeeps
  <2>5. ~ EngineWrites
    BY <1>2 DEF Stays, EngineWrites
  <2>6. ASSUME NEW s \in Sites, UserWrites(s)
        PROVE  \/ sites'[Target].rows \subseteq sites[Target].rows
               \/ \E r \in sites[Target].rows : Replaced(sites[Target], sites'[Target], r)
    BY <2>1, <2>6 DEF UserWrites, Buried
  <2> QED BY <2>1, <2>3, <2>4, <2>5, <2>6, StepSites
<1>3. ASSUME NEW r \in todo, TakesUp(r) PROVE Free(sites'[Target'].rows, record'.key)
  <2>1. pc = "record" /\ UNCHANGED local /\ Target' = Target /\ mappings # << >>
    BY <1>1, <1>3 DEF TakesUp, Control, local, Target
  <2>2. UNCHANGED sites /\ sites[Target] \in Site
    BY <1>1, <2>1, StepSites, TargetTyped
    DEF EngineWrites, UserWrites, engineVars, LocalOK
  <2>3. PICK found \in FindRecordBySyncKey(sites[Target], r.key) : FindsTarget(r, found)
    BY <1>3 DEF TakesUp
  <2>4. record' = r /\ existing' = found
    BY <2>3 DEF FindsTarget, NextRecord
  <2>5. Null \in FindRecordBySyncKey(sites[Target], r.key)
    BY <2>3, <2>4
  <2>6. Free(sites[Target].rows, r.key)
    BY <2>2, <2>5, FindNull, ConfigAssumption DEF Free, ConfigAssumption
  <2> QED BY <2>1, <2>2, <2>4, <2>6
<1>4. ~ Captures
  BY <1>1, ConfigAssumption DEF Captures, Control, ConfigAssumption
<1> QED BY <1>2, <1>3, <1>4, StepFlow
        DEF Flow, Return, Aborts, Abort, GivesUp, GiveUp, NextRecord, Starts, ExecuteSync, Prepares,
            Fetches, EnterMapping, LeaveMappings, LeaveRecords, LeaveDeletions, TakesUpDeleted,
            FindsDeleted, Inserts, Processes, Updates, FetchesDeletions, Cleans

LEMMA StepKeys ==
    ASSUME TypeInv, KeyInv, [Next]_vars
    PROVE  KeyInv'
BY StepKeepsKeysApart, StepKeepsFree DEF KeyInv, NoDuplicateKeys, OneRowPerKey, Target

\* Lookup and insertion are separate transactions, the source may hold a key
\* twice, definitions may share a target and the process may die in between: as
\* long as only the engine creates rows in a site, a sync key has one row there.
THEOREM KeysStayUnique == Spec => []NoDuplicateKeys
<1>1. Init => KeyInv
  <2> SUFFICES ASSUME Init PROVE KeyInv
    OBVIOUS
  <2>1. \A s \in Sites : sites[s].rows = {}
    BY DEF Init, EmptySite
  <2> QED BY <2>1 DEF Init, KeyInv, NoDuplicateKeys
<1>2. TypeInv /\ KeyInv /\ [Next]_vars => KeyInv'
  BY StepKeys
<1>3. KeyInv => NoDuplicateKeys
  BY DEF KeyInv
<1> QED BY <1>1, <1>2, <1>3, InitTypeInv, StepTypeInv, PTL DEF Spec
-------------------------------------------------------------------------------
\* Sync keys are never forgotten.

\* Whatever happens to a site, a sync key that a row of it has or had is found
\* among its rows or its deleted rows.
LEMMA StepRemembers ==
    ASSUME TypeInv, [Next]_vars, NEW s \in Sites
    PROVE  KeysOf(sites[s]) \subseteq KeysOf(sites'[s])
<1>1. CASE sites'[s] = sites[s]
  BY <1>1
<1>2. ASSUME NEW key, NEW u, Inserted(sites[s], sites'[s], key, u)
      PROVE  KeysOf(sites[s]) \subseteq KeysOf(sites'[s])
  BY <1>2 DEF Inserted, KeysOf
<1>3. ASSUME NEW u, Rewritten(sites[s], sites'[s], u)
      PROVE  KeysOf(sites[s]) \subseteq KeysOf(sites'[s])
  BY <1>3 DEF Rewritten, KeysOf
<1>4. ASSUME NEW id, Removed(sites[s], sites'[s], id)
      PROVE  KeysOf(sites[s]) \subseteq KeysOf(sites'[s])
  BY <1>4 DEF Removed, KeysOf
<1>5. ASSUME NEW r \in sites[s].rows, Replaced(sites[s], sites'[s], r)
      PROVE  KeysOf(sites[s]) \subseteq KeysOf(sites'[s])
  BY <1>5 DEF Replaced, KeysOf
<1>6. ASSUME NEW r \in sites[s].rows, Buried(sites[s], sites'[s], r)
      PROVE  KeysOf(sites[s]) \subseteq KeysOf(sites'[s])
  BY <1>6 DEF Buried, KeysOf
<1>7. CASE EngineWrites
  BY <1>1, <1>2, <1>3, <1>4, <1>7 DEF EngineWrites
<1>8. ASSUME NEW t \in Sites, UserWrites(t) PROVE KeysOf(sites[s]) \subseteq KeysOf(sites'[s])
  BY <1>1, <1>2, <1>5, <1>6, <1>8 DEF UserWrites
<1> QED BY <1>1, <1>7, <1>8, StepSites
-------------------------------------------------------------------------------
\* Every record that was fetched arrives.

\* The sync key goes to every target: no list of columns leaves it out.
KeysAreCopied ==
    \A d \in Definitions : \A i \in DOMAIN Config[d].mappings :
        Config[d].mappings[i].enabled =>
            "Key" \in GetEffectiveColumns(Config[d].rules, Config[d].mappings[i].exclude)

InLoop == pc \in RecordLoop \cup {"deletions"} \cup DeletionLoop

\* What is left of the target mappings of the definition, and that a loop runs for
\* an enabled one.
MappingsInv ==
    /\ pc \in {"idle", "prepare", "cleanup"} => mappings = << >>
    /\ pc = "fetch" => mappings = Definition.mappings
    /\ pc # "idle" => \A i \in DOMAIN mappings : \E j \in DOMAIN Definition.mappings :
                         mappings[i] = Definition.mappings[j]
    /\ InLoop => mappings # << >> /\ mappings[1].enabled

LEMMA TailParts ==
    ASSUME NEW S, NEW q \in Seq(S), q # << >>
    PROVE  /\ Head(q) = q[1] /\ 1 \in DOMAIN q
           /\ \A i \in DOMAIN Tail(q) : i + 1 \in DOMAIN q /\ Tail(q)[i] = q[i + 1]
           /\ \A i \in DOMAIN q : i # 1 => i - 1 \in DOMAIN Tail(q) /\ Tail(q)[i - 1] = q[i]
BY HeadTailProperties

LEMMA StepMappings ==
    ASSUME TypeInv, MappingsInv, [Next]_vars
    PROVE  MappingsInv'
<1>1. mappings \in Seq(Mapping)
  BY DEF TypeInv, LocalOK
<1>2. CASE pc' = "idle" /\ mappings' = << >>
  BY <1>2 DEF MappingsInv, InLoop, RecordLoop, DeletionLoop
<1>3. ASSUME pc # "idle", UNCHANGED <<def, mappings>>, pc' \notin {"idle", "prepare", "fetch"},
             InLoop' => InLoop, pc' = "cleanup" => mappings = << >>
      PROVE  MappingsInv'
  BY <1>3 DEF MappingsInv, Definition
<1>4. CASE Stays
  BY <1>4 DEF Stays, local, MappingsInv, Definition, InLoop
<1>5. CASE Return
  BY <1>2, <1>5 DEF Return
<1>6. CASE Aborts \/ Cleans
  BY <1>3, <1>6 DEF Aborts, Abort, Cleans, local, InLoop, RecordLoop, DeletionLoop
<1>7. CASE GivesUp
  BY <1>3, <1>7 DEF GivesUp, GiveUp, NextRecord, local, InLoop, RecordLoop, DeletionLoop
<1>8. CASE Starts
  <2>1. pc = "idle" /\ pc' = "prepare" /\ mappings' = << >>
    BY <1>8 DEF Starts, ExecuteSync, MappingsInv
  <2> QED BY <2>1 DEF MappingsInv, InLoop, RecordLoop, DeletionLoop
<1>9. CASE Prepares
  <2>1. pc' = "fetch" /\ mappings' = Definition'.mappings
    BY <1>9 DEF Prepares, Definition
  <2> QED BY <2>1 DEF MappingsInv, InLoop, RecordLoop, DeletionLoop
<1>10. CASE Fetches \/ LeaveMappings
  BY <1>3, <1>10 DEF Fetches, LeaveMappings, local, InLoop, RecordLoop, DeletionLoop
<1>11. ASSUME mappings # << >>, mappings' = Tail(mappings), pc # "idle", pc' = "mapping",
              UNCHANGED def
       PROVE  MappingsInv'
  <2>1. \A i \in DOMAIN mappings' : i + 1 \in DOMAIN mappings /\ mappings'[i] = mappings[i + 1]
    BY <1>1, <1>11, TailParts
  <2>2. \A i \in DOMAIN mappings' : \E j \in DOMAIN Definition'.mappings :
           mappings'[i] = Definition'.mappings[j]
    BY <1>11, <2>1 DEF MappingsInv, Definition
  <2> QED BY <1>11, <2>2 DEF MappingsInv, InLoop, RecordLoop, DeletionLoop
<1>12. CASE EnterMapping
  <2>1. CASE Head(mappings).enabled
    <3>1. pc = "mapping" /\ pc' = "record" /\ mappings # << >> /\ UNCHANGED <<def, mappings>>
      BY <1>12, <2>1 DEF EnterMapping
    <3>2. mappings[1].enabled
      BY <1>1, <2>1, <3>1, TailParts
    <3> QED BY <3>1, <3>2 DEF MappingsInv, Definition
  <2>2. CASE ~ Head(mappings).enabled
    BY <1>11, <1>12, <2>2 DEF EnterMapping
  <2> QED BY <2>1, <2>2
<1>13. CASE LeaveRecords \/ FetchesDeletions \/ Captures
  BY <1>3, <1>13 DEF LeaveRecords, FetchesDeletions, Captures, local, InLoop, RecordLoop, DeletionLoop
<1>14. CASE LeaveDeletions
  BY <1>11, <1>14 DEF LeaveDeletions, MappingsInv, InLoop, RecordLoop, DeletionLoop
<1>15. ASSUME NEW r \in todo, TakesUp(r) \/ TakesUpDeleted(r) PROVE MappingsInv'
  BY <1>3, <1>15
     DEF TakesUp, TakesUpDeleted, FindsTarget, FindsDeleted, NextRecord, AfterFind, local,
         InLoop, RecordLoop, DeletionLoop
<1>16. CASE Inserts \/ Updates
  BY <1>3, <1>16 DEF Inserts, Updates, Processes, local, InLoop, RecordLoop, DeletionLoop
<1>17. CASE \/ pc = "retain" /\ Processes("record")
            \/ pc = "delete" /\ Processes("deletion")
  BY <1>3, <1>17 DEF Processes, local, InLoop, RecordLoop, DeletionLoop
<1> QED BY <1>4, <1>5, <1>6, <1>7, <1>8, <1>9, <1>10, <1>12, <1>13, <1>14, <1>15, <1>16, <1>17,
           StepFlow DEF Flow

\* The record is in the hands of the loop that runs for the first mapping left.
AtHand(r) ==
    \/ pc = "mapping"
    \/ pc \in RecordLoop /\ r \in todo
    \/ pc \in {"capture", "upsert"} /\ r = record

Pending(r, t) ==
    \E i \in DOMAIN mappings :
        /\ mappings[i].enabled /\ mappings[i].site = t
        /\ i = 1 => AtHand(r)

\* While nothing has failed, each record that was fetched has reached a target, or
\* is still on its way there.
OnItsWay ==
    (pc \in {"mapping", "cleanup"} \/ InLoop) /\ log.status = "Success" =>
        \A r \in changed, t \in TargetsOf(def) : r.key \in KeysOf(sites[t]) \/ Pending(r, t)

\* The key of a record whose target row was found is there.
FoundKey ==
    pc \in {"capture", "upsert"} /\ existing # Null => record.key \in KeysOf(sites[Target])

ArrivedInv == MappingsInv /\ FoundKey /\ OnItsWay

LEMMA FoundKeyThere ==
    ASSUME NEW site, NEW key, NEW found \in FindRecordBySyncKey(site, key), found # Null
    PROVE  key \in KeysOf(site)
<1>1. MatchingRows(site, key) # {}
  BY DEF FindRecordBySyncKey
<1> QED BY <1>1 DEF MatchingRows, KeysOf

LEMMA StepFoundKey ==
    ASSUME TypeInv, FoundKey, [Next]_vars
    PROVE  FoundKey'
<1> SUFFICES ASSUME pc' \in {"capture", "upsert"}, existing' # Null
             PROVE  record'.key \in KeysOf(sites'[Target'])
  BY DEF FoundKey
<1>1. LocalOK /\ Control
  BY DEF TypeInv
<1>2. CASE Stays \/ Captures
  <2>1. /\ pc \in {"capture", "upsert"} /\ existing # Null /\ record' = record
        /\ Target' = Target /\ mappings # << >>
    BY <1>1, <1>2 DEF Stays, Captures, local, Target, Control
  <2>2. Target \in Sites
    BY <1>1, <2>1, TargetTyped DEF LocalOK
  <2> QED BY <2>1, <2>2, StepRemembers DEF FoundKey
<1>3. ASSUME NEW r \in todo, TakesUp(r) PROVE record'.key \in KeysOf(sites'[Target'])
  <2>1. pc = "record" /\ Target' = Target /\ Target \in Sites
    BY <1>1, <1>3, TargetTyped DEF TakesUp, local, Target, Control, LocalOK
  <2>2. PICK found \in FindRecordBySyncKey(sites[Target], r.key) : FindsTarget(r, found)
    BY <1>3 DEF TakesUp
  <2>3. record' = r /\ existing' = found
    BY <2>2 DEF FindsTarget, NextRecord
  <2>4. r.key \in KeysOf(sites[Target])
    BY <2>2, <2>3, FoundKeyThere
  <2> QED BY <2>1, <2>3, <2>4, StepRemembers
<1> QED BY <1>2, <1>3, StepFlow
        DEF Flow, Return, Aborts, Abort, GivesUp, GiveUp, NextRecord, Starts, ExecuteSync, Prepares,
            Fetches, EnterMapping, LeaveMappings, LeaveRecords, LeaveDeletions, TakesUpDeleted,
            FindsDeleted, Inserts, Processes, Updates, FetchesDeletions, Cleans

\* An inserted row has the key of the record when the key is copied.
LEMMA InsertedKeyThere ==
    ASSUME KeysAreCopied, TypeInv, MappingsInv, Inserts
    PROVE  record.key \in KeysOf(sites'[Target])
<1>1. /\ pc = "upsert" /\ def \in Definitions /\ record \in Row
      /\ mappings # << >> /\ mappings \in Seq(Mapping)
  BY DEF Inserts, TypeInv, Control, LocalOK
<1>2. Head(mappings) = mappings[1] /\ 1 \in DOMAIN mappings
  BY <1>1, TailParts
<1>3. "Key" \in EffectiveColumns
  BY <1>1, <1>2 DEF MappingsInv, InLoop, RecordLoop, KeysAreCopied, EffectiveColumns, Definition
<1>4. FilteredRecord.key = record.key
  BY <1>1, <1>3, FilterTyped DEF FilteredRecord
<1> QED BY <1>4 DEF Inserts, Inserted, KeysOf

LEMMA StepOnItsWay ==
    ASSUME KeysAreCopied, TypeInv, ArrivedInv, [Next]_vars
    PROVE  OnItsWay'
<1> SUFFICES ASSUME pc' \in {"mapping", "cleanup"} \/ InLoop', log'.status = "Success",
                    NEW r \in changed', NEW t \in TargetsOf(def')
             PROVE  r.key \in KeysOf(sites'[t]) \/ Pending(r, t)'
  BY DEF OnItsWay
<1> DEFINE There == r.key \in KeysOf(sites'[t]) \/ Pending(r, t)'
<1>0. LocalOK /\ Control /\ log \in LogEntry /\ mappings \in Seq(Mapping) /\ def' \in Definitions
  BY StepTypeInv DEF TypeInv, LocalOK, LogInv, Control, InLoop, RecordLoop, DeletionLoop
<1>1. t \in Sites
  <2> DEFINE ms == Config[def'].mappings
  <2>1. ms \in Seq(Mapping)
    BY <1>0, ConfigParts
  <2>2. PICK i \in DOMAIN ms : t = ms[i].site
    BY DEF TargetsOf
  <2> HIDE DEF ms
  <2>3. ms[i] \in Mapping
    BY <2>1
  <2> QED BY <2>2, <2>3 DEF Mapping
<1>2. CASE Return \/ Aborts \/ Starts \/ Prepares \/ Cleans
  BY <1>2 DEF Return, Aborts, Abort, Starts, ExecuteSync, Prepares, Cleans, InLoop, RecordLoop,
              DeletionLoop
<1>3. CASE GivesUp
  BY <1>0, <1>3 DEF GivesUp, GiveUp, NextRecord, LogEntry
<1>4. CASE Fetches
  <2>1. PICK j \in DOMAIN Definition.mappings :
           Definition.mappings[j].enabled /\ Definition.mappings[j].site = t
    BY <1>4 DEF Fetches, TargetsOf, Definition
  <2>2. mappings' = Definition.mappings /\ pc' = "mapping"
    BY <1>4 DEF Fetches, ArrivedInv, MappingsInv
  <2> QED BY <2>1, <2>2 DEF Pending, AtHand
<1>5. ASSUME UNCHANGED <<def, changed>>, log.status = "Success", pc \in {"mapping", "cleanup"} \/ InLoop,
             ASSUME NEW i \in DOMAIN mappings, mappings[i].enabled, mappings[i].site = t,
                    i = 1 => AtHand(r)
             PROVE  There
      PROVE  There
  <2>1. r.key \in KeysOf(sites[t]) \/ Pending(r, t)
    BY <1>5 DEF ArrivedInv, OnItsWay
  <2>2. CASE r.key \in KeysOf(sites[t])
    BY <1>1, <2>2, StepRemembers
  <2> QED BY <1>5, <2>1, <2>2 DEF Pending
\* The mapping stays what it is, and the record in hand if it was.
<1>6. ASSUME UNCHANGED <<def, changed, mappings>>, log'.status = log.status,
             pc \in {"mapping", "cleanup"} \/ InLoop,
             AtHand(r) /\ mappings # << >> /\ t = Target => AtHand(r)' \/ r.key \in KeysOf(sites'[t])
      PROVE  There
  <2>1. ASSUME NEW i \in DOMAIN mappings, mappings[i].enabled, mappings[i].site = t,
               i = 1 => AtHand(r)
        PROVE  There
    <3>1. i = 1 => mappings # << >> /\ t = Target
      BY <1>0, <2>1, TailParts DEF Target
    <3> QED BY <1>6, <2>1, <3>1 DEF Pending
  <2> QED BY <1>5, <1>6, <2>1
\* The mapping is done with, and so is the record.
<1>7. ASSUME UNCHANGED <<def, changed, log>>, mappings # << >>, mappings' = Tail(mappings),
             pc \in {"mapping", "cleanup"} \/ InLoop, pc' = "mapping",
             ~ mappings[1].enabled \/ ~ AtHand(r)
      PROVE  There
  <2>1. ASSUME NEW i \in DOMAIN mappings, mappings[i].enabled, mappings[i].site = t,
               i = 1 => AtHand(r)
        PROVE  There
    <3>1. i - 1 \in DOMAIN mappings' /\ mappings'[i - 1] = mappings[i]
      BY <1>0, <1>7, <2>1, TailParts
    <3> QED BY <1>7, <2>1, <3>1 DEF Pending, AtHand
  <2> QED BY <1>5, <1>7, <2>1
<1> SUFFICES There
  OBVIOUS
<1> HIDE DEF There
<1>8. CASE Stays
  BY <1>6, <1>8 DEF Stays, local, AtHand, InLoop
<1>9. CASE EnterMapping
  <2>1. CASE Head(mappings).enabled
    BY <1>6, <1>9, <2>1 DEF EnterMapping, AtHand, RecordLoop
  <2>2. CASE ~ Head(mappings).enabled
    <3>1. mappings # << >> /\ ~ mappings[1].enabled
      BY <1>0, <1>9, <2>2, TailParts DEF EnterMapping
    <3> QED BY <1>7, <1>9, <2>2, <3>1 DEF EnterMapping
  <2> QED BY <2>1, <2>2
<1>10. CASE LeaveMappings
  BY <1>6, <1>10 DEF LeaveMappings, local
<1>11. CASE LeaveRecords
  BY <1>6, <1>11 DEF LeaveRecords, local, AtHand, InLoop, RecordLoop
<1>12. CASE LeaveDeletions
  <2>1. mappings # << >> /\ ~ AtHand(r) /\ InLoop
    BY <1>0, <1>12 DEF LeaveDeletions, Control, AtHand, InLoop, RecordLoop, DeletionLoop
  <2> QED BY <1>7, <1>12, <2>1 DEF LeaveDeletions
<1>13. ASSUME NEW q \in todo, TakesUp(q) PROVE There
  <2>1. /\ pc = "record" /\ InLoop /\ todo' = todo \ {q} /\ UNCHANGED <<def, changed, mappings>>
        /\ log'.status = log.status
    BY <1>13 DEF TakesUp, local, InLoop, RecordLoop
  <2>2. PICK found \in FindRecordBySyncKey(sites[Target], q.key) : FindsTarget(q, found)
    BY <1>13 DEF TakesUp
  <2>3. CASE pc' \in {"capture", "upsert"} /\ record' = q
    BY <1>6, <2>1, <2>3 DEF AtHand, RecordLoop
  <2>4. CASE pc' = "record" /\ found # Null
    <3>1. q.key \in KeysOf(sites[Target])
      BY <2>4, FoundKeyThere
    <3>2. t = Target => q.key \in KeysOf(sites'[t])
      BY <1>1, <3>1, StepRemembers
    <3> QED BY <1>6, <2>1, <2>4, <3>2 DEF AtHand, RecordLoop
  <2> QED BY <2>2, <2>3, <2>4 DEF FindsTarget, NextRecord, AfterFind
<1>14. ASSUME NEW q \in todo, TakesUpDeleted(q) PROVE There
  BY <1>6, <1>14 DEF TakesUpDeleted, local, AtHand, InLoop, RecordLoop, DeletionLoop
<1>15. CASE Captures
  BY <1>6, <1>15 DEF Captures, local, AtHand, InLoop, RecordLoop, DeletionLoop
<1>16. CASE Inserts
  <2>1. t = Target => record.key \in KeysOf(sites'[t])
    BY <1>16, InsertedKeyThere DEF ArrivedInv
  <2> QED BY <1>6, <1>16, <2>1 DEF Inserts, Processes, local, AtHand, InLoop, RecordLoop
<1>17. CASE Updates
  <2>1. t = Target => record.key \in KeysOf(sites'[t])
    BY <1>1, <1>17, StepRemembers DEF Updates, ArrivedInv, FoundKey
  <2> QED BY <1>6, <1>17, <2>1 DEF Updates, local, AtHand, InLoop, RecordLoop
<1>18. CASE pc = "retain" /\ Processes("record")
  BY <1>6, <1>18 DEF Processes, local, AtHand, InLoop, RecordLoop
<1>19. CASE pc = "delete" /\ Processes("deletion")
  BY <1>6, <1>19 DEF Processes, local, AtHand, InLoop, RecordLoop, DeletionLoop
<1>20. CASE FetchesDeletions
  BY <1>6, <1>20 DEF FetchesDeletions, local, AtHand, InLoop, RecordLoop
<1> QED
  BY <1>2, <1>3, <1>4, <1>8, <1>9, <1>10, <1>11, <1>12, <1>13, <1>14, <1>15, <1>16, <1>17, <1>18,
     <1>19, <1>20, StepFlow DEF Flow, There

\* When the loops end without an error, every record that was fetched has a row
\* with its key in every enabled target, or that key was deleted meanwhile: a
\* conflict, a retry after a crash or a change by a user in between loses none.
\* It needs the sync key to be among the columns that are copied.
THEOREM SuccessIsTrue ==
    ASSUME KeysAreCopied
    PROVE  Spec => []SuccessMeansPresent
<1>1. Init => ArrivedInv
  BY DEF Init, ArrivedInv, MappingsInv, FoundKey, OnItsWay, InLoop, RecordLoop, DeletionLoop
<1>2. TypeInv /\ ArrivedInv /\ [Next]_vars => ArrivedInv'
  BY StepMappings, StepFoundKey, StepOnItsWay DEF ArrivedInv
<1>3. TypeInv /\ ArrivedInv => SuccessMeansPresent
  <2> SUFFICES ASSUME TypeInv, ArrivedInv, pc = "cleanup", log.status = "Success",
                      NEW r \in changed, NEW t \in TargetsOf(def)
               PROVE  \/ \E q \in sites[t].rows : q.key = r.key
                      \/ \E q \in sites[Definition.source].deleted \cup sites[t].deleted : q.key = r.key
    BY DEF SuccessMeansPresent
  <2>1. r.key \in KeysOf(sites[t]) \/ Pending(r, t)
    BY DEF ArrivedInv, OnItsWay
  <2>2. ~ Pending(r, t)
    BY DEF Pending, ArrivedInv, MappingsInv
  <2> QED BY <2>1, <2>2 DEF KeysOf
<1> QED BY <1>1, <1>2, <1>3, InitTypeInv, StepTypeInv, PTL DEF Spec
-------------------------------------------------------------------------------
\* Without a fault there is no failure.

\* No statement is one that the server rejects: the effective columns of each
\* target are some, without the title.
StatementsAccepted ==
    \A d \in Definitions : \A i \in DOMAIN Config[d].mappings :
        Config[d].mappings[i].enabled =>
            LET columns == GetEffectiveColumns(Config[d].rules, Config[d].mappings[i].exclude)
            IN  InsertAccepted(columns) /\ UpdateAccepted(columns)

\* Nothing is left in the context by which a later SaveChanges could fail.
QuietInv ==
    /\ FaultFreeSyncSucceeds
    /\ faults = 0 /\ ~ cancelled => tracker = EmptyTracker
    /\ pc = "idle" => log = NewLogEntry

\* A new snapshot can be saved by a context that tracks nothing else.
LEMMA SnapshotCanBeSaved ==
    ASSUME NEW h, NEW t, StoreOK(h, t), NEW e, e.ver = NextVersion(h, e.rec)
    PROVE  CanSave(h, TrackAdded(EmptyTracker, e))
<1> DEFINE one == TrackAdded(EmptyTracker, e)
<1>1. one.added = <<e>> /\ one.deleted = {}
  <2>1. \A added : /\ [EmptyTracker EXCEPT !.added = added].added = added
                   /\ [EmptyTracker EXCEPT !.added = added].deleted = {}
    BY DEF EmptyTracker
  <2>2. EmptyTracker.added = << >>
    BY DEF EmptyTracker
  <2>3. one.added = Append(<< >>, e) /\ one.deleted = {}
    BY <2>1, <2>2, Zenon DEF TrackAdded
  <2>4. Append(<< >>, e) = <<e>>
    OBVIOUS
  <2> QED BY <2>3, <2>4
<1> HIDE DEF one
<1>2. DOMAIN one.added = {1} /\ one.added[1] = e
  BY <1>1
<1>3. PICK b \in Nat : \A f \in h \cup AddedEntries(t) : f.ver <= b
  BY DEF StoreOK
<1>4. \A f \in h : f.ver \in Nat /\ f.ver <= b
  BY <1>3 DEF StoreOK, Snapshot
<1>5. \A f \in HistoryOf(h, e.rec) : f.ver < NextVersion(h, e.rec)
  BY <1>4, NextVersionIsAbove
<1>6. \A f \in h : ~ SameNumber(f, e)
  BY <1>4, <1>5 DEF SameNumber, HistoryOf
<1>7. CanSave(h, one)
  BY <1>1, <1>2, <1>6 DEF CanSave, IndexAdmits
<1> QED BY <1>7 DEF one

\* So can the deletion of entries that are there.
LEMMA DeletionCanBeSaved ==
    ASSUME NEW h, NEW d \in SUBSET h
    PROVE  CanSave(h, TrackDeleted(EmptyTracker, d))
<1>1. TrackDeleted(EmptyTracker, d).added = << >> /\ TrackDeleted(EmptyTracker, d).deleted = d
  BY DEF EmptyTracker, TrackDeleted
<1> QED BY <1>1 DEF CanSave, IndexAdmits

\* The statement that is about to be sent is accepted.
LEMMA StatementAccepted ==
    ASSUME StatementsAccepted, TypeInv, MappingsInv, pc = "upsert"
    PROVE  InsertAccepted(EffectiveColumns) /\ UpdateAccepted(EffectiveColumns)
<1>1. def \in Definitions /\ mappings # << >> /\ mappings \in Seq(Mapping)
  BY DEF TypeInv, Control, LocalOK
<1>2. Head(mappings) = mappings[1] /\ 1 \in DOMAIN mappings /\ mappings[1].enabled
  BY <1>1, TailParts DEF MappingsInv, InLoop, RecordLoop
<1> QED BY <1>1, <1>2 DEF MappingsInv, StatementsAccepted, EffectiveColumns, Definition

\* While nothing fails and nobody asks to stop, nothing throws.
LEMMA NothingThrows ==
    ASSUME TypeInv, faults' = 0, ~ cancelled
    PROVE  ~ Throws /\ ~ Fault /\ (Completes \/ UNCHANGED faults => faults = 0)
BY BoundsTyped DEF TypeInv, WorldOK, Throws, Fault, Completes

LEMMA StepQuiet ==
    ASSUME StatementsAccepted, TypeInv, MappingsInv, QuietInv, [Next]_vars, faults' = 0, ~ cancelled'
    PROVE  log'.status = "Success" /\ tracker' = EmptyTracker
<1>1. log \in LogEntry /\ StoreOK(history, tracker) /\ Control
  BY DEF TypeInv, LogInv
<1>2. NewLogEntry.status = "Success"
  BY DEF NewLogEntry
<1>3. ASSUME ~ cancelled, faults = 0 PROVE log.status = "Success" /\ tracker = EmptyTracker
  BY <1>3 DEF QuietInv, FaultFreeSyncSucceeds
<1>4. CASE UNCHANGED <<cancelled, faults, tracker>> /\ log' \in {log, NewLogEntry}
  BY <1>2, <1>3, <1>4
<1>5. CASE DropScope /\ log' = NewLogEntry
  BY <1>2, <1>5 DEF DropScope
\* Everything in ExecuteSyncAsync.
<1>6. ASSUME UNCHANGED cancelled, Completes \/ UNCHANGED faults
      PROVE  ~ Throws /\ ~ Fault /\ log.status = "Success" /\ tracker = EmptyTracker
  BY <1>3, <1>6, NothingThrows
<1>7. CASE NewScope
  BY <1>3, <1>7, NothingThrows DEF NewScope, DropScope, world
<1>8. ASSUME NEW d \in Definitions, ExecuteSync(d)
      PROVE  log'.status = "Success" /\ tracker' = EmptyTracker
  BY <1>4, <1>8 DEF ExecuteSync, store
<1>9. ASSUME UNCHANGED world
      PROVE  /\ ~ Throws /\ ~ Fault /\ ~ cancelled
             /\ Completes \/ UNCHANGED faults
                   => log.status = "Success" /\ tracker = EmptyTracker
  BY <1>3, <1>9, NothingThrows DEF world
<1>10. CASE GetReferenceType \/ FetchChanges
  BY <1>9, <1>10 DEF GetReferenceType, FetchChanges, store
<1>11. CASE EnterMapping \/ LeaveMappings \/ LeaveRecords \/ LeaveDeletions
  BY <1>9, <1>11 DEF EnterMapping, LeaveMappings, LeaveRecords, LeaveDeletions, store
<1>12. CASE StopInLoop
  BY <1>9, <1>12 DEF StopInLoop
<1>13. CASE FindTarget
  <2>1. ~ Throws /\ UNCHANGED store
    BY <1>9, <1>13 DEF FindTarget
  <2>2. Completes /\ log' \in {log, [log EXCEPT !.conflicts = @ + 1]}
    BY <1>13, <2>1 DEF FindTarget, NextRecord
  <2>3. log'.status = log.status
    BY <1>1, <2>2 DEF LogEntry
  <2> QED BY <1>9, <1>13, <2>1, <2>2, <2>3 DEF FindTarget, store
<1>14. CASE FindDeleted
  <2>1. ~ Throws /\ UNCHANGED <<world, store>>
    BY <1>9, <1>14 DEF FindDeleted
  <2>2. Completes /\ UNCHANGED log
    BY <1>14, <2>1 DEF FindDeleted, NextRecord
  <2> QED BY <1>9, <2>1, <2>2 DEF store
<1>15. ASSUME NEW isDelete, NEW next, NEW loop, Capture(isDelete, next, loop)
       PROVE  log'.status = "Success" /\ tracker' = EmptyTracker
  <2> DEFINE e == SnapshotOf(existing, isDelete)
  <2>1. UNCHANGED world /\ ~ Throws
    BY <1>9, <1>15 DEF Capture
  <2>2. Completes \/ UNCHANGED faults
    BY <1>15, <2>1 DEF Capture, Saves, SaveThrows
  <2>3. log.status = "Success" /\ tracker = EmptyTracker
    BY <1>9, <2>1, <2>2
  <2>4. e.ver = NextVersion(history, e.rec)
    BY DEF SnapshotOf
  <2> HIDE DEF e
  <2>5. CanSave(history, TrackAdded(tracker, e))
    BY <1>1, <2>3, <2>4, SnapshotCanBeSaved
  <2>6. Saves(TrackAdded(tracker, e)) /\ UNCHANGED log
    BY <1>15, <2>1, <2>5 DEF Capture, SaveThrows, e
  <2> QED BY <2>3, <2>6 DEF Saves
<1>16. CASE CaptureSnapshot \/ CaptureDeleteSnapshot
  BY <1>15, <1>16 DEF CaptureSnapshot, CaptureDeleteSnapshot
<1>17. CASE UpsertRecord
  <2>1. pc = "upsert" /\ UNCHANGED <<cancelled, store>>
    BY <1>17 DEF UpsertRecord
  <2>2. ~ cancelled /\ ~ Throws
    BY <2>1, NothingThrows
  <2>3. /\ Completes
        /\ log' \in {[log EXCEPT !.inserted = @ + 1, !.processed = @ + 1], [log EXCEPT !.updated = @ + 1]}
    BY <1>17, <2>1, <2>2, StatementAccepted DEF UpsertRecord, NextRecord
  <2>4. log'.status = log.status
    BY <1>1, <2>3 DEF LogEntry
  <2> QED BY <1>6, <2>1, <2>3, <2>4 DEF store
<1>18. CASE DeleteTarget
  <2>1. UNCHANGED <<cancelled, store>> /\ ~ Throws
    BY <1>18, NothingThrows DEF DeleteTarget
  <2>2. Completes /\ log' = [log EXCEPT !.deleted = @ + 1, !.processed = @ + 1]
    BY <1>18, <2>1 DEF DeleteTarget, NextRecord
  <2>3. log'.status = log.status
    BY <1>1, <2>2 DEF LogEntry
  <2> QED BY <1>6, <2>1, <2>2, <2>3 DEF store
<1>19. ASSUME UNCHANGED world, NEW d \in SUBSET history,
              Saves(TrackDeleted(tracker, d)) \/ SaveThrows(TrackDeleted(tracker, d))
       PROVE  /\ log.status = "Success" /\ tracker' = EmptyTracker
              /\ ~ SaveThrows(TrackDeleted(tracker, d))
  <2>1. ~ Throws
    BY <1>9, <1>19
  <2>2. Completes \/ UNCHANGED faults
    BY <1>19, <2>1 DEF Saves, SaveThrows
  <2>3. log.status = "Success" /\ tracker = EmptyTracker
    BY <1>9, <1>19, <2>2
  <2>4. CanSave(history, TrackDeleted(tracker, d))
    BY <2>3, DeletionCanBeSaved
  <2> QED BY <1>19, <2>1, <2>3, <2>4 DEF Saves, SaveThrows
<1>20. CASE ApplyRetentionForRecord
  <2> DEFINE excess == Excess(history, <<def, Target, existing.id>>, Definition.maxVersions)
  <2>1. excess \in SUBSET history
    BY DEF Excess, HistoryOf
  <2>2. /\ UNCHANGED world /\ ~ Throws
        /\ [log EXCEPT !.processed = @ + 1].status = log.status
    BY <1>1, <1>9, <1>20 DEF ApplyRetentionForRecord, LogEntry
  <2>3. CASE Saves(TrackDeleted(tracker, excess)) \/ SaveThrows(TrackDeleted(tracker, excess))
    BY <1>19, <1>20, <2>1, <2>2, <2>3 DEF ApplyRetentionForRecord, NextRecord
  <2>4. CASE ~ (Saves(TrackDeleted(tracker, excess)) \/ SaveThrows(TrackDeleted(tracker, excess)))
    BY <1>9, <1>20, <2>2, <2>4 DEF ApplyRetentionForRecord, NextRecord, store
  <2> QED BY <2>3, <2>4
<1>21. CASE FetchDeletions
  BY <1>9, <1>21 DEF FetchDeletions, store
<1>22. CASE Cleanup
  <2> DEFINE old == OlderThan({h \in history : h.rec[1] = def}, clock - Definition.maxAge)
  <2>1. old \in SUBSET history
    BY DEF OlderThan
  <2>2. UNCHANGED world /\ ~ Throws
    BY <1>9, <1>22 DEF Cleanup
  <2>3. CASE Saves(TrackDeleted(tracker, old)) \/ SaveThrows(TrackDeleted(tracker, old))
    BY <1>19, <1>22, <2>1, <2>2, <2>3 DEF Cleanup
  <2>4. CASE ~ (Saves(TrackDeleted(tracker, old)) \/ SaveThrows(TrackDeleted(tracker, old)))
    BY <1>9, <1>22, <2>2, <2>4 DEF Cleanup, store
  <2> QED BY <2>3, <2>4
<1>23. CASE LogWritten
  BY <1>2, <1>23 DEF LogWritten, Saves, Return
<1>24. CASE LogLost \/ Crash
  BY <1>5, <1>24 DEF LogLost, Crash, Return
<1>25. CASE Restart
  BY <1>5, <1>25 DEF Restart, QuietInv
<1>26. CASE UserStep
  BY <1>4, <1>26 DEF UserStep, UserCreatesRow, UserUpdatesRow, UserDeletesRow, EditSite,
                     engineVars, store
<1>27. CASE Tick \/ UNCHANGED vars
  BY <1>4, <1>27 DEF Tick, vars, engineVars, world, store
<1>28. CASE Stop
  BY <1>28 DEF Stop
<1> QED BY <1>7, <1>8, <1>10, <1>11, <1>12, <1>13, <1>14, <1>16, <1>17, <1>18, <1>20, <1>21, <1>22,
           <1>23, <1>24, <1>25, <1>26, <1>27, <1>28
        DEF Next, EngineStep, Environment

\* Between two synchronisations there is no entry.
LEMMA StepIdleLog ==
    ASSUME TypeInv, pc = "idle" => log = NewLogEntry, [Next]_vars, pc' = "idle"
    PROVE  log' = NewLogEntry
BY StepFlow
   DEF Flow, Stays, Return, Aborts, Abort, GivesUp, GiveUp, NextRecord, Starts, ExecuteSync,
       Prepares, Fetches, EnterMapping, LeaveMappings, LeaveRecords, LeaveDeletions, TakesUp,
       TakesUpDeleted, FindsTarget, FindsDeleted, AfterFind, Captures, Inserts, Processes, Updates,
       FetchesDeletions, Cleans

\* A synchronisation in which no call fails and nobody asks to stop reports no
\* failure: the engine does not fail by itself, because each snapshot it adds has a
\* number that is free and what it deletes is there.  It needs definitions whose
\* statements the server accepts.
THEOREM NoFailureWithoutFault ==
    ASSUME StatementsAccepted
    PROVE  Spec => []FaultFreeSyncSucceeds
<1>1. Init => MappingsInv /\ QuietInv
  BY DEF Init, MappingsInv, QuietInv, FaultFreeSyncSucceeds, NewLogEntry, InLoop, RecordLoop,
         DeletionLoop
<1>2. TypeInv /\ MappingsInv /\ QuietInv /\ [Next]_vars => MappingsInv' /\ QuietInv'
  BY StepMappings, StepQuiet, StepIdleLog DEF QuietInv, FaultFreeSyncSucceeds
<1>3. QuietInv => FaultFreeSyncSucceeds
  BY DEF QuietInv
<1> QED BY <1>1, <1>2, <1>3, InitTypeInv, StepTypeInv, PTL DEF Spec
-------------------------------------------------------------------------------
\* What is deleted, under any definitions and any users.

\* An enabled mapping of the definition writes to the site.
WritesTo(d, s) ==
    \E i \in DOMAIN Config[d].mappings : Config[d].mappings[i].enabled /\ Config[d].mappings[i].site = s

\* The id of a row is its own, and the next one is none of them.
OwnIds(site) ==
    \A r \in site.rows : /\ r.id < site.nextId
                         /\ \A q \in site.rows : r.id = q.id => r = q

\* The keys of the rows that are there.
RowKeys(site) == {r.key : r \in site.rows}

\* What was deleted in the source since the start of the change window.
Deletions == GetDeletedRecords(sites[Definition.source], lastSyncTime)

\* What the deletion loop works on was deleted in the window, and the target row at
\* hand has the key it was looked up by, or is gone: its id is not given again.
DeadInv ==
    /\ pc \in DeletionLoop => todo \subseteq Deletions
    /\ pc \in DeletionLoop \ {"deletion"} =>
          /\ record \in Deletions
          /\ existing.id < sites[Target].nextId
          /\ \A q \in sites[Target].rows : q.id = existing.id => q.key = record.key

DeletionInv == MappingsInv /\ (\A s \in Sites : OwnIds(sites[s])) /\ DeadInv

\* A loop writes to the site of an enabled mapping.
LEMMA LoopSites ==
    ASSUME TypeInv, MappingsInv, InLoop
    PROVE  /\ def \in Definitions /\ Target \in Sites /\ Definition.source \in Sites
           /\ WritesTo(def, Target)
<1>1. def \in Definitions /\ mappings # << >> /\ mappings \in Seq(Mapping)
  BY DEF TypeInv, Control, LocalOK, InLoop, RecordLoop, DeletionLoop, MappingsInv
<1>2. Head(mappings) = mappings[1] /\ 1 \in DOMAIN mappings /\ mappings[1].enabled
  BY <1>1, TailParts DEF MappingsInv
<1>3. PICK j \in DOMAIN Definition.mappings : mappings[1] = Definition.mappings[j]
  BY <1>2 DEF MappingsInv, InLoop, RecordLoop, DeletionLoop
<1>4. WritesTo(def, Target)
  BY <1>2, <1>3 DEF WritesTo, Target, Definition
<1>5. Target \in Sites /\ Definition.source \in Sites
  BY <1>1, TargetTyped, ConfigParts DEF Definition
<1> QED BY <1>1, <1>4, <1>5

LEMMA StepIds ==
    ASSUME TypeInv, [Next]_vars, NEW s \in Sites, OwnIds(sites[s])
    PROVE  OwnIds(sites'[s])
<1>1. /\ \A r \in sites[s].rows : r.id \in Nat
      /\ sites[s].nextId \in Nat
  BY SiteParts, RowParts DEF TypeInv, WorldOK
<1>2. ASSUME NEW key, NEW u, Inserted(sites[s], sites'[s], key, u) PROVE OwnIds(sites'[s])
  BY <1>1, <1>2 DEF Inserted, OwnIds
<1>3. ASSUME NEW u, Rewritten(sites[s], sites'[s], u) PROVE OwnIds(sites'[s])
  BY <1>3 DEF Rewritten, OwnIds
<1>4. ASSUME NEW id, Removed(sites[s], sites'[s], id) PROVE OwnIds(sites'[s])
  BY <1>4 DEF Removed, OwnIds
<1>5. ASSUME NEW r \in sites[s].rows, Replaced(sites[s], sites'[s], r) PROVE OwnIds(sites'[s])
  BY <1>5 DEF Replaced, OwnIds
<1>6. ASSUME NEW r \in sites[s].rows, Buried(sites[s], sites'[s], r) PROVE OwnIds(sites'[s])
  BY <1>6 DEF Buried, OwnIds
<1>7. CASE EngineWrites
  BY <1>2, <1>3, <1>4, <1>7 DEF EngineWrites
<1>8. ASSUME NEW t \in Sites, UserWrites(t) PROVE OwnIds(sites'[s])
  BY <1>2, <1>5, <1>6, <1>8 DEF UserWrites
<1> QED BY <1>7, <1>8, StepSites

\* Deleted rows stay deleted.
LEMMA StepDeleted ==
    ASSUME TypeInv, [Next]_vars, NEW s \in Sites
    PROVE  sites[s].deleted \subseteq sites'[s].deleted
<1>1. CASE EngineWrites
  BY <1>1 DEF EngineWrites, Inserted, Rewritten, Removed
<1>2. ASSUME NEW t \in Sites, UserWrites(t) PROVE sites[s].deleted \subseteq sites'[s].deleted
  BY <1>2 DEF UserWrites, Inserted, Replaced, Buried
<1> QED BY <1>1, <1>2, StepSites

\* Users leave the row with an id its key, and an id that was given.
LEMMA UsersKeepFound ==
    ASSUME NEW s \in Sites, sites[s] \in Site, NEW t \in Sites, UserWrites(t),
           NEW id, NEW key, id < sites[s].nextId, id \in Nat,
           \A q \in sites[s].rows : q.id = id => q.key = key
    PROVE  /\ id < sites'[s].nextId
           /\ \A q \in sites'[s].rows : q.id = id => q.key = key
<1>1. sites[s].nextId \in Nat
  BY SiteParts
<1>2. ASSUME NEW k, Inserted(sites[s], sites'[s], k, User)
      PROVE  /\ id < sites'[s].nextId
             /\ \A q \in sites'[s].rows : q.id = id => q.key = key
  BY <1>1, <1>2 DEF Inserted
<1>3. ASSUME NEW r \in sites[s].rows, Replaced(sites[s], sites'[s], r) \/ Buried(sites[s], sites'[s], r)
      PROVE  /\ id < sites'[s].nextId
             /\ \A q \in sites'[s].rows : q.id = id => q.key = key
  BY <1>3 DEF Replaced, Buried
<1> QED BY <1>2, <1>3 DEF UserWrites

\* The deletion loop takes up a row of the source that was deleted there.
LEMMA TakesUpDead ==
    ASSUME TypeInv, DeletionInv, NEW r \in todo, TakesUpDeleted(r), pc' # "deletion"
    PROVE  /\ pc' \in {"captureDelete", "delete"}
           /\ record' = r /\ r \in Deletions
           /\ r.key \in RowKeys(sites[Target]) /\ existing'.id < sites[Target].nextId
           /\ \A q \in sites[Target].rows : q.id = existing'.id => q.key = record'.key
<1>1. PICK found \in FindRecordBySyncKey(sites[Target], r.key) : FindsDeleted(r, found)
  BY DEF TakesUpDeleted
<1>2. found # Null /\ record' = r /\ existing' = found /\ pc' \in {"captureDelete", "delete"}
  BY <1>1 DEF FindsDeleted, NextRecord
<1>3. PICK q0 \in sites[Target].rows : r.key # Null /\ q0.key = r.key /\ found = BaseRecord(q0)
  BY <1>1, <1>2 DEF FindRecordBySyncKey, MatchingRows
<1>4. Target \in Sites /\ r \in Deletions
  BY LoopSites DEF TakesUpDeleted, DeletionInv, DeadInv, InLoop, DeletionLoop
<1>5. q0 \in Row
  BY <1>4, SiteParts DEF TypeInv, WorldOK
<1>6. existing'.id = q0.id
  BY <1>2, <1>3, <1>5 DEF BaseRecord, Row
<1>7. /\ existing'.id < sites[Target].nextId
      /\ \A q \in sites[Target].rows : q.id = existing'.id => q.key = r.key
  BY <1>3, <1>4, <1>6 DEF DeletionInv, OwnIds
<1> QED BY <1>2, <1>3, <1>4, <1>7 DEF RowKeys

LEMMA StepDead ==
    ASSUME TypeInv, DeletionInv, [Next]_vars
    PROVE  DeadInv'
<1>1. DeadInv /\ MappingsInv
  BY DEF DeletionInv
<1>2. ASSUME pc' \notin DeletionLoop PROVE DeadInv'
  BY <1>2 DEF DeadInv
\* A step inside or into the deletion loop.
<1>3. ASSUME pc \in DeletionLoop \cup {"deletions"}, UNCHANGED local,
             pc' \in DeletionLoop => todo' \subseteq Deletions,
             pc' \in DeletionLoop \ {"deletion"} =>
                /\ record' \in Deletions
                /\ existing'.id < sites'[Target].nextId
                /\ \A q \in sites'[Target].rows : q.id = existing'.id => q.key = record'.key
      PROVE  DeadInv'
  <2>1. Definition' = Definition /\ Target' = Target
    BY <1>3 DEF local, Definition, Target
  <2>2. Definition.source \in Sites
    BY <1>1, <1>3, LoopSites DEF InLoop
  <2>3. Deletions \subseteq Deletions'
    BY <1>3, <2>1, <2>2, StepDeleted DEF Deletions, GetDeletedRecords, local
  <2> QED BY <1>3, <2>1, <2>3 DEF DeadInv
<1>4. CASE Stays
  <2>1. CASE pc \in DeletionLoop \ {"deletion"}
    <3>1. Target \in Sites /\ sites[Target] \in Site
      BY <1>1, <2>1, LoopSites DEF InLoop, TypeInv, WorldOK
    <3>2. existing.id \in Nat
      BY <2>1 DEF TypeInv, Control, LocalOK, DeletionLoop, Row
    <3>3. UNCHANGED sites \/ \E t \in Sites : UserWrites(t)
      BY <1>4, StepSites DEF Stays, EngineWrites
    <3>4. /\ existing.id < sites'[Target].nextId
          /\ \A q \in sites'[Target].rows : q.id = existing.id => q.key = record.key
      BY <1>1, <2>1, <3>1, <3>2, <3>3, UsersKeepFound DEF DeadInv
    <3> QED BY <1>1, <1>3, <1>4, <2>1, <3>4 DEF Stays, DeadInv
  <2>2. CASE pc = "deletion"
    BY <1>1, <1>3, <1>4, <2>2 DEF Stays, DeadInv, DeletionLoop
  <2>3. CASE pc \notin DeletionLoop
    BY <1>2, <1>4, <2>3 DEF Stays
  <2> QED BY <2>1, <2>2, <2>3
<1>5. ASSUME NEW r \in todo, TakesUpDeleted(r) PROVE DeadInv'
  <2>1. pc = "deletion" /\ UNCHANGED local /\ todo' \subseteq Deletions
    BY <1>1, <1>5 DEF TakesUpDeleted, DeadInv, DeletionLoop
  <2>2. UNCHANGED sites \/ pc' = "deletion"
    BY <2>1, StepSites DEF EngineWrites, UserWrites, engineVars
  <2> QED BY <1>3, <1>5, <2>1, <2>2, TakesUpDead DEF DeletionLoop
<1>6. CASE Captures
  <2>1. UNCHANGED sites
    BY <1>6, StepSites DEF Captures, EngineWrites, UserWrites, engineVars
  <2>2. CASE pc' = "upsert"
    BY <1>2, <2>2 DEF DeletionLoop
  <2>3. CASE pc = "captureDelete"
    BY <1>1, <1>3, <1>6, <2>1, <2>3 DEF Captures, DeadInv, DeletionLoop
  <2> QED BY <1>6, <2>2, <2>3 DEF Captures
<1>7. CASE pc = "delete" /\ Processes("deletion")
  BY <1>1, <1>3, <1>7 DEF Processes, DeadInv, DeletionLoop
<1>8. CASE FetchesDeletions
  BY <1>3, <1>8 DEF FetchesDeletions, Deletions, DeletionLoop
<1>9. CASE GivesUp
  <2>1. CASE pc \in RecordLoop /\ GiveUp("record")
    BY <1>2, <2>1 DEF GiveUp, NextRecord, DeletionLoop
  <2>2. CASE pc \in DeletionLoop /\ GiveUp("deletion")
    BY <1>1, <1>3, <1>9, <2>2 DEF GivesUp, GiveUp, NextRecord, DeadInv, DeletionLoop
  <2> QED BY <1>9, <2>1, <2>2 DEF GivesUp
<1>10. CASE Return \/ Aborts \/ Starts \/ Prepares \/ Fetches
  BY <1>2, <1>10 DEF Return, Aborts, Abort, Starts, ExecuteSync, Prepares, Fetches, DeletionLoop
<1>11. CASE EnterMapping \/ LeaveMappings \/ LeaveRecords \/ LeaveDeletions \/ Cleans
  BY <1>2, <1>11 DEF EnterMapping, LeaveMappings, LeaveRecords, LeaveDeletions, Cleans, DeletionLoop
<1>12. CASE Inserts \/ Updates \/ (pc = "retain" /\ Processes("record"))
  BY <1>2, <1>12 DEF Inserts, Updates, Processes, DeletionLoop
<1>13. ASSUME NEW r \in todo, TakesUp(r) PROVE DeadInv'
  BY <1>2, <1>13 DEF TakesUp, FindsTarget, NextRecord, AfterFind, DeletionLoop
<1> QED BY <1>4, <1>5, <1>6, <1>7, <1>8, <1>9, <1>10, <1>11, <1>12, <1>13, StepFlow DEF Flow

LEMMA StepDeletion == TypeInv /\ DeletionInv /\ [Next]_vars => DeletionInv'
BY StepMappings, StepIds, StepDead DEF DeletionInv, OwnIds

LEMMA InitDeletion == Init => DeletionInv
BY DEF Init, EmptySite, DeletionInv, MappingsInv, OwnIds, DeadInv, InLoop, RecordLoop, DeletionLoop

\* What a DELETE takes away had a key that was deleted in the window.
LEMMA DeletesTheDead ==
    ASSUME TypeInv, DeletionInv, [Next]_vars, pc = "delete", pc' = "deletion",
           NEW r \in sites[Target].rows \ sites'[Target].rows
    PROVE  r.key = record.key /\ record \in Deletions
<1>1. EngineWrites
  BY StepSites DEF UserWrites, engineVars
<1> QED BY <1>1 DEF EngineWrites, Removed, DeletionInv, DeadInv, DeletionLoop

\* Whatever the definitions and the users, and however often a key is used again: a
\* target row is deleted only in answer to a deletion of its key in the source since
\* the start of the change window, although lookup and DELETE are separate calls.
THEOREM DeletionsAreAnswered == Spec => DeletesAnswerDeletions
<1>1. ASSUME TypeInv, DeletionInv, [Next]_vars, pc = "delete", pc' = "deletion",
             NEW r \in sites[Target].rows \ sites'[Target].rows
      PROVE  \E q \in sites[Definition.source].deleted : q.key = r.key /\ q.time > lastSyncTime
  BY <1>1, DeletesTheDead DEF Deletions, GetDeletedRecords
<1>2. TypeInv /\ DeletionInv /\ [Next]_vars
         => [pc = "delete" /\ pc' = "deletion" =>
                \A r \in sites[Target].rows \ sites'[Target].rows :
                    \E q \in sites[Definition.source].deleted :
                        q.key = r.key /\ q.time > lastSyncTime]_vars
  BY <1>1
<1> QED BY <1>2, StepDeletion, InitDeletion, InitTypeInv, StepTypeInv, PTL
        DEF Spec, DeletesAnswerDeletions

-------------------------------------------------------------------------------
\* Sites that users work on, and sites that only the engine writes.

\* Users work on some sites, each row gets a sync key of its own, and each
\* definition connects a site that users work on with sites they do not work on,
\* in either direction.  One that reads a site users do not work on has the sync
\* user of those that write there, whose rows its query is to leave out.
OneSideEdited ==
    /\ ~ ReuseKeys
    /\ Editors \cup Deleters \subseteq Creators
    /\ \A d, e \in Definitions :
          Config[d].source \notin Creators /\ WritesTo(e, Config[d].source)
             => Config[d].syncUser = Config[e].syncUser
    /\ \A d \in Definitions : \A i \in DOMAIN Config[d].mappings :
          Config[d].mappings[i].enabled =>
             (Config[d].mappings[i].site \in Creators <=> Config[d].source \notin Creators)

\* In a site that users work on each row has a sync key of its own, and it is not
\* the key of a deleted row.
OwnKeys(site) ==
    /\ \A r \in site.rows : r.key # Null /\ \A q \in site.deleted : r.key # q.key
    /\ \A r, q \in site.rows : r.key = q.key => r = q

\* These sites share no key, and what the engine deleted elsewhere is dead here.
AuthorInv ==
    \A s \in Creators :
        /\ OwnKeys(sites[s])
        /\ \A t \in Creators \ {s} : KeysOf(sites[s]) \cap KeysOf(sites[t]) = {}
        /\ \A t \in Sites \ Creators : \A r \in sites[s].rows, q \in sites[t].deleted : r.key # q.key

\* The rows of the other sites are rows of the sync user to a definition that
\* reads them.
CopyInv ==
    \A d \in Definitions : Config[d].source \notin Creators =>
        \A r \in sites[Config[d].source].rows : r.updator = Config[d].syncUser

\* So only what users did is copied, and only what they deleted is deleted.
SourceInv ==
    /\ pc \in {"idle", "prepare", "fetch"} => changed = {}
    /\ pc # "idle" /\ Definition.source \notin Creators => changed = {}
    /\ pc \in RecordLoop => todo \subseteq changed
    /\ pc \in RecordLoop \ {"record"} => Definition.source \in Creators
    /\ pc \in DeletionLoop \ {"deletion"} => Definition.source \in Creators

DirectedInv == DeletionInv /\ AuthorInv /\ CopyInv /\ SourceInv

\* A loop takes rows from one side to the other.
LEMMA OtherSide ==
    ASSUME OneSideEdited, TypeInv, MappingsInv, InLoop
    PROVE  /\ def \in Definitions /\ Target \in Sites /\ Definition.source \in Sites
           /\ Target \in Creators <=> Definition.source \notin Creators
           /\ WritesTo(def, Target)
BY LoopSites DEF OneSideEdited, WritesTo, Definition

\* The engine never writes where users work.
LEMMA WritesElsewhere ==
    ASSUME OneSideEdited, TypeInv, DirectedInv, EngineWrites
    PROVE  Target \in Sites \ Creators
<1>1. pc \in {"upsert", "delete"}
  BY DEF EngineWrites
<1>2. InLoop /\ Definition.source \in Creators
  BY <1>1 DEF InLoop, DirectedInv, SourceInv, RecordLoop, DeletionLoop
<1> QED BY <1>2, OtherSide DEF DirectedInv, DeletionInv

\* Users work nowhere else.
LEMMA UsersWriteHere ==
    ASSUME OneSideEdited, NEW s \in Sites, UserWrites(s)
    PROVE  s \in Creators
BY DEF OneSideEdited, UserWrites

\* What a user does to a site leaves each row its own key.

LEMMA InsertedOwnKeys ==
    ASSUME NEW site, NEW after, OwnKeys(site), NEW key, NEW u, Inserted(site, after, key, u),
           key # Null, key \notin KeysOf(site)
    PROVE  /\ OwnKeys(after)
           /\ KeysOf(after) = KeysOf(site) \cup {key} /\ RowKeys(after) = RowKeys(site) \cup {key}
BY DEF Inserted, OwnKeys, KeysOf, RowKeys

LEMMA ReplacedOwnKeys ==
    ASSUME NEW site, NEW after, OwnKeys(site), NEW r \in site.rows, Replaced(site, after, r)
    PROVE  OwnKeys(after) /\ KeysOf(after) = KeysOf(site) /\ RowKeys(after) = RowKeys(site)
BY DEF Replaced, OwnKeys, KeysOf, RowKeys

LEMMA BuriedOwnKeys ==
    ASSUME NEW site, NEW after, OwnKeys(site), NEW r \in site.rows, Buried(site, after, r)
    PROVE  OwnKeys(after) /\ KeysOf(after) = KeysOf(site) /\ RowKeys(after) \subseteq RowKeys(site)
BY DEF Buried, OwnKeys, KeysOf, RowKeys
\* The keys a user's step adds to a site are new everywhere.
LEMMA UserKeys ==
    ASSUME OneSideEdited, AuthorInv, NEW s \in Creators, UserWrites(s)
    PROVE  /\ OwnKeys(sites'[s])
           /\ \E new : /\ KeysOf(sites'[s]) = KeysOf(sites[s]) \cup new
                       /\ RowKeys(sites'[s]) \subseteq RowKeys(sites[s]) \cup new
                       /\ \A t \in Sites : new \cap KeysOf(sites[t]) = {}
<1>1. OwnKeys(sites[s]) /\ s \in Sites
  BY ConfigAssumption DEF AuthorInv, ConfigAssumption
<1> DEFINE Goal == /\ OwnKeys(sites'[s])
                   /\ \E new : /\ KeysOf(sites'[s]) = KeysOf(sites[s]) \cup new
                               /\ RowKeys(sites'[s]) \subseteq RowKeys(sites[s]) \cup new
                               /\ \A t \in Sites : new \cap KeysOf(sites[t]) = {}
<1>2. ASSUME NEW k \in Keys, \A other \in Sites : k \notin KeysOf(sites[other]),
             Inserted(sites[s], sites'[s], k, User)
      PROVE  Goal
  <2>1. k # Null
    BY ConfigAssumption DEF ConfigAssumption
  <2>2. /\ OwnKeys(sites'[s])
        /\ KeysOf(sites'[s]) = KeysOf(sites[s]) \cup {k}
        /\ RowKeys(sites'[s]) = RowKeys(sites[s]) \cup {k}
    BY <1>1, <1>2, <2>1, InsertedOwnKeys
  <2>3. \A t \in Sites : {k} \cap KeysOf(sites[t]) = {}
    BY <1>2
  <2> QED BY <2>2, <2>3
<1>3. ASSUME OwnKeys(sites'[s]), KeysOf(sites'[s]) = KeysOf(sites[s]),
             RowKeys(sites'[s]) \subseteq RowKeys(sites[s])
      PROVE  Goal
  <2>1. /\ KeysOf(sites'[s]) = KeysOf(sites[s]) \cup {}
        /\ RowKeys(sites'[s]) \subseteq RowKeys(sites[s]) \cup {}
        /\ \A t \in Sites : {} \cap KeysOf(sites[t]) = {}
    BY <1>3
  <2> QED BY <1>3, <2>1
<1> HIDE DEF Goal
<1>4. ASSUME NEW r \in sites[s].rows, Replaced(sites[s], sites'[s], r) PROVE Goal
  BY <1>1, <1>3, <1>4, ReplacedOwnKeys
<1>5. ASSUME NEW r \in sites[s].rows, Buried(sites[s], sites'[s], r) PROVE Goal
  BY <1>1, <1>3, <1>5, BuriedOwnKeys
<1>6. Goal
  BY <1>2, <1>4, <1>5 DEF UserWrites, OneSideEdited
<1> QED BY <1>6 DEF Goal

\* AuthorInv by the keys of rows.
DeadKeys(site) == {q.key : q \in site.deleted}

LEMMA AuthorByKeys ==
    AuthorInv <=> \A s \in Creators :
        /\ OwnKeys(sites[s])
        /\ \A t \in Creators \ {s} : KeysOf(sites[s]) \cap KeysOf(sites[t]) = {}
        /\ \A t \in Sites \ Creators : RowKeys(sites[s]) \cap DeadKeys(sites[t]) = {}
BY DEF AuthorInv, RowKeys, DeadKeys

\* What is about to be deleted has no row where users work.
LEMMA DeletedIsDead ==
    ASSUME OneSideEdited, TypeInv, DirectedInv, pc = "delete", NEW s \in Creators
    PROVE  record.key \notin RowKeys(sites[s])
<1>1. /\ Definition.source \in Creators
      /\ record \in sites[Definition.source].deleted
  BY DEF DirectedInv, SourceInv, DeletionInv, DeadInv, DeletionLoop, Deletions, GetDeletedRecords
<1>2. CASE s = Definition.source
  BY <1>1, <1>2 DEF DirectedInv, AuthorInv, OwnKeys, RowKeys
<1>3. CASE s # Definition.source
  <2>1. record.key \in KeysOf(sites[Definition.source])
    BY <1>1 DEF KeysOf
  <2>2. RowKeys(sites[s]) \subseteq KeysOf(sites[s])
    BY DEF RowKeys, KeysOf
  <2>3. KeysOf(sites[s]) \cap KeysOf(sites[Definition.source]) = {}
    BY <1>1, <1>3 DEF DirectedInv, AuthorInv
  <2> QED BY <2>1, <2>2, <2>3
<1> QED BY <1>2, <1>3

LEMMA StepAuthor ==
    ASSUME OneSideEdited, TypeInv, DirectedInv, [Next]_vars
    PROVE  AuthorInv'
<1>1. AuthorInv /\ Creators \subseteq Sites
  BY ConfigAssumption DEF DirectedInv, ConfigAssumption
<1>2. CASE UNCHANGED sites
  BY <1>1, <1>2 DEF AuthorInv
<1>3. CASE EngineWrites
  <2>1. Target \in Sites \ Creators
    BY <1>3, WritesElsewhere
  <2>2. \A s \in Creators : sites'[s] = sites[s]
    BY <1>1, <1>3, <2>1 DEF EngineWrites
  <2>3. ASSUME NEW t \in Sites \ Creators, NEW s \in Creators
        PROVE  RowKeys(sites[s]) \cap DeadKeys(sites'[t]) = {}
    <3>1. RowKeys(sites[s]) \cap DeadKeys(sites[t]) = {}
      BY <1>1, AuthorByKeys
    <3>2. CASE sites'[t].deleted = sites[t].deleted
      BY <3>1, <3>2 DEF DeadKeys
    <3>3. CASE pc = "delete" /\ t = Target /\ Removed(sites[t], sites'[t], existing.id)
      <4>1. \A q \in sites[t].rows : q.id = existing.id => q.key = record.key
        BY <3>3 DEF DirectedInv, DeletionInv, DeadInv, DeletionLoop
      <4>2. DeadKeys(sites'[t]) \subseteq DeadKeys(sites[t]) \cup {record.key}
        BY <3>3, <4>1 DEF Removed, DeadKeys
      <4> QED BY <3>1, <3>3, <4>2, DeletedIsDead
    <3> QED BY <1>3, <3>2, <3>3 DEF EngineWrites, Inserted, Rewritten
  <2>4. AuthorInv'
    <3>1. \A s \in Creators :
             /\ OwnKeys(sites'[s])
             /\ \A t \in Creators \ {s} : KeysOf(sites'[s]) \cap KeysOf(sites'[t]) = {}
             /\ \A t \in Sites \ Creators : RowKeys(sites'[s]) \cap DeadKeys(sites'[t]) = {}
      BY <1>1, <2>2, <2>3, AuthorByKeys
    <3> QED BY <3>1 DEF AuthorInv, RowKeys, DeadKeys
  <2> QED BY <2>4
<1>4. ASSUME NEW s \in Sites, UserWrites(s) PROVE AuthorInv'
  <2>1. s \in Creators
    BY <1>4, UsersWriteHere
  <2>2. PICK new : /\ KeysOf(sites'[s]) = KeysOf(sites[s]) \cup new
                   /\ RowKeys(sites'[s]) \subseteq RowKeys(sites[s]) \cup new
                   /\ \A t \in Sites : new \cap KeysOf(sites[t]) = {}
    BY <1>1, <1>4, <2>1, UserKeys
  <2>3. OwnKeys(sites'[s])
    BY <1>1, <1>4, <2>1, UserKeys
  <2>4. \A t \in Sites \ {s} : sites'[t] = sites[t]
    BY <1>4 DEF UserWrites
  <2>5. \A c \in Creators : OwnKeys(sites'[c])
    BY <1>1, <2>3, <2>4 DEF AuthorInv
  <2>6. ASSUME NEW c \in Creators, NEW t \in Creators \ {c}
        PROVE  KeysOf(sites'[c]) \cap KeysOf(sites'[t]) = {}
    <3>1. KeysOf(sites[c]) \cap KeysOf(sites[t]) = {}
      BY <1>1 DEF AuthorInv
    <3> QED BY <1>1, <2>2, <2>4, <3>1
  <2>7. ASSUME NEW c \in Creators, NEW t \in Sites \ Creators
        PROVE  RowKeys(sites'[c]) \cap DeadKeys(sites'[t]) = {}
    <3>1. RowKeys(sites[c]) \cap DeadKeys(sites[t]) = {}
      BY <1>1, AuthorByKeys
    <3>2. DeadKeys(sites[t]) \subseteq KeysOf(sites[t])
      BY DEF DeadKeys, KeysOf
    <3> QED BY <1>1, <2>1, <2>2, <2>4, <3>1, <3>2
  <2> QED BY <2>5, <2>6, <2>7 DEF AuthorInv, RowKeys, DeadKeys
<1> QED BY <1>2, <1>3, <1>4, StepSites

LEMMA StepCopy ==
    ASSUME OneSideEdited, TypeInv, DirectedInv, [Next]_vars
    PROVE  CopyInv'
<1> SUFFICES ASSUME NEW d \in Definitions, NEW s \in Sites \ Creators, s = Config[d].source,
                    NEW r \in sites'[s].rows
             PROVE  r.updator = Config[d].syncUser
  BY ConfigParts DEF CopyInv
<1>1. \A q \in sites[s].rows : q.updator = Config[d].syncUser
  BY DEF DirectedInv, CopyInv
<1>2. CASE sites'[s].rows \subseteq sites[s].rows
  BY <1>1, <1>2
<1>3. CASE EngineWrites
  <2>1. CASE s # Target
    BY <1>2, <1>3, <2>1 DEF EngineWrites
  <2>2. CASE s = Target /\ Removed(sites[s], sites'[s], existing.id)
    BY <1>2, <2>2 DEF Removed
  <2>3. CASE pc = "upsert" /\ s = Target
    <3>1. Definition.syncUser = Config[d].syncUser
      <4>1. def \in Definitions /\ WritesTo(def, s)
        BY <2>3, OtherSide DEF DirectedInv, DeletionInv, InLoop, RecordLoop
      <4> QED BY <4>1 DEF OneSideEdited, Definition
    <3>2. CASE s = Target /\ Inserted(sites[s], sites'[s], FilteredRecord.key, Definition.syncUser)
      BY <1>1, <3>1, <3>2 DEF Inserted
    <3>3. CASE s = Target /\ Rewritten(sites[s], sites'[s], Definition.syncUser)
      BY <1>1, <3>1, <3>3 DEF Rewritten
    <3> QED BY <1>3, <2>1, <2>2, <3>2, <3>3 DEF EngineWrites
  <2> QED BY <1>3, <2>1, <2>2, <2>3 DEF EngineWrites
<1>4. ASSUME NEW t \in Sites, UserWrites(t) PROVE r.updator = Config[d].syncUser
  BY <1>2, <1>4, UsersWriteHere DEF UserWrites
<1> QED BY <1>2, <1>3, <1>4, StepSites
\* Nothing is fetched from a site that only the engine writes.
LEMMA NothingFetched ==
    ASSUME CopyInv, TypeInv, Fetches, Definition.source \notin Creators
    PROVE  changed' = {}
<1>1. def \in Definitions /\ Definition.source \in Sites
  BY ConfigParts DEF TypeInv, Control, Fetches, Definition
<1>2. \A r \in sites[Definition.source].rows : r.updator = Definition.syncUser
  BY <1>1 DEF CopyInv, Definition
<1> QED BY <1>2 DEF Fetches, GetChangedRecords

\* A deletion is taken up only for a row that a user deleted.
LEMMA TakesUpUsers ==
    ASSUME OneSideEdited, TypeInv, DirectedInv, NEW r \in todo, TakesUpDeleted(r), pc' # "deletion"
    PROVE  Definition.source \in Creators
<1>1. r \in sites[Definition.source].deleted /\ r.key \in RowKeys(sites[Target])
  BY TakesUpDead DEF DirectedInv, Deletions, GetDeletedRecords
<1>2. /\ Target \in Sites /\ Definition.source \in Sites
      /\ Target \in Creators <=> Definition.source \notin Creators
  BY OtherSide DEF TakesUpDeleted, DirectedInv, DeletionInv, InLoop, DeletionLoop
<1> QED BY <1>1, <1>2 DEF DirectedInv, AuthorInv, RowKeys

LEMMA StepSource ==
    ASSUME OneSideEdited, TypeInv, DirectedInv, [Next]_vars
    PROVE  SourceInv'
<1>1. SourceInv /\ CopyInv
  BY DEF DirectedInv
\* Outside the loops only the fetched records matter.
<1>2. ASSUME pc' \notin RecordLoop \cup DeletionLoop,
             pc' \in {"idle", "prepare", "fetch"} => changed' = {},
             pc' # "idle" /\ Definition'.source \notin Creators => changed' = {}
      PROVE  SourceInv'
  BY <1>2 DEF SourceInv, RecordLoop, DeletionLoop
<1>3. ASSUME pc # "idle", UNCHANGED <<def, changed>>
      PROVE  /\ Definition' = Definition
             /\ Definition'.source \notin Creators => changed' = {}
  BY <1>1, <1>3 DEF Definition, SourceInv
\* A step inside or into the record loop.
<1>4. ASSUME pc # "idle", UNCHANGED <<def, changed>>, pc' \in RecordLoop, todo' \subseteq changed,
             pc' = "record" \/ Definition.source \in Creators
      PROVE  SourceInv'
  BY <1>3, <1>4 DEF SourceInv, RecordLoop, DeletionLoop
\* A step inside or into the deletion loop.
<1>5. ASSUME pc \in DeletionLoop \cup {"deletions"}, UNCHANGED local, pc' \in DeletionLoop,
             pc' = "deletion" \/ Definition.source \in Creators
      PROVE  SourceInv'
  <2>1. UNCHANGED <<def, changed>> /\ pc # "idle"
    BY <1>5 DEF local, DeletionLoop
  <2> QED BY <1>3, <1>5, <2>1 DEF SourceInv, RecordLoop, DeletionLoop
<1>6. CASE Stays
  BY <1>1, <1>6 DEF Stays, local, Definition, SourceInv
<1>7. CASE Return
  BY <1>2, <1>7 DEF Return, RecordLoop, DeletionLoop
<1>8. CASE Aborts \/ LeaveMappings \/ LeaveRecords \/ LeaveDeletions \/ Cleans
  BY <1>2, <1>3, <1>8 DEF Aborts, Abort, LeaveMappings, LeaveRecords, LeaveDeletions, Cleans, local,
                          RecordLoop, DeletionLoop
<1>9. CASE Starts \/ Prepares
  <2>1. changed' = {} /\ pc' \in {"prepare", "fetch"}
    BY <1>1, <1>9 DEF Starts, ExecuteSync, Prepares, SourceInv
  <2> QED BY <1>2, <2>1 DEF RecordLoop, DeletionLoop
<1>10. CASE Fetches
  <2>1. pc' = "mapping" /\ Definition' = Definition
    BY <1>10 DEF Fetches, Definition
  <2>2. Definition'.source \notin Creators => changed' = {}
    BY <1>1, <1>10, <2>1, NothingFetched
  <2> QED BY <1>2, <2>1, <2>2 DEF RecordLoop, DeletionLoop
<1>11. CASE EnterMapping
  <2>1. CASE todo' = changed /\ pc' = "record"
    BY <1>4, <1>11, <2>1 DEF EnterMapping, RecordLoop
  <2>2. CASE UNCHANGED pc
    BY <1>2, <1>3, <1>11, <2>2 DEF EnterMapping, RecordLoop, DeletionLoop
  <2> QED BY <1>11, <2>1, <2>2 DEF EnterMapping
<1>12. ASSUME NEW r \in todo, TakesUp(r) PROVE SourceInv'
  <2>1. /\ pc = "record" /\ UNCHANGED <<def, changed>> /\ todo' \subseteq changed /\ r \in changed
        /\ pc' \in RecordLoop
    BY <1>1, <1>12
       DEF TakesUp, SourceInv, FindsTarget, NextRecord, AfterFind, local, RecordLoop
  <2>2. Definition.source \in Creators
    BY <1>1, <2>1 DEF SourceInv
  <2> QED BY <1>4, <2>1, <2>2
<1>13. ASSUME NEW r \in todo, TakesUpDeleted(r) PROVE SourceInv'
  <2>1. pc = "deletion" /\ UNCHANGED local /\ pc' \in DeletionLoop
    BY <1>13 DEF TakesUpDeleted, FindsDeleted, NextRecord, DeletionLoop
  <2> QED BY <1>5, <1>13, <2>1, TakesUpUsers DEF DeletionLoop
<1>14. CASE Captures
  <2>1. CASE pc = "capture"
    BY <1>1, <1>4, <1>14, <2>1 DEF Captures, SourceInv, local, RecordLoop
  <2>2. CASE pc = "captureDelete"
    BY <1>1, <1>5, <1>14, <2>2 DEF Captures, SourceInv, DeletionLoop
  <2> QED BY <1>14, <2>1, <2>2 DEF Captures
<1>15. CASE Inserts \/ Updates \/ (pc = "retain" /\ Processes("record"))
  BY <1>1, <1>4, <1>15 DEF Inserts, Updates, Processes, SourceInv, local, RecordLoop
<1>16. CASE pc = "delete" /\ Processes("deletion")
  BY <1>1, <1>5, <1>16 DEF Processes, SourceInv, DeletionLoop
<1>17. CASE FetchesDeletions
  BY <1>5, <1>17 DEF FetchesDeletions, DeletionLoop
<1>18. CASE GivesUp
  <2>1. CASE pc \in RecordLoop /\ GiveUp("record")
    BY <1>1, <1>4, <1>18, <2>1 DEF GivesUp, GiveUp, NextRecord, SourceInv, local, RecordLoop
  <2>2. CASE pc \in DeletionLoop /\ GiveUp("deletion")
    BY <1>1, <1>5, <1>18, <2>2 DEF GivesUp, GiveUp, NextRecord, SourceInv, DeletionLoop
  <2> QED BY <1>18, <2>1, <2>2 DEF GivesUp
<1> QED BY <1>6, <1>7, <1>8, <1>9, <1>10, <1>11, <1>12, <1>13, <1>14, <1>15, <1>16, <1>17, <1>18,
           StepFlow DEF Flow

LEMMA StepDirected ==
    ASSUME OneSideEdited, TypeInv, DirectedInv, [Next]_vars
    PROVE  DirectedInv'
BY StepDeletion, StepAuthor, StepCopy, StepSource DEF DirectedInv

LEMMA InitDirected == Init => DirectedInv
<1> SUFFICES ASSUME Init PROVE DirectedInv
  OBVIOUS
<1>1. \A s \in Sites : sites[s].rows = {} /\ sites[s].deleted = {}
  BY DEF Init, EmptySite
<1>2. SourceInv
  BY DEF Init, SourceInv, RecordLoop, DeletionLoop
<1>3. AuthorInv
  BY <1>1, ConfigAssumption DEF AuthorInv, OwnKeys, KeysOf, ConfigAssumption
<1>4. CopyInv
  BY <1>1, ConfigParts DEF CopyInv
<1> QED BY <1>2, <1>3, <1>4, InitDeletion DEF DirectedInv

\* Definitions that synchronise in opposite directions, between sites that users
\* work on and sites they do not, do not feed each other: what the engine wrote
\* in one never comes back, so the rows that users work on are changed by them
\* alone.
THEOREM NothingComesBack ==
    ASSUME OneSideEdited
    PROVE  Spec => NoEcho
<1>1. ASSUME TypeInv, DirectedInv, [Next]_vars, pc # pc', NEW s \in Creators
      PROVE  sites'[s] = sites[s]
  <2>1. s \in Sites
    BY ConfigAssumption DEF ConfigAssumption
  <2>2. CASE EngineWrites
    BY <1>1, <2>1, <2>2, WritesElsewhere DEF EngineWrites
  <2>3. \A t \in Sites : ~ UserWrites(t)
    BY <1>1 DEF UserWrites, engineVars
  <2> QED BY <1>1, <2>2, <2>3, StepSites
<1>2. TypeInv /\ DirectedInv /\ [Next]_vars
         => [pc # pc' => \A s \in Creators : sites'[s] = sites[s]]_vars
  BY <1>1
<1>3. TypeInv /\ DirectedInv /\ [Next]_vars => DirectedInv'
  BY StepDirected
<1> QED BY <1>2, <1>3, InitDirected, InitTypeInv, StepTypeInv, PTL DEF Spec, NoEcho

-------------------------------------------------------------------------------
\* The worker: a caller that SyncEngine allows, so what is shown above of the engine
\* under any caller holds under the worker; and what the worker adds.

LEMMA EnabledTyped ==
    ASSUME NEW enabled \in Enabled
    PROVE  enabled \subseteq Definitions
BY WorkerAssumption DEF WorkerAssumption

LEMMA DelaysTyped == IdleDelay \in Nat /\ RetryDelay \in Nat
BY WorkerAssumption DEF WorkerAssumption

\* A set of numbers that is not empty has a smallest member, and Min is it.
LEMMA MinOfNumbers ==
    ASSUME NEW S \in SUBSET Nat, S # {}
    PROVE  Min(S) \in Nat
<1> DEFINE Less == OpToRel(<, Nat)
<1>1. \A x, y \in Nat : x < y => <<x, y>> \in Less
  BY Zenon DEF OpToRel
<1>2. PICK m \in S : \A n \in S : ~ (<<n, m>> \in Less)
  <2>1. IsWellFoundedOn(Less, Nat)
    BY NatLessThanWellFounded, Zenon
  <2> HIDE DEF Less
  <2> QED BY <2>1, WFMin, Zenon
<1> HIDE DEF Less
<1>3. \A n \in S : m <= n
  <2> SUFFICES ASSUME NEW n \in S, n < m PROVE FALSE
    OBVIOUS
  <2>1. <<n, m>> \in Less
    BY <1>1
  <2> QED BY <1>2, <2>1
<1>4. \E x \in S : \A y \in S : x <= y
  BY <1>3
<1> QED BY <1>4 DEF Min

\* The step of the engine a step of the worker is.
LEMMA WorkerStepIsEngineStep ==
    ASSUME due \subseteq Definitions, [WorkerNext]_workerVars
    PROVE  [Next]_vars
<1>1. CASE StartCycle
  BY <1>1 DEF StartCycle, Next
<1>2. CASE RunDefinition
  BY <1>2 DEF RunDefinition, Next
<1>3. CASE DefinitionDone \/ DefinitionFails
  BY <1>3 DEF DefinitionDone, DefinitionFails, EngineStep, Next
<1>4. CASE EndCycle \/ Wake \/ LeaveLoop
  BY <1>4 DEF EndCycle, Wake, LeaveLoop
<1>5. CASE FetchStep \/ InnerStep
  BY <1>5 DEF FetchStep, InnerStep, EngineStep, Next
<1>6. CASE RestartService \/ CrashService
  BY <1>6 DEF RestartService, CrashService, Environment, Next
<1>7. CASE WorldStep
  BY <1>7 DEF WorldStep, Environment, Next
<1>8. CASE Horizon \/ UNCHANGED workerVars
  BY <1>8 DEF Horizon, workerVars
<1> QED BY <1>1, <1>2, <1>3, <1>4, <1>5, <1>6, <1>7, <1>8 DEF WorkerNext, WorkerStep

\* The definitions of a cycle are definitions.
LEMMA DueTyped ==
    ASSUME due \subseteq Definitions, [WorkerNext]_workerVars
    PROVE  due' \subseteq Definitions
<1>1. CASE StartCycle
  BY <1>1, EnabledTyped DEF StartCycle
<1>2. CASE due' \in {due, {}, due \ {def}}
  BY <1>2
<1> QED BY <1>1, <1>2 DEF WorkerNext, WorkerStep, RunDefinition, DefinitionDone, DefinitionFails,
        EndCycle, Wake, LeaveLoop, FetchStep, InnerStep, RestartService, CrashService, WorldStep,
        Horizon, workerVars, worker

\* Whatever the loop of the worker does, the engine is called as SyncEngine allows.
THEOREM WorkerCallsEngine == WorkerSpec => Spec
<1>1. WorkerInit => Init /\ due \subseteq Definitions
  BY DEF WorkerInit
<1>2. due \subseteq Definitions /\ [WorkerNext]_workerVars
         => [Next]_vars /\ (due \subseteq Definitions)'
  BY WorkerStepIsEngineStep, DueTyped
<1> QED BY <1>1, <1>2, PTL DEF WorkerSpec, Spec

\* What holds of the engine for every configuration holds under the worker: its
\* invariants, and that it deletes only what was deleted in the source.
THEOREM WorkerKeepsEngineInvariants ==
    WorkerSpec => /\ [](TypeOK /\ LogAdds /\ SnapshotFirst /\ NoDuplicateKeys)
                  /\ DeletesAnswerDeletions
BY WorkerCallsEngine, EngineTypeCorrect, CountersAgree, SnapshotsComeFirst, KeysStayUnique,
   DeletionsAreAnswered, PTL

\* What holds of it for a class of configurations holds under the worker for the
\* same class: success means that what was fetched is there, without a fault there
\* is no failure, and between sites of which users work on some nothing comes back.
THEOREM WorkerKeepsEnginePromises ==
    /\ KeysAreCopied => (WorkerSpec => []SuccessMeansPresent)
    /\ StatementsAccepted => (WorkerSpec => []FaultFreeSyncSucceeds)
    /\ OneSideEdited => (WorkerSpec => NoEcho)
<1>1. ASSUME KeysAreCopied PROVE WorkerSpec => []SuccessMeansPresent
  BY <1>1, WorkerCallsEngine, SuccessIsTrue, PTL
<1>2. ASSUME StatementsAccepted PROVE WorkerSpec => []FaultFreeSyncSucceeds
  BY <1>2, WorkerCallsEngine, NoFailureWithoutFault, PTL
<1>3. ASSUME OneSideEdited PROVE WorkerSpec => NoEcho
  BY <1>3, WorkerCallsEngine, NothingComesBack, PTL
<1> QED BY <1>1, <1>2, <1>3

-------------------------------------------------------------------------------
\* Type correctness.
LEMMA IntervalTyped ==
    ASSUME NEW ds \in SUBSET Definitions, ds # {}
    PROVE  MinInterval(ds) \in Nat
<1> DEFINE S == {Config[d].interval : d \in ds}
<1>1. \A d \in ds : Config[d].interval \in Nat
  BY ConfigParts
<1>2. S \in SUBSET Nat /\ S # {}
  BY <1>1
<1> HIDE DEF S
<1>3. Min(S) \in Nat
  BY <1>2, MinOfNumbers
<1> QED BY <1>3 DEF MinInterval, S

LEMMA StepWorkerType ==
    ASSUME TypeOK, WorkerTypeOK, [WorkerNext]_workerVars
    PROVE  WorkerTypeOK'
<1>1. clock \in Nat /\ IdleDelay \in Nat /\ RetryDelay \in Nat
  BY BoundsTyped, DelaysTyped DEF TypeOK
<1>2. due' \subseteq Definitions
  BY DueTyped DEF WorkerTypeOK
<1>3. ASSUME NEW ticks \in Nat, Wait(ticks)
      PROVE  phase' = "wait" /\ wakeAt' \in Nat
  BY <1>1, <1>3 DEF Wait
<1>4. CASE StartCycle
  <2>1. \A enabled \in Enabled : enabled # {} => MinInterval(enabled) \in Nat
    BY EnabledTyped, IntervalTyped
  <2> QED BY <1>1, <1>2, <1>3, <1>4, <2>1 DEF StartCycle, WorkerTypeOK
<1>5. CASE DefinitionFails
  BY <1>1, <1>2, <1>3, <1>5 DEF DefinitionFails, WorkerTypeOK
<1>6. CASE EndCycle
  BY <1>1, <1>2, <1>3, <1>6 DEF EndCycle, WorkerTypeOK
<1>7. CASE FetchStep
  <2>1. seen' \in [Definitions -> Nat \cup {Null}]
    BY <1>1, <1>7 DEF FetchStep, WorkerTypeOK
  <2> QED BY <1>2, <1>7, <2>1 DEF FetchStep, worker, WorkerTypeOK
<1>8. CASE phase' \in {phase, "cycle", "stopped"} /\ UNCHANGED <<delay, wakeAt, seen>>
  BY <1>2, <1>8 DEF WorkerTypeOK
<1> QED BY <1>4, <1>5, <1>6, <1>7, <1>8
        DEF WorkerNext, WorkerStep, RunDefinition, DefinitionDone, Wake, LeaveLoop, InnerStep,
            RestartService, CrashService, WorldStep, Horizon, workerVars, worker

\* The state of the loop is of its type: the wait it ends a cycle with is a number
\* because the interval of every definition is.
THEOREM WorkerTypeCorrect == WorkerSpec => []WorkerTypeOK
<1>1. WorkerInit => WorkerTypeOK
  BY DEF WorkerInit, WorkerTypeOK
<1>2. TypeOK /\ WorkerTypeOK /\ [WorkerNext]_workerVars => WorkerTypeOK'
  BY StepWorkerType
<1>3. WorkerSpec => []TypeOK
  BY WorkerKeepsEngineInvariants, PTL
<1> QED BY <1>1, <1>2, <1>3, PTL DEF WorkerSpec

-------------------------------------------------------------------------------
\* An engine without memory.  In a cycle the engine remembers a time for a
\* definition only once it has prepared it, and then the definition is the
\* current one or is done.
ColdInv ==
    /\ pc # "idle" => phase = "run" /\ def \in due
    /\ phase = "run" => \A d \in due :
          lastSyncTimes[d] # Null => d = def /\ pc \notin {"idle", "prepare"}

\* Only these steps of the engine touch what it remembers.
LEMMA MemoryKept ==
    ASSUME EngineStep, pc # "writeLog", pc # "idle",
           lastSyncTimes \in [Definitions -> Int \cup {Null}]
    PROVE  /\ pc' \notin {"idle", "prepare"} /\ def' = def
           /\ \A d \in Definitions : d # def => lastSyncTimes'[d] = lastSyncTimes[d]
<1>1. CASE GetReferenceType \/ FetchChanges
  BY <1>1 DEF GetReferenceType, FetchChanges, Abort
<1>2. CASE EnterMapping \/ LeaveMappings \/ StopInLoop
  BY <1>2 DEF EnterMapping, LeaveMappings, StopInLoop, Abort, local
<1>3. CASE FindTarget
  BY <1>3, FindTargetCases DEF FindTarget, FindsTarget, GiveUp, NextRecord, AfterFind, local
<1>4. CASE FindDeleted
  BY <1>4, FindDeletedCases DEF FindDeleted, FindsDeleted, GiveUp, NextRecord, local
<1>5. CASE CaptureSnapshot \/ CaptureDeleteSnapshot
  BY <1>5 DEF CaptureSnapshot, CaptureDeleteSnapshot, Capture, GiveUp, NextRecord, local
<1>6. CASE UpsertRecord \/ DeleteTarget
  BY <1>6 DEF UpsertRecord, DeleteTarget, GiveUp, NextRecord, local
<1>7. CASE ApplyRetentionForRecord
  BY <1>7 DEF ApplyRetentionForRecord, GiveUp, NextRecord, local
<1>8. CASE LeaveRecords \/ FetchDeletions \/ LeaveDeletions
  BY <1>8 DEF LeaveRecords, FetchDeletions, LeaveDeletions, Abort, local
<1>9. CASE Cleanup
  BY <1>9 DEF Cleanup, Abort, local
<1>10. CASE LogWritten \/ LogLost
  BY <1>10 DEF LogWritten, LogLost
<1> QED BY <1>1, <1>2, <1>3, <1>4, <1>5, <1>6, <1>7, <1>8, <1>9, <1>10 DEF EngineStep

LEMMA EngineNeverIdle == EngineStep => pc # "idle"
BY DEF EngineStep, GetReferenceType, FetchChanges, EnterMapping, LeaveMappings, StopInLoop,
       FindTarget, CaptureSnapshot, UpsertRecord, ApplyRetentionForRecord, LeaveRecords,
       FetchDeletions, FindDeleted, CaptureDeleteSnapshot, DeleteTarget, LeaveDeletions,
       Cleanup, LogWritten, LogLost

LEMMA StepCold ==
    ASSUME TypeOK, WorkerTypeOK, ColdInv, [WorkerNext]_workerVars
    PROVE  ColdInv'
<1>1. /\ due \subseteq Definitions
      /\ lastSyncTimes \in [Definitions -> Int \cup {Null}]
  BY DEF TypeOK, WorkerTypeOK
<1>2. CASE StartCycle
  <2>1. /\ pc' = "idle" /\ lastSyncTimes' = [d \in Definitions |-> Null]
        /\ due' \subseteq Definitions
    BY <1>1, <1>2, DueTyped DEF StartCycle, NewScope, DropScope
  <2> QED BY <2>1 DEF ColdInv
<1>3. CASE RunDefinition
  BY <1>3 DEF RunDefinition, ExecuteSync, worker, ColdInv
<1>4. CASE DefinitionDone
  BY <1>4 DEF DefinitionDone, LogWritten, Return, ColdInv
<1>5. CASE DefinitionFails
  BY <1>5 DEF DefinitionFails, LogLost, Return, Wait, ColdInv
<1>6. CASE EndCycle \/ Wake \/ LeaveLoop
  BY <1>6 DEF EndCycle, Wake, LeaveLoop, Wait, vars, local, ColdInv
<1>7. CASE RestartService \/ CrashService
  BY <1>7 DEF RestartService, CrashService, Restart, Crash, Return, ColdInv
<1>8. CASE FetchStep \/ InnerStep
  <2>1. EngineStep /\ pc # "writeLog" /\ pc # "idle" /\ UNCHANGED worker
    BY <1>8, EngineNeverIdle DEF FetchStep, InnerStep, FetchChanges, EngineStep
  <2>2. /\ pc' \notin {"idle", "prepare"} /\ def' = def
        /\ \A d \in Definitions : d # def => lastSyncTimes'[d] = lastSyncTimes[d]
    BY <1>1, <2>1, MemoryKept
  <2> QED BY <1>1, <2>1, <2>2 DEF worker, ColdInv
<1>9. CASE UNCHANGED <<pc, def, lastSyncTimes, worker>>
  BY <1>9 DEF worker, ColdInv
<1>10. CASE WorldStep
  BY <1>9, <1>10 DEF WorldStep, UserStep, UserCreatesRow, UserUpdatesRow, UserDeletesRow,
                     EditSite, Tick, Stop, engineVars, local
<1>11. CASE Horizon \/ UNCHANGED workerVars
  BY <1>9, <1>11 DEF Horizon, workerVars, vars, local
<1> QED BY <1>2, <1>3, <1>4, <1>5, <1>6, <1>7, <1>8, <1>10, <1>11 DEF WorkerNext, WorkerStep

\* Under the worker a window never starts where the last one of the definition
\* ended: whatever happened to the cycles before, the engine that prepares a
\* synchronisation remembers no time for it.
THEOREM EnginesStartCold == WorkerSpec => EngineStartsCold
<1>1. WorkerInit => ColdInv
  BY DEF WorkerInit, Init, ColdInv
<1>2. TypeOK /\ WorkerTypeOK /\ ColdInv /\ [WorkerNext]_workerVars => ColdInv'
  BY StepCold
<1>3. ColdInv /\ [WorkerNext]_workerVars
         => [pc = "prepare" /\ pc' = "fetch" => lastSyncTimes[def] = Null]_workerVars
  BY DEF ColdInv
<1>4. WorkerSpec => []TypeOK
  BY WorkerKeepsEngineInvariants, PTL
<1> QED BY <1>1, <1>2, <1>3, <1>4, WorkerTypeCorrect, PTL DEF WorkerSpec, EngineStartsCold

-------------------------------------------------------------------------------
\* Change windows.  A synchronisation about to read its source starts its window no
\* later than one polling interval ago.
WindowInv == pc = "fetch" => lastSyncTime <= clock - Definition.interval

LEMMA StepClock ==
    ASSUME [Next]_vars
    PROVE  clock' = clock \/ (Tick /\ clock' = clock + 1)
BY DEF Next, vars, world, NewScope, ExecuteSync, EngineStep, GetReferenceType, FetchChanges,
       EnterMapping, LeaveMappings, StopInLoop, FindTarget, CaptureSnapshot, CaptureDeleteSnapshot,
       Capture, UpsertRecord, ApplyRetentionForRecord, LeaveRecords, FetchDeletions, FindDeleted,
       DeleteTarget, LeaveDeletions, Cleanup, LogWritten, LogLost, Environment, UserStep,
       UserCreatesRow, UserUpdatesRow, UserDeletesRow, EditSite, Tick, Stop, Restart, Crash

LEMMA StepWindow ==
    ASSUME TypeInv, ColdInv, WindowInv, [Next]_vars
    PROVE  WindowInv'
<1> SUFFICES ASSUME pc' = "fetch" PROVE lastSyncTime' <= clock' - Definition'.interval
  BY DEF WindowInv
<1>1. clock \in Nat /\ lastSyncTime \in Int /\ lastSyncTimes \in [Definitions -> Int \cup {Null}]
  BY TypeInvImplies, BoundsTyped DEF TypeOK
<1>2. CASE GetReferenceType
  <2>1. /\ phase = "run" /\ def \in due /\ lastSyncTimes[def] = Null
    BY <1>2 DEF GetReferenceType, ColdInv
  <2>2. /\ lastSyncTime' = clock - Definition.interval
        /\ clock' = clock /\ Definition' = Definition
    BY <1>2, <2>1 DEF GetReferenceType, Abort, world, Definition
  <2>3. def \in Definitions
    BY <1>2 DEF GetReferenceType, TypeInv, Control, LocalOK
  <2> QED BY <1>1, <2>2, <2>3, ConfigParts DEF Definition
<1>3. CASE pc = "fetch" /\ UNCHANGED <<def, lastSyncTime>>
  <2>1. def \in Definitions /\ Definition' = Definition
    BY <1>3 DEF TypeInv, Control, LocalOK, Definition
  <2>2. Definition.interval \in Nat
    BY <2>1, ConfigParts DEF Definition
  <2> QED BY <1>1, <1>3, <2>1, <2>2, StepClock DEF WindowInv
<1>4. GetReferenceType \/ (pc = "fetch" /\ UNCHANGED <<def, lastSyncTime>>)
  <2>1. CASE Prepares
    BY <2>1 DEF Prepares, Next, vars, local, NewScope, ExecuteSync, EngineStep, FetchChanges,
            EnterMapping, LeaveMappings, StopInLoop, FindTarget, CaptureSnapshot,
            CaptureDeleteSnapshot, Capture, UpsertRecord, ApplyRetentionForRecord, LeaveRecords,
            FetchDeletions, FindDeleted, DeleteTarget, LeaveDeletions, Cleanup, LogWritten, LogLost,
            Environment, UserStep, UserCreatesRow, UserUpdatesRow, UserDeletesRow, EditSite, Tick,
            Stop, Restart, Crash, engineVars, Return
  <2>2. CASE Stays
    BY <2>2 DEF Stays, local
  <2> QED BY <2>1, <2>2, StepFlow
          DEF Flow, Return, Aborts, Abort, GivesUp, GiveUp, NextRecord, Starts, ExecuteSync,
              Fetches, EnterMapping, LeaveMappings, LeaveRecords, LeaveDeletions, TakesUp,
              TakesUpDeleted, FindsTarget, FindsDeleted, AfterFind, Captures, Inserts, Processes,
              Updates, FetchesDeletions, Cleans
<1> QED BY <1>2, <1>3, <1>4

\* Under the worker a change that a user makes in a source is fetched by the next
\* synchronisation of the definition that reads the source in time: no later than
\* one polling interval after the one before did.
THEOREM NothingIsSkippedInTime == WorkerSpec => SteadyPollingSkipsNothing
<1> DEFINE Fetched ==
        \A r \in sites[Definition.source].rows :
            r.time > seen[def] /\ r.updator # Definition.syncUser => r \in changed'
<1>1. ASSUME TypeInv, WorkerTypeOK, WindowInv, [Next]_vars, pc = "fetch", pc' = "mapping",
             seen[def] # Null, clock <= seen[def] + Definition.interval
      PROVE  Fetched
  <2>1. /\ def \in Definitions /\ clock \in Nat /\ lastSyncTime \in Int
    BY <1>1, TypeInvImplies, BoundsTyped DEF TypeInv, Control, LocalOK, TypeOK
  <2>2. Definition.interval \in Nat /\ Definition.source \in Sites
    BY <2>1, ConfigParts DEF Definition
  <2>3. seen[def] \in Nat
    BY <1>1, <2>1 DEF WorkerTypeOK
  <2>4. lastSyncTime <= seen[def]
    BY <1>1, <2>1, <2>2, <2>3 DEF WindowInv
  <2>5. changed' = GetChangedRecords(sites[Definition.source], lastSyncTime, Definition.syncUser)
    BY <1>1, StepFlow
       DEF Flow, Stays, Return, Aborts, Abort, GivesUp, GiveUp, NextRecord, Starts, ExecuteSync,
           Prepares, Fetches, EnterMapping, LeaveMappings, LeaveRecords, LeaveDeletions, TakesUp,
           TakesUpDeleted, FindsTarget, FindsDeleted, AfterFind, Captures, Inserts, Processes,
           Updates, FetchesDeletions, Cleans, RecordLoop, DeletionLoop
  <2>6. \A r \in sites[Definition.source].rows : r.time \in Nat
    BY <1>1, <2>2, SiteParts, RowParts DEF TypeInv, WorldOK
  <2> QED BY <2>1, <2>3, <2>4, <2>5, <2>6 DEF GetChangedRecords
<1> HIDE DEF Fetched
<1>2. TypeInv /\ WorkerTypeOK /\ WindowInv /\ [Next]_vars
         => [pc = "fetch" /\ pc' = "mapping" /\ seen[def] # Null
             /\ clock <= seen[def] + Definition.interval => Fetched]_workerVars
  BY <1>1
<1>3. Init => WindowInv
  BY DEF Init, WindowInv
<1>4. TypeInv /\ ColdInv /\ WindowInv /\ [Next]_vars => WindowInv'
  BY StepWindow
<1>5. WorkerSpec => []ColdInv
  <2>1. WorkerInit => ColdInv
    BY DEF WorkerInit, Init, ColdInv
  <2>2. TypeOK /\ WorkerTypeOK /\ ColdInv /\ [WorkerNext]_workerVars => ColdInv'
    BY StepCold
  <2> QED BY <2>1, <2>2, WorkerKeepsEngineInvariants, WorkerTypeCorrect, PTL DEF WorkerSpec
<1> QED BY <1>2, <1>3, <1>4, <1>5, WorkerCallsEngine, WorkerTypeCorrect, InitTypeInv, StepTypeInv,
           PTL DEF Spec, SteadyPollingSkipsNothing, Fetched
===============================================================================
