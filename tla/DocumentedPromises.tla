--------------------------- MODULE DocumentedPromises ---------------------------
(***************************************************************************)
(* What docs/wiki/sync-engine.md says of a synchronisation, as properties  *)
(* of the worker, where the code does otherwise.  The first has a run of   *)
(* its own; the README names for each of the others an instance in which   *)
(* TLC refutes it.                                                         *)
(***************************************************************************)
EXTENDS SyncWorker

\* Line 53: after an update the row that was found holds the value of the source
\* record, under every strategy that lets the update through.
UpdateReachesTarget ==
    [][pc = "upsert" /\ pc' = "retain" /\ FoundRow # {} /\ "Val" \in EffectiveColumns =>
          \E r \in sites'[Target].rows : r.id = existing.id /\ r.val = record.val]_workerVars

\* Line 68, LastWriteWins: the row that was found is not overwritten when a user
\* changed it after the source record was changed.
NewerTargetSurvives ==
    [][/\ pc = "upsert" /\ pc' = "retain" /\ TouchesFoundRow
       /\ Definition.strategy = "LastWriteWins"
       => existing.updator = Definition.syncUser \/ existing.time <= record.time]_workerVars

\* Line 73, ManualResolution: the row that was found is neither overwritten nor
\* deleted when a user of the target changed it since the last synchronisation.
ConflictsAreLeftAlone ==
    [][/\ pc' # pc /\ pc \in {"upsert", "delete"} /\ TouchesFoundRow
       /\ Definition.strategy = "ManualResolution"
       => existing.updator = Definition.syncUser \/ existing.time <= lastSyncTime]_workerVars

\* Lines 40 to 43: what a synchronisation has just written from a live source row,
\* its deletion loop does not delete again for an older row with the same key.
SyncedRowsSurvive ==
    [][pc = "delete" /\ pc' = "deletion" =>
          \A q \in changed \cap sites[Definition.source].rows : q.key # record.key]_workerVars

\* Line 99: a column that is excluded from the synchronisation keeps its value.
ExcludedColumnsSurvive ==
    [][pc = "upsert" /\ pc' = "retain" /\ "Title" \notin EffectiveColumns =>
          \A r \in FoundRow : \E q \in sites'[Target].rows :
              q.id = r.id /\ q.title = r.title]_workerVars

\* Line 129: what is fetched are the changes since the previous fetch, none left
\* out.
NoChangeIsSkipped ==
    [][pc = "fetch" /\ pc' = "mapping" /\ seen[def] # Null =>
          \A r \in sites[Definition.source].rows :
              r.time > seen[def] /\ r.updator # Definition.syncUser => r \in changed']_workerVars

\* Line 131: a definition is polled at its own interval.
IntervalIsKept ==
    [][pc = "fetch" /\ pc' = "mapping" /\ seen[def] # Null =>
          clock >= seen[def] + Definition.interval]_workerVars

\* Line 135: every call of ExecuteSyncAsync that comes to its end leaves a log
\* entry.
EverySyncIsLogged ==
    [][pc = "writeLog" /\ pc' = "idle" => Len(logs') = Len(logs) + 1]_workerVars

\* Line 154: a state that the engine overwrites or deletes is in the version
\* history.
OverwrittenStateIsKept ==
    [][pc' # pc /\ pc \in {"upsert", "delete"} /\ Definition.history =>
          \A r \in sites[Target].rows \ sites'[Target].rows :
              \E h \in history :
                  h.rec = <<def, Target, r.id>> /\ h.at = r.time /\ h.by = r.updator]_workerVars

\* Line 169: the snapshot of a row holds the values of its columns.
SnapshotHoldsValues ==
    pc = "upsert" /\ existing # Null /\ Definition.history =>
        \A r \in FoundRow : \E h \in history :
            h.rec = <<def, Target, r.id>> /\ h.at = r.time /\ h.val = r.val

\* Line 183: between synchronisations no record has more versions than its
\* definition keeps.
CountIsLimited ==
    ~ InProgress => \A h \in history :
        LET max == Config[h.rec[1]].maxVersions
        IN  max # Null => Cardinality(HistoryOf(history, h.rec)) <= max

\* Line 197: an error in a synchronisation does not prevent its log entry; what an
\* earlier failure left in the context can be saved together with it.
LogCanBeWritten == pc = "writeLog" => CanSave(history, tracker)

\* Line 199: transactions keep the Items row of a record in step with the record.
ItemsFollowRows == \A s \in Sites : \A r \in sites[s].rows : r.item = r.title
===============================================================================
